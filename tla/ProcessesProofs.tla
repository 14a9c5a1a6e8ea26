--------------------------- MODULE ProcessesProofs ---------------------------
(* What the process table guarantees for every number of ids and execve    *)
(* calls, whatever the programs call.                                      *)
(*                                                                         *)
(* IInv is the inductive invariant.  IdsAreFresh says that an id that is   *)
(* about to be handed out is in use nowhere, from which the tids are       *)
(* unique; FamilyTree relates the two vectors of a parent to the parent_   *)
(* of its children; SpacesPartition and SpawnersKnown carry the argument   *)
(* that the memory of a suspended parent is not released too early; and    *)
(* VisitedAreQuiet says what a pass has established so far.  ServedInv,    *)
(* further down, adds the orders that say who is served first.             *)
EXTENDS Processes, FiniteSetTheorems, WellFoundedInduction, TLAPS

Entries == Waiters(waiting) \cup suspended

IdsAreFresh ==
  /\ lastUsedTid = lastUsedPid
  /\ processes \subseteq 1..lastUsedPid
  /\ \A t \in threads :
       /\ t.pid \in processes /\ t.tid <= lastUsedPid
       /\ t.tid \in processes => t.tid = t.pid

ImagesKnown == \A t \in threads : t.image <= execs[t.pid]

FamilyTree ==
  /\ \A p \in Ids, c \in Ids : c \in children[p] => parent[c] = p
  /\ \A c \in Ids : parent[c] # NoParent => c \in processes

ZombiesAreDead == \A p \in Ids : \A t \in threads : t.pid \notin exited[p]

SpacesPartition ==
  /\ \A p \in Ids : p \in space[p] /\ space[p] \subseteq processes \cup {p}
  /\ \A p, q \in Ids : q \in space[p] => space[q] = space[p]

SpawnersKnown ==
  \A c \in Ids : spawner[c] # NoThread =>
    /\ c \in processes
    /\ spawner[c].pid \in processes
    /\ spawner[c].tid <= lastUsedPid
    /\ spawner[c].image <= execs[spawner[c].pid]

OneEntryEach ==
  /\ Waiters(waiting) \subseteq threads \ suspended
  /\ \A b, d \in waiting : b.thread = d.thread => b = d

VisitedAreQuiet ==
  ~panicked => /\ pass = {} => ~hit
               /\ ~hit => \A t \in Entries \ pass : Quiet(t)

IInv ==
  /\ TypeOK /\ IdsAreFresh /\ TidsAreUnique /\ ImagesKnown
  /\ FamilyTree /\ ExitedAreChildren /\ ZombiesAreDead
  /\ SpacesPartition /\ SpawnersKnown /\ ParentIsSuspended
  /\ OneEntryEach /\ VisitedAreQuiet

-----------------------------------------------------------------------------
(* Facts about the operators the actions share.                            *)

LEMMA IdFacts ==
  ASSUME BoundsAssumption
  PROVE  Root \in Ids /\ 0 \in 0..MaxExecs /\ Ids \subseteq Int
BY DEF BoundsAssumption, Root, Ids

LEMMA RootThread ==
  ASSUME NEW p \in Ids, NEW n \in 0..MaxExecs
  PROVE  Main(p, n) \in Threads /\ Main(p, n).pid = p /\ Main(p, n).tid = p
         /\ Main(p, n).image = n
BY DEF Main, Threads

LEMMA AmongType ==
  ASSUME NEW S, NEW T, NEW order, order \subseteq S \X S
  PROVE  Among(order, T) \subseteq S \X S
BY DEF Among

LEMMA EntriesAreThreads ==
  ASSUME TypeOK
  PROVE  Entries \subseteq Threads /\ pass \subseteq Threads
BY DEF TypeOK, Entries, Waiters, Waits

LEMMA CallerFacts ==
  ASSUME TypeOK, NEW t \in threads, NEW call, Calling(t, call)
  PROVE  /\ t \in Threads /\ t.pid \in Ids /\ t.tid \in Ids
         /\ t \notin Entries /\ pass = {} /\ ~panicked
BY DEF TypeOK, Calling, Threads, Entries

LEMMA NewIds ==
  ASSUME BoundsAssumption, TypeOK, IdsLeft
  PROVE  NewPid \in Ids /\ NewTid \in Ids
BY DEF BoundsAssumption, TypeOK, IdsLeft, NewPid, NewTid, Ids

LEMMA CloneType ==
  ASSUME BoundsAssumption, TypeOK, NEW p \in Ids, NEW shared \in BOOLEAN, CloneProcess(p, shared)
  PROVE  /\ lastUsedPid' \in Ids /\ lastUsedTid' \in Ids
         /\ processes' \subseteq Ids /\ processes \subseteq processes'
         /\ parent' \in [Ids -> Ids \cup {NoParent}]
         /\ children' \in [Ids -> SUBSET processes']
         /\ exited' \in [Ids -> SUBSET processes'] /\ before' \subseteq Ids \X Ids
         /\ space' \in [Ids -> SUBSET Ids]
<1>1. IdsLeft /\ NewPid \in Ids /\ NewTid \in Ids
  BY NewIds DEF CloneProcess
<1>2. lastUsedPid' \in Ids /\ lastUsedTid' \in Ids
  BY <1>1 DEF CloneProcess, AllocatedPid, NewPid, NewTid
<1>3. processes' = processes \cup {NewPid}
  BY <1>1 DEF CloneProcess, AllocatedPid, NewPid
<1>4. space' \in [Ids -> SUBSET Ids]
  BY <1>1 DEF CloneProcess, TypeOK
<1>5. children' \in [Ids -> SUBSET processes']
  BY <1>1, <1>3 DEF CloneProcess, TypeOK
<1> QED BY <1>1, <1>2, <1>3, <1>4, <1>5 DEF CloneProcess, TypeOK

(* The pass that follows a call visits entries only. *)
LEMMA PassType ==
  ASSUME ThenPass
  PROVE  pass' \subseteq Waiters(waiting') \cup suspended' /\ hit' \in BOOLEAN
BY DEF ThenPass

LEMMA TerminateType ==
  ASSUME TypeOK, NEW dead, Terminate(dead)
  PROVE  /\ threads' \subseteq Threads /\ waiting' \subseteq Waits
         /\ suspended' \subseteq Threads /\ since' \subseteq Threads \X Threads
BY AmongType DEF TypeOK, Terminate

LEMMA RetrieveType ==
  ASSUME TypeOK, NEW p \in Ids, NEW c, Retrieve(p, c)
  PROVE  /\ children' \in [Ids -> SUBSET processes]
         /\ exited' \in [Ids -> SUBSET processes] /\ before' \subseteq Ids \X Ids
BY AmongType DEF TypeOK, Retrieve

LEMMA LeavesType ==
  ASSUME TypeOK, NEW t, Leaves(t)
  PROVE  /\ waiting' \subseteq Waits /\ waiting' \subseteq waiting
         /\ suspended' \subseteq Threads /\ since' \subseteq Threads \X Threads
BY AmongType DEF TypeOK, Leaves

(* A pass never visits an entry that has left. *)
LEMMA AdvanceType ==
  ASSUME TypeOK, NEW t, NEW unblocked \in BOOLEAN, Advance(t, unblocked),
         Leaves(t) \/ UNCHANGED <<waiting, suspended>>
  PROVE  pass' \subseteq Waiters(waiting') \cup suspended' /\ hit' \in BOOLEAN
<1>1. CASE pass = {t} /\ (hit \/ unblocked)
  BY <1>1, PassType DEF Advance
<1>2. CASE ~(pass = {t} /\ (hit \/ unblocked))
  <2>1. pass' = pass \ {t} /\ hit' = (hit \/ unblocked)
    BY <1>2 DEF Advance
  <2>2. \A u \in Waiters(waiting) \cup suspended :
          u # t => u \in Waiters(waiting') \cup suspended'
    BY DEF Leaves, Waiters
  <2> QED BY <2>1, <2>2 DEF TypeOK
<1> QED BY <1>1, <1>2

-----------------------------------------------------------------------------
(* TypeOK. *)

LEMMA CloneThreadType ==
  ASSUME BoundsAssumption, TypeOK, NEW t \in threads, CloneThread(t)
  PROVE  TypeOK'
<1>1. IdsLeft /\ NewTid \in Ids /\ NewPid \in Ids
  BY NewIds DEF CloneThread
<1>2. lastUsedPid' \in Ids /\ lastUsedTid' \in Ids
  BY <1>1 DEF CloneThread, AllocatedTid, NewPid, NewTid
<1>3. threads' \subseteq Threads
  <2>1. t.pid \in Ids /\ execs[t.pid] \in 0..MaxExecs
    BY DEF TypeOK, Threads
  <2>2. [pid |-> t.pid, tid |-> NewTid, image |-> execs[t.pid]] \in Threads
    BY <1>1, <2>1 DEF Threads
  <2> QED BY <2>2 DEF CloneThread, TypeOK
<1>4. pass' \subseteq Waiters(waiting') \cup suspended' /\ hit' \in BOOLEAN
  BY PassType DEF CloneThread
<1> QED BY <1>2, <1>3, <1>4 DEF CloneThread, TypeOK, family

LEMMA ForkType ==
  ASSUME BoundsAssumption, TypeOK, NEW t \in threads, Fork(t)
  PROVE  TypeOK'
<1>1. PICK shared \in BOOLEAN, vfork \in BOOLEAN :
        /\ Calling(t, IF vfork THEN "vfork" ELSE IF shared THEN "vm" ELSE "fork")
        /\ CloneProcess(t.pid, shared)
        /\ IF vfork
             THEN Suspend(t) /\ spawner' = [spawner EXCEPT ![NewPid] = t]
             ELSE UNCHANGED <<suspended, since, spawner>>
  BY DEF Fork
<1>2. t \in Threads /\ t.pid \in Ids
  BY DEF TypeOK, Threads
<1>3. NewPid \in Ids
  BY <1>1, NewIds DEF CloneProcess
<1>4. threads' \subseteq Threads
  BY <1>3, IdFacts, RootThread DEF Fork, TypeOK
<1>5. /\ suspended' \subseteq Threads /\ since' \subseteq Threads \X Threads
      /\ spawner' \in [Ids -> Threads \cup {NoThread}]
  <2>1. CASE vfork
    <3>1. Suspend(t) /\ spawner' = [spawner EXCEPT ![NewPid] = t]
      BY <1>1, <2>1
    <3>2. Waiters(waiting) \cup suspended \subseteq Threads
      BY EntriesAreThreads DEF Entries
    <3> QED BY <3>1, <3>2, <1>2, <1>3 DEF Suspend, TypeOK
  <2>2. CASE ~vfork
    BY <1>1, <2>2 DEF TypeOK
  <2> QED BY <2>1, <2>2
<1>6. pass' \subseteq Waiters(waiting') \cup suspended' /\ hit' \in BOOLEAN
  BY PassType DEF Fork
<1>7. execs' = execs /\ waiting' = waiting /\ panicked' = panicked
  BY DEF Fork
<1>8. /\ lastUsedPid' \in Ids /\ lastUsedTid' \in Ids
      /\ processes' \subseteq Ids
      /\ parent' \in [Ids -> Ids \cup {NoParent}]
      /\ children' \in [Ids -> SUBSET processes']
      /\ exited' \in [Ids -> SUBSET processes'] /\ before' \subseteq Ids \X Ids
      /\ space' \in [Ids -> SUBSET Ids]
  BY <1>1, <1>2, CloneType
<1> QED BY <1>4, <1>5, <1>6, <1>7, <1>8 DEF TypeOK

LEMMA RefusedType ==
  ASSUME BoundsAssumption, TypeOK, NEW t \in threads, CloneRefused(t)
  PROVE  TypeOK'
<1>1. PICK shared \in BOOLEAN : CloneProcess(t.pid, shared)
  BY DEF CloneRefused
<1>2. t.pid \in Ids
  BY DEF TypeOK, Threads
<1>3. pass' \subseteq Waiters(waiting') \cup suspended' /\ hit' \in BOOLEAN
  BY PassType DEF CloneRefused
<1>4. /\ lastUsedPid' \in Ids /\ lastUsedTid' \in Ids
      /\ processes' \subseteq Ids
      /\ parent' \in [Ids -> Ids \cup {NoParent}]
      /\ children' \in [Ids -> SUBSET processes']
      /\ exited' \in [Ids -> SUBSET processes'] /\ before' \subseteq Ids \X Ids
      /\ space' \in [Ids -> SUBSET Ids]
  BY <1>1, <1>2, CloneType
<1> QED BY <1>3, <1>4 DEF CloneRefused, TypeOK

LEMMA ExecType ==
  ASSUME BoundsAssumption, TypeOK, NEW t \in threads, Exec(t)
  PROVE  TypeOK'
<1>1. t.pid \in Ids /\ execs[t.pid] \in 0..MaxExecs /\ execs[t.pid] + 1 \in 0..MaxExecs
  BY DEF Exec, TypeOK, Threads, BoundsAssumption
<1>2. threads' \subseteq Threads
  BY <1>1, RootThread DEF Exec, TypeOK
<1>3. waiting' \subseteq Waits /\ since' \subseteq Threads \X Threads
  BY AmongType DEF Exec, TypeOK
<1>4. space' \in [Ids -> SUBSET Ids] /\ execs' \in [Ids -> 0..MaxExecs]
  BY <1>1 DEF Exec, TypeOK
<1>5. /\ children' \in [Ids -> SUBSET processes]
      /\ exited' \in [Ids -> SUBSET processes] /\ before' \subseteq Ids \X Ids
  BY AmongType DEF Exec, ForgetChildren, TypeOK
<1>6. pass' \subseteq Waiters(waiting') \cup suspended' /\ hit' \in BOOLEAN
  BY PassType DEF Exec
<1> QED BY <1>2, <1>3, <1>4, <1>5, <1>6 DEF Exec, TypeOK, ids

LEMMA EndType ==
  ASSUME TypeOK, NEW t \in threads, Exit(t) \/ Tgkill(t) \/ ExitGroup(t)
  PROVE  TypeOK'
<1>1. /\ threads' \subseteq Threads /\ waiting' \subseteq Waits
      /\ suspended' \subseteq Threads /\ since' \subseteq Threads \X Threads
  BY TerminateType DEF Exit, Tgkill, ExitGroup
<1>2. pass' \subseteq Waiters(waiting') \cup suspended' /\ hit' \in BOOLEAN
  BY PassType DEF Exit, Tgkill, ExitGroup
<1>3. CASE Exit(t) \/ Tgkill(t)
  BY <1>1, <1>2, <1>3 DEF Exit, Tgkill, TypeOK, ids, family
<1>4. CASE ExitGroup(t)
  <2>1. t.pid \in Ids
    BY DEF TypeOK, Threads
  <2>2. /\ exited' \in [Ids -> SUBSET processes] /\ before' \subseteq Ids \X Ids
        /\ panicked' \in BOOLEAN
    <3>1. CASE parent[t.pid] = NoParent \/ t.pid \notin children[parent[t.pid]]
      BY <3>1, <1>4 DEF ExitGroup, NotifyExit, Panic, TypeOK
    <3>2. CASE ~(parent[t.pid] = NoParent \/ t.pid \notin children[parent[t.pid]])
      <4>1. /\ exited' = [exited EXCEPT ![parent[t.pid]] = @ \cup {t.pid}]
            /\ before' = before \cup (Zombies \X {t.pid})
            /\ panicked' = panicked
        BY <3>2, <1>4 DEF ExitGroup, NotifyExit
      <4>2. parent[t.pid] \in Ids /\ t.pid \in processes
        BY <2>1, <3>2 DEF TypeOK
      <4>3. Zombies \subseteq Ids
        BY DEF Zombies, TypeOK
      <4> QED BY <2>1, <4>1, <4>2, <4>3 DEF TypeOK
    <3> QED BY <3>1, <3>2
  <2> QED BY <1>1, <1>2, <1>4, <2>2 DEF ExitGroup, TypeOK, ids
<1> QED BY <1>3, <1>4

LEMMA Wait4Type ==
  ASSUME ValuesAssumption, TypeOK, NEW t \in threads, Wait4(t)
  PROVE  TypeOK'
<1>1. t \in Threads /\ t.pid \in Ids
  BY DEF TypeOK, Threads
<1>2. pass' \subseteq Waiters(waiting') \cup suspended' /\ hit' \in BOOLEAN
  BY PassType DEF Wait4
<1>3. PICK pid \in Targets, opt \in Options :
        IF opt = "untraced" /\ exited[t.pid] # {}
        THEN /\ \E c \in Ids : FirstExited(t.pid, c) /\ Retrieve(t.pid, c)
             /\ UNCHANGED <<waiting, since>>
        ELSE /\ ~(opt = "nohang" /\ exited[t.pid] = {})
             /\ waiting' = waiting \cup {[thread |-> t, pid |-> pid]}
             /\ since' = since \cup ((Waiters(waiting) \cup suspended) \X {t})
             /\ UNCHANGED <<children, exited, before>>
  BY DEF Wait4
<1>4. /\ waiting' \subseteq Waits /\ since' \subseteq Threads \X Threads
      /\ children' \in [Ids -> SUBSET processes]
      /\ exited' \in [Ids -> SUBSET processes] /\ before' \subseteq Ids \X Ids
  <2>1. CASE opt = "untraced" /\ exited[t.pid] # {}
    BY <2>1, <1>1, <1>3, RetrieveType DEF TypeOK
  <2>2. CASE ~(opt = "untraced" /\ exited[t.pid] # {})
    <3>1. /\ waiting' = waiting \cup {[thread |-> t, pid |-> pid]}
          /\ since' = since \cup (Entries \X {t})
          /\ UNCHANGED <<children, exited, before>>
      BY <2>2, <1>3 DEF Entries
    <3>2. [thread |-> t, pid |-> pid] \in Waits
      BY <1>1 DEF Waits, ValuesAssumption
    <3> QED BY <1>1, <3>1, <3>2, EntriesAreThreads DEF TypeOK
  <2> QED BY <2>1, <2>2
<1> QED BY <1>2, <1>4 DEF Wait4, TypeOK, ids

LEMMA VisitType ==
  ASSUME TypeOK, NEW t \in pass, Visit(t)
  PROVE  TypeOK'
<1>1. t \in Threads /\ t.pid \in Ids
  BY EntriesAreThreads DEF Threads
<1>2. CASE VisitAnswered(t)
  <2>1. /\ children' \in [Ids -> SUBSET processes]
        /\ exited' \in [Ids -> SUBSET processes] /\ before' \subseteq Ids \X Ids
    BY <1>1, <1>2, RetrieveType DEF VisitAnswered
  <2>2. /\ waiting' \subseteq Waits /\ suspended' \subseteq Threads
        /\ since' \subseteq Threads \X Threads
    BY <1>2, LeavesType DEF VisitAnswered
  <2>3. pass' \subseteq Waiters(waiting') \cup suspended' /\ hit' \in BOOLEAN
    BY <1>2, AdvanceType DEF VisitAnswered
  <2> QED BY <1>2, <2>1, <2>2, <2>3 DEF VisitAnswered, TypeOK, ids
<1>3. CASE VisitReleased(t)
  <2>1. /\ waiting' \subseteq Waits /\ suspended' \subseteq Threads
        /\ since' \subseteq Threads \X Threads
    BY <1>3, LeavesType DEF VisitReleased
  <2>2. pass' \subseteq Waiters(waiting') \cup suspended' /\ hit' \in BOOLEAN
    BY <1>3, AdvanceType DEF VisitReleased
  <2> QED BY <1>3, <2>1, <2>2 DEF VisitReleased, TypeOK, ids, family
<1>4. CASE VisitInVain(t)
  <2>1. UNCHANGED <<waiting, suspended>> /\ Advance(t, FALSE)
    BY <1>4 DEF VisitInVain
  <2>2. pass' \subseteq Waiters(waiting') \cup suspended' /\ hit' \in BOOLEAN
    BY <2>1, AdvanceType
  <2> QED BY <1>4, <2>2 DEF VisitInVain, TypeOK, ids, family
<1>5. CASE VisitFails(t)
  BY <1>5 DEF VisitFails, Panic, TypeOK, ids, family, passVars
<1> QED BY <1>2, <1>3, <1>4, <1>5 DEF Visit

LEMMA TypeStep ==
  ASSUME BoundsAssumption, ValuesAssumption, TypeOK, [Next]_vars
  PROVE  TypeOK'
<1>1. CASE UNCHANGED vars
  BY <1>1 DEF vars, ids, family, passVars, TypeOK
<1>2. CASE \E t \in threads : Call(t)
  BY <1>2, CloneThreadType, ForkType, RefusedType, ExecType, EndType, Wait4Type DEF Call
<1>3. CASE \E t \in pass : Visit(t)
  BY <1>3, VisitType
<1> QED BY <1>1, <1>2, <1>3 DEF Next, Ended

-----------------------------------------------------------------------------
(* The conjuncts of the invariant about ids, families and address spaces.  *)

Creates(t) == CloneThread(t) \/ Fork(t) \/ CloneRefused(t) \/ Exec(t)

(* All other steps leave the table alone and create no thread. *)
LEMMA OtherSteps ==
  ASSUME [Next]_vars, ~ \E t \in threads : Creates(t)
  PROVE  /\ UNCHANGED <<lastUsedPid, lastUsedTid, processes, parent, space, execs, spawner>>
         /\ threads' \subseteq threads
<1>1. CASE UNCHANGED vars
  BY <1>1 DEF vars, ids, family
<1>2. CASE \E t \in threads : Call(t)
  BY <1>2 DEF Call, Creates, Exit, Tgkill, ExitGroup, Wait4, Terminate, ids, family
<1>3. CASE \E t \in pass : Visit(t)
  BY <1>3 DEF Visit, VisitAnswered, VisitReleased, VisitInVain, VisitFails, ids, family
<1> QED BY <1>1, <1>2, <1>3 DEF Next, Ended

(* What a thread's process has cloned. *)
LEMMA CloneEffect ==
  ASSUME TypeOK, NEW p, NEW shared, CloneProcess(p, shared)
  PROVE  /\ lastUsedPid' = lastUsedPid + 1 /\ lastUsedTid' = lastUsedTid + 1
         /\ lastUsedPid \in Nat /\ NewPid = lastUsedPid + 1
         /\ processes' = processes \cup {NewPid}
BY DEF CloneProcess, AllocatedPid, NewPid, TypeOK, Ids

LEMMA IdsStep ==
  ASSUME BoundsAssumption, TypeOK, IdsAreFresh, TidsAreUnique, [Next]_vars
  PROVE  IdsAreFresh' /\ TidsAreUnique'
<1> USE DEF IdsAreFresh, TidsAreUnique
<1>1. ASSUME NEW t \in threads, CloneThread(t)
      PROVE  IdsAreFresh' /\ TidsAreUnique'
  <2> DEFINE n == [pid |-> t.pid, tid |-> NewTid, image |-> execs[t.pid]]
  <2>1. /\ lastUsedPid' = lastUsedPid + 1 /\ lastUsedTid' = lastUsedTid + 1
        /\ NewTid = lastUsedPid + 1 /\ lastUsedPid \in Nat
        /\ threads' = threads \cup {n} /\ processes' = processes
    BY <1>1 DEF CloneThread, AllocatedTid, NewTid, TypeOK, Ids
  <2>2. \A u \in threads : u.tid \in Nat /\ u.tid <= lastUsedPid
    BY DEF TypeOK, Threads, Ids
  <2>3. n.pid = t.pid /\ n.tid = lastUsedPid + 1 /\ n.tid \notin processes
    BY <2>1
  <2> HIDE DEF n
  <2> QED BY <2>1, <2>2, <2>3
<1>2. ASSUME NEW t \in threads, Fork(t)
      PROVE  IdsAreFresh' /\ TidsAreUnique'
  <2> DEFINE n == Main(NewPid, 0)
  <2>1. PICK shared \in BOOLEAN : CloneProcess(t.pid, shared)
    BY <1>2 DEF Fork
  <2>2. /\ lastUsedPid' = lastUsedPid + 1 /\ lastUsedTid' = lastUsedTid + 1
        /\ lastUsedPid \in Nat /\ NewPid = lastUsedPid + 1
        /\ processes' = processes \cup {NewPid}
    BY <2>1, CloneEffect
  <2>3. threads' = threads \cup {n} /\ n.pid = NewPid /\ n.tid = NewPid
    BY <1>2 DEF Fork, Main
  <2>4. \A u \in threads : u.tid \in Nat /\ u.tid <= lastUsedPid
    BY DEF TypeOK, Threads, Ids
  <2> HIDE DEF n
  <2> QED BY <2>2, <2>3, <2>4
<1>3. ASSUME NEW t \in threads, CloneRefused(t)
      PROVE  IdsAreFresh' /\ TidsAreUnique'
  <2>1. PICK shared \in BOOLEAN : CloneProcess(t.pid, shared)
    BY <1>3 DEF CloneRefused
  <2>2. /\ lastUsedPid' = lastUsedPid + 1 /\ lastUsedTid' = lastUsedTid + 1
        /\ lastUsedPid \in Nat /\ NewPid = lastUsedPid + 1
        /\ processes' = processes \cup {NewPid}
    BY <2>1, CloneEffect
  <2>3. \A u \in threads : u.tid \in Nat /\ u.tid <= lastUsedPid
    BY DEF TypeOK, Threads, Ids
  <2>4. threads' = threads
    BY <1>3 DEF CloneRefused
  <2> QED BY <2>2, <2>3, <2>4
<1>4. ASSUME NEW t \in threads, Exec(t)
      PROVE  IdsAreFresh' /\ TidsAreUnique'
  <2> DEFINE n == Main(t.pid, execs[t.pid] + 1)
  <2>1. /\ UNCHANGED <<lastUsedPid, lastUsedTid, processes>>
        /\ threads' = (threads \ ThreadsOf(t.pid)) \cup {n}
        /\ n.pid = t.pid /\ n.tid = t.pid
    BY <1>4 DEF Exec, ids, Main
  <2>2. \A u \in threads \ ThreadsOf(t.pid) : u.pid # t.pid
    BY DEF ThreadsOf
  <2>3. t.pid \in processes /\ t.pid <= lastUsedPid
    <3>1. t.pid \in processes /\ t.pid \in 1..lastUsedPid
      OBVIOUS
    <3>2. lastUsedPid \in Int
      BY DEF TypeOK, Ids
    <3> QED BY <3>1, <3>2
  <2> HIDE DEF n
  <2> QED BY <2>1, <2>2, <2>3
<1>5. CASE ~ \E t \in threads : Creates(t)
  BY <1>5, OtherSteps
<1> QED BY <1>1, <1>2, <1>3, <1>4, <1>5 DEF Creates

-----------------------------------------------------------------------------
(* The families. *)

FamilyOK == FamilyTree /\ ExitedAreChildren /\ ZombiesAreDead

(* What fork does to the families, whether its flags are rejected or not.  *)
LEMMA CloneFamily ==
  ASSUME TypeOK, IdsAreFresh, FamilyOK, NEW t \in threads, NEW shared \in BOOLEAN,
         BoundsAssumption, CloneProcess(t.pid, shared),
         \A u \in threads' : u \in threads \/ u.pid = NewPid
  PROVE  FamilyOK'
<1>1. NewPid \in Ids \ processes /\ processes' = processes \cup {NewPid}
  <2>1. IdsLeft
    BY DEF CloneProcess
  <2> QED BY <2>1, NewIds, CloneEffect DEF IdsAreFresh
<1>2. t.pid \in Ids /\ t.pid \in processes
  BY DEF TypeOK, Threads, IdsAreFresh
<1>3. /\ parent' = [parent EXCEPT ![NewPid] = t.pid]
      /\ children' = [children EXCEPT ![t.pid] = @ \cup {NewPid}]
      /\ exited' = exited
  BY DEF CloneProcess
<1>4. \A p \in Ids : children[p] \subseteq processes /\ exited[p] \subseteq processes
  BY DEF TypeOK
<1>5. \A p \in Ids :
        children'[p] = IF p = t.pid THEN children[p] \cup {NewPid} ELSE children[p]
  BY <1>2, <1>3 DEF TypeOK
<1>6. \A c \in Ids : parent'[c] = IF c = NewPid THEN t.pid ELSE parent[c]
  BY <1>3 DEF TypeOK
<1>7. FamilyTree'
  <2>1. \A c \in Ids : parent'[c] # NoParent => c \in processes'
    BY <1>1, <1>6 DEF FamilyOK, FamilyTree
  <2>2. ASSUME NEW p \in Ids, NEW c \in Ids, c \in children'[p]
        PROVE  parent'[c] = p
    <3>1. CASE c = NewPid
      <4>1. c \notin children[p] /\ parent'[c] = t.pid
        BY <3>1, <1>1, <1>4, <1>6
      <4>2. c \in children[p] \/ p = t.pid
        BY <1>5, <2>2
      <4> QED BY <4>1, <4>2
    <3>2. CASE c # NewPid
      <4>1. children'[p] \subseteq children[p] \cup {NewPid}
        BY <1>5
      <4>2. c \in children[p]
        BY <4>1, <3>2, <2>2
      <4>3. parent[c] = p
        BY <4>2 DEF FamilyOK, FamilyTree
      <4> QED BY <3>2, <4>3, <1>6
    <3> QED BY <3>1, <3>2
  <2> QED BY <2>1, <2>2 DEF FamilyTree
<1>8. ExitedAreChildren'
  BY <1>3, <1>5 DEF FamilyOK, ExitedAreChildren
<1>9. ZombiesAreDead'
  BY <1>1, <1>3, <1>4 DEF FamilyOK, ZombiesAreDead
<1> QED BY <1>7, <1>8, <1>9 DEF FamilyOK

LEMMA RetrieveFamily ==
  ASSUME TypeOK, FamilyOK, NEW p \in Ids, NEW c, Retrieve(p, c),
         threads' \subseteq threads, UNCHANGED <<parent, processes>>
  PROVE  FamilyOK'
<1>1. \A q \in Ids : /\ children'[q] = IF q = p THEN children[q] \ {c} ELSE children[q]
                     /\ exited'[q] = IF q = p THEN exited[q] \ {c} ELSE exited[q]
  BY DEF Retrieve, TypeOK
<1> QED BY <1>1 DEF FamilyOK, FamilyTree, ExitedAreChildren, ZombiesAreDead

LEMMA FamilyStep ==
  ASSUME BoundsAssumption, TypeOK, IdsAreFresh, FamilyOK, [Next]_vars
  PROVE  FamilyOK'
<1>0. \A t \in threads : t \in Threads /\ t.pid \in Ids
  BY DEF TypeOK, Threads
<1>1. ASSUME NEW t \in threads, CloneThread(t)
      PROVE  FamilyOK'
  <2>1. \A u \in threads' : u \in threads \/ u.pid = t.pid
    BY <1>1 DEF CloneThread
  <2>2. UNCHANGED <<processes, parent, children, exited>>
    BY <1>1 DEF CloneThread, family
  <2> QED BY <2>1, <2>2 DEF FamilyOK, FamilyTree, ExitedAreChildren, ZombiesAreDead
<1>2. ASSUME NEW t \in threads, Fork(t)
      PROVE  FamilyOK'
  <2>1. PICK shared \in BOOLEAN : CloneProcess(t.pid, shared)
    BY <1>2 DEF Fork
  <2>2. \A u \in threads' : u \in threads \/ u.pid = NewPid
    BY <1>2 DEF Fork, Main
  <2> QED BY <2>1, <2>2, CloneFamily
<1>3. ASSUME NEW t \in threads, CloneRefused(t)
      PROVE  FamilyOK'
  <2>1. PICK shared \in BOOLEAN : CloneProcess(t.pid, shared)
    BY <1>3 DEF CloneRefused
  <2>2. threads' = threads
    BY <1>3 DEF CloneRefused
  <2> QED BY <2>1, <2>2, CloneFamily
<1>4. ASSUME NEW t \in threads, Exec(t)
      PROVE  FamilyOK'
  <2>1. \A q \in Ids : /\ children'[q] = IF q = t.pid THEN {} ELSE children[q]
                       /\ exited'[q] = IF q = t.pid THEN {} ELSE exited[q]
    BY <1>4 DEF Exec, ForgetChildren, TypeOK
  <2>2. \A u \in threads' : u \in threads \/ u.pid = t.pid
    BY <1>4 DEF Exec, Main
  <2>3. UNCHANGED <<processes, parent>>
    BY <1>4 DEF Exec
  <2> QED BY <2>1, <2>2, <2>3 DEF FamilyOK, FamilyTree, ExitedAreChildren, ZombiesAreDead
<1>5. ASSUME NEW t \in threads, Exit(t) \/ Tgkill(t)
      PROVE  FamilyOK'
  <2>1. UNCHANGED <<processes, parent, children, exited>> /\ threads' \subseteq threads
    BY <1>5 DEF Exit, Tgkill, Terminate, family
  <2> QED BY <2>1 DEF FamilyOK, FamilyTree, ExitedAreChildren, ZombiesAreDead
<1>6. ASSUME NEW t \in threads, ExitGroup(t)
      PROVE  FamilyOK'
  <2>1. /\ UNCHANGED <<processes, parent, children>>
        /\ threads' = threads \ ThreadsOf(t.pid)
    BY <1>6 DEF ExitGroup, Terminate
  <2>2. CASE exited' = exited
    BY <2>1, <2>2 DEF FamilyOK, FamilyTree, ExitedAreChildren, ZombiesAreDead
  <2>3. CASE exited' # exited
    <3>1. /\ parent[t.pid] # NoParent
          /\ t.pid \in children[parent[t.pid]]
          /\ exited' = [exited EXCEPT ![parent[t.pid]] = @ \cup {t.pid}]
      BY <1>6, <2>3 DEF ExitGroup, NotifyExit
    <3>2. \A q \in Ids : exited'[q] = IF q = parent[t.pid] THEN exited[q] \cup {t.pid}
                                      ELSE exited[q]
      BY <3>1 DEF TypeOK
    <3>3. \A u \in threads' : u \in threads /\ u.pid # t.pid
      BY <2>1 DEF ThreadsOf
    <3> QED BY <2>1, <3>1, <3>2, <3>3 DEF FamilyOK, FamilyTree, ExitedAreChildren, ZombiesAreDead
  <2> QED BY <2>2, <2>3
<1>7. ASSUME NEW t \in threads, Wait4(t)
      PROVE  FamilyOK'
  <2>1. UNCHANGED <<processes, parent, threads>>
    BY <1>7 DEF Wait4
  <2>2. (\E c \in Ids : Retrieve(t.pid, c)) \/ UNCHANGED <<children, exited>>
    BY <1>7 DEF Wait4
  <2>3. CASE UNCHANGED <<children, exited>>
    BY <2>1, <2>3 DEF FamilyOK, FamilyTree, ExitedAreChildren, ZombiesAreDead
  <2> QED BY <1>0, <2>1, <2>2, <2>3, RetrieveFamily
<1>8. ASSUME NEW t \in pass, Visit(t)
      PROVE  FamilyOK'
  <2>1. UNCHANGED <<processes, parent, threads>>
    BY <1>8 DEF Visit, VisitAnswered, VisitReleased, VisitInVain, VisitFails, family
  <2>2. (\E c \in Ids : Retrieve(t.pid, c)) \/ UNCHANGED <<children, exited>>
    BY <1>8 DEF Visit, VisitAnswered, VisitReleased, VisitInVain, VisitFails, family
  <2>3. CASE UNCHANGED <<children, exited>>
    BY <2>1, <2>3 DEF FamilyOK, FamilyTree, ExitedAreChildren, ZombiesAreDead
  <2>4. t.pid \in Ids
    BY EntriesAreThreads DEF Threads
  <2> QED BY <2>1, <2>2, <2>3, <2>4, RetrieveFamily
<1>9. CASE UNCHANGED vars
  BY <1>9 DEF vars, family, FamilyOK, FamilyTree, ExitedAreChildren, ZombiesAreDead
<1> QED
  BY <1>1, <1>2, <1>3, <1>4, <1>5, <1>6, <1>7, <1>8, <1>9 DEF Next, Ended, Call

-----------------------------------------------------------------------------
(* The address spaces, and the parents that wait for theirs.               *)

LEMMA SpaceStep ==
  ASSUME BoundsAssumption, TypeOK, IdsAreFresh, SpacesPartition, [Next]_vars
  PROVE  SpacesPartition'
<1>0. \A t \in threads : t.pid \in Ids /\ t.pid \in processes
  BY DEF TypeOK, Threads, IdsAreFresh
<1>1. ASSUME NEW p \in Ids, p \in processes, NEW shared \in BOOLEAN, CloneProcess(p, shared)
      PROVE  SpacesPartition'
  <2>1. /\ NewPid \in Ids \ processes /\ processes' = processes \cup {NewPid}
        /\ space' = IF ~shared THEN space
                    ELSE [q \in Ids |-> IF q \in space[p] \cup {NewPid}
                                        THEN space[p] \cup {NewPid} ELSE space[q]]
    <3>1. IdsLeft
      BY <1>1 DEF CloneProcess
    <3>2. NewPid \in Ids /\ NewPid = lastUsedPid + 1 /\ lastUsedPid \in Nat
      BY <3>1, <1>1, NewIds, CloneEffect
    <3>3. NewPid \notin processes
      BY <3>2 DEF IdsAreFresh
    <3> QED BY <3>2, <3>3, <1>1, CloneEffect DEF CloneProcess
  <2>2. CASE ~shared
    BY <2>1, <2>2 DEF SpacesPartition
  <2>3. CASE shared
    <3>1. \A q \in Ids : space'[q] = IF q \in space[p] \cup {NewPid}
                                     THEN space[p] \cup {NewPid} ELSE space[q]
      BY <2>1, <2>3
    <3>2. \A q \in Ids : q \notin space[p] \cup {NewPid} =>
            /\ NewPid \notin space[q]
            /\ \A r \in space[p] : r \notin space[q]
      <4> SUFFICES ASSUME NEW q \in Ids, q \notin space[p] \cup {NewPid}
                   PROVE  NewPid \notin space[q] /\ \A r \in space[p] : r \notin space[q]
        OBVIOUS
      <4>1. NewPid \notin space[q]
        BY <2>1 DEF SpacesPartition
      <4>2. ASSUME NEW r \in space[p], r \in space[q]
            PROVE  FALSE
        <5>1. r \in Ids
          BY <1>1 DEF TypeOK
        <5>2. space[r] = space[p] /\ space[r] = space[q] /\ q \in space[q]
          BY <1>1, <4>2, <5>1 DEF SpacesPartition
        <5> QED BY <5>2
      <4> QED BY <4>1, <4>2
    <3>3. \A q \in Ids : q \in space'[q] /\ space'[q] \subseteq processes' \cup {q}
      BY <1>1, <2>1, <3>1 DEF SpacesPartition
    <3>4. ASSUME NEW q \in Ids, NEW r \in Ids, r \in space'[q]
          PROVE  space'[r] = space'[q]
      <4>1. CASE q \in space[p] \cup {NewPid}
        BY <3>1, <3>4, <4>1
      <4>2. CASE q \notin space[p] \cup {NewPid}
        <5>1. space'[q] = space[q] /\ r \in space[q]
          BY <3>1, <3>4, <4>2
        <5>2. r \notin space[p] \cup {NewPid}
          BY <3>2, <4>2, <5>1
        <5> QED BY <3>1, <5>1, <5>2 DEF SpacesPartition
      <4> QED BY <4>1, <4>2
    <3> QED BY <3>3, <3>4 DEF SpacesPartition
  <2> QED BY <2>2, <2>3
<1>2. ASSUME NEW t \in threads, CloneThread(t)
      PROVE  SpacesPartition'
  BY <1>2 DEF CloneThread, SpacesPartition
<1>3. ASSUME NEW t \in threads, Fork(t) \/ CloneRefused(t)
      PROVE  SpacesPartition'
  BY <1>0, <1>1, <1>3 DEF Fork, CloneRefused
<1>4. ASSUME NEW t \in threads, Exec(t)
      PROVE  SpacesPartition'
  <2>1. \A q \in Ids : space'[q] = IF q = t.pid THEN {q} ELSE space[q] \ {t.pid}
    BY <1>4 DEF Exec
  <2>2. processes' = processes
    BY <1>4 DEF Exec
  <2>3. \A q \in Ids : q \in space'[q] /\ space'[q] \subseteq processes' \cup {q}
    <3> SUFFICES ASSUME NEW q \in Ids
                 PROVE  q \in space'[q] /\ space'[q] \subseteq processes' \cup {q}
      OBVIOUS
    <3>1. q \in space[q] /\ space[q] \subseteq processes \cup {q}
      BY DEF SpacesPartition
    <3>2. CASE q = t.pid
      BY <2>1, <3>2
    <3>3. CASE q # t.pid
      <4>1. space'[q] = space[q] \ {t.pid}
        BY <2>1, <3>3
      <4> QED BY <2>2, <3>1, <3>3, <4>1
    <3> QED BY <3>2, <3>3
  <2>4. ASSUME NEW p \in Ids, NEW q \in Ids, q \in space'[p]
        PROVE  space'[q] = space'[p]
    <3>1. CASE p = t.pid
      <4>1. space'[p] = {p}
        BY <2>1, <3>1
      <4>2. q = p
        BY <2>4, <4>1
      <4> QED BY <4>2
    <3>2. CASE p # t.pid
      <4>1. space'[p] = space[p] \ {t.pid}
        BY <2>1, <3>2
      <4>2. q \in space[p] /\ q # t.pid
        BY <2>4, <4>1
      <4>3. space[q] = space[p]
        BY <4>2 DEF SpacesPartition
      <4>4. space'[q] = space[q] \ {t.pid}
        BY <2>1, <4>2
      <4> QED BY <4>1, <4>3, <4>4
    <3> QED BY <3>1, <3>2
  <2> QED BY <2>3, <2>4 DEF SpacesPartition
<1>5. CASE ~ \E t \in threads : Creates(t)
  BY <1>5, OtherSteps DEF SpacesPartition
<1> QED BY <1>2, <1>3, <1>4, <1>5 DEF Creates

LEMMA ImageStep ==
  ASSUME BoundsAssumption, TypeOK, ImagesKnown, [Next]_vars
  PROVE  ImagesKnown'
<1>0. \A t \in threads : t.pid \in Ids /\ t.image \in Int /\ execs[t.pid] \in Int
  BY DEF TypeOK, Threads
<1>1. ASSUME NEW t \in threads, CloneThread(t)
      PROVE  ImagesKnown'
  BY <1>0, <1>1 DEF CloneThread, ImagesKnown
<1>2. ASSUME NEW t \in threads, Fork(t)
      PROVE  ImagesKnown'
  <2>1. NewPid \in Ids
    BY <1>2, NewIds DEF Fork, CloneProcess
  <2>2. 0 <= execs[NewPid]
    BY <2>1 DEF TypeOK
  <2> QED BY <1>0, <1>2, <2>2 DEF Fork, Main, ImagesKnown
<1>3. ASSUME NEW t \in threads, CloneRefused(t)
      PROVE  ImagesKnown'
  BY <1>3 DEF CloneRefused, ImagesKnown
<1>4. ASSUME NEW t \in threads, Exec(t)
      PROVE  ImagesKnown'
  <2>1. \A p \in Ids : execs'[p] = IF p = t.pid THEN execs[p] + 1 ELSE execs[p]
    BY <1>4 DEF Exec, TypeOK
  <2>2. \A u \in threads' :
          \/ u \in threads /\ u.pid # t.pid
          \/ u.pid = t.pid /\ u.image = execs[t.pid] + 1
    BY <1>4 DEF Exec, Main, ThreadsOf
  <2> QED BY <1>0, <2>1, <2>2 DEF ImagesKnown
<1>5. CASE ~ \E t \in threads : Creates(t)
  BY <1>5, OtherSteps DEF ImagesKnown
<1> QED BY <1>1, <1>2, <1>3, <1>4, <1>5 DEF Creates

LEMMA SpawnerStep ==
  ASSUME BoundsAssumption, ValuesAssumption, TypeOK, IdsAreFresh, ImagesKnown,
         SpawnersKnown, [Next]_vars
  PROVE  SpawnersKnown'
<1>0. \A t \in threads : t \in Threads /\ t.pid \in Ids /\ t.pid \in processes
                         /\ t.tid <= lastUsedPid
  BY DEF TypeOK, Threads, IdsAreFresh
<1>1. \A c \in Ids : spawner[c] # NoThread => spawner[c] \in Threads
  BY DEF TypeOK
<1>2. lastUsedPid \in Int /\ \A c \in Ids : spawner[c] # NoThread => spawner[c].tid \in Int
  BY <1>1 DEF TypeOK, Ids, Threads
<1>3. ASSUME NEW t \in threads, CloneThread(t)
      PROVE  SpawnersKnown'
  <2>1. UNCHANGED <<processes, execs, spawner>> /\ lastUsedPid' = lastUsedPid + 1
    BY <1>3 DEF CloneThread, AllocatedTid
  <2> QED BY <1>2, <2>1 DEF SpawnersKnown
<1>4. ASSUME NEW t \in threads, CloneRefused(t)
      PROVE  SpawnersKnown'
  <2>1. /\ UNCHANGED <<execs, spawner>> /\ lastUsedPid' = lastUsedPid + 1
        /\ processes \subseteq processes'
    BY <1>4, CloneEffect DEF CloneRefused
  <2> QED BY <1>2, <2>1 DEF SpawnersKnown
<1>5. ASSUME NEW t \in threads, Fork(t)
      PROVE  SpawnersKnown'
  <2>1. PICK shared \in BOOLEAN : CloneProcess(t.pid, shared)
    BY <1>5 DEF Fork
  <2>2. /\ execs' = execs /\ lastUsedPid' = lastUsedPid + 1
        /\ processes' = processes \cup {NewPid}
    BY <1>5, <2>1, CloneEffect DEF Fork
  <2>3. spawner' = spawner \/ spawner' = [spawner EXCEPT ![NewPid] = t]
    BY <1>5 DEF Fork
  <2>4. \A c \in Ids : spawner'[c] = spawner[c] \/ (c = NewPid /\ spawner'[c] = t)
    BY <2>3 DEF TypeOK
  <2>5. t.image <= execs[t.pid]
    BY DEF ImagesKnown
  <2>6. ASSUME NEW c \in Ids, spawner'[c] # NoThread
        PROVE  /\ c \in processes'
               /\ spawner'[c].pid \in processes'
               /\ spawner'[c].tid <= lastUsedPid'
               /\ spawner'[c].image <= execs'[spawner'[c].pid]
    <3>1. CASE c = NewPid /\ spawner'[c] = t
      <4>1. t.tid \in Int /\ t.tid <= lastUsedPid + 1
        BY <1>0, <1>2 DEF Threads, Ids
      <4> QED BY <1>0, <2>2, <2>5, <3>1, <4>1
    <3>2. CASE spawner'[c] = spawner[c]
      <4>1. spawner[c].tid <= lastUsedPid + 1
        BY <1>2, <2>6, <3>2 DEF SpawnersKnown
      <4> QED BY <2>2, <2>6, <3>2, <4>1 DEF SpawnersKnown
    <3> QED BY <2>4, <3>1, <3>2
  <2> QED BY <2>6 DEF SpawnersKnown
<1>6. ASSUME NEW t \in threads, Exec(t)
      PROVE  SpawnersKnown'
  <2>1. UNCHANGED <<processes, lastUsedPid, spawner>>
    BY <1>6 DEF Exec, ids
  <2>2. \A p \in Ids : execs[p] \in Int /\ execs[p] <= execs'[p]
    BY <1>6 DEF Exec, TypeOK
  <2>3. \A c \in Ids : spawner[c] # NoThread =>
          spawner[c].image \in Int /\ spawner[c].pid \in Ids
    BY <1>1 DEF Threads
  <2>4. \A p \in Ids : execs'[p] \in Int
    BY <1>6, TypeStep DEF TypeOK, Exec
  <2> QED BY <2>1, <2>2, <2>3, <2>4 DEF SpawnersKnown
<1>7. CASE ~ \E t \in threads : Creates(t)
  BY <1>7, OtherSteps DEF SpawnersKnown
<1> QED BY <1>3, <1>4, <1>5, <1>6, <1>7 DEF Creates

(* A process that has its memory for itself is alone in its class. *)
LEMMA ReleasedAlone ==
  ASSUME BoundsAssumption, TypeOK, SpacesPartition, NEW p \in Ids, Released(p)
  PROVE  space[p] = {p}
<1>1. IsFiniteSet(Ids)
  BY FS_Interval DEF BoundsAssumption, Ids
<1>2. IsFiniteSet(space[p])
  BY <1>1, FS_Subset DEF TypeOK
<1>3. \E x : space[p] = {x}
  BY <1>2, FS_Singleton DEF Released
<1> QED BY <1>3 DEF SpacesPartition

LEMMA SuspendedStep ==
  ASSUME BoundsAssumption, ValuesAssumption, TypeOK, IdsAreFresh, ImagesKnown,
         SpacesPartition, SpawnersKnown, OneEntryEach, ParentIsSuspended, [Next]_vars
  PROVE  ParentIsSuspended'
<1>0. \A t \in threads : t \in Threads /\ t.pid \in Ids /\ t.pid \in processes
  BY DEF TypeOK, Threads, IdsAreFresh
<1>1. NoThread \notin threads /\ NoThread \notin threads'
  <2>1. TypeOK'
    BY TypeStep
  <2> QED BY <2>1 DEF TypeOK, ValuesAssumption
(* A thread that a step creates is not the spawner of any process. *)
<1>2. lastUsedPid \in Int
      /\ \A c \in Ids : spawner[c] # NoThread =>
           /\ spawner[c] \in Threads
           /\ spawner[c].pid \in Ids /\ spawner[c].tid \in Int /\ spawner[c].image \in Int
           /\ spawner[c].tid <= lastUsedPid
           /\ spawner[c].image <= execs[spawner[c].pid]
  BY DEF TypeOK, Ids, Threads, SpawnersKnown
<1>3. ASSUME NEW t \in threads, CloneThread(t)
      PROVE  ParentIsSuspended'
  <2>1. UNCHANGED <<space, spawner, suspended>>
    BY <1>3 DEF CloneThread
  <2>2. \A u \in threads' : u \in threads \/ u.tid = lastUsedPid + 1
    BY <1>3 DEF CloneThread, NewTid, IdsAreFresh
  <2>3. \A c \in Ids : spawner[c] \in threads' => spawner[c] \in threads
    BY <1>1, <1>2, <2>2
  <2> QED BY <2>1, <2>3 DEF ParentIsSuspended
<1>4. ASSUME NEW t \in threads, Fork(t) \/ CloneRefused(t)
      PROVE  ParentIsSuspended'
  <2>1. PICK shared \in BOOLEAN : CloneProcess(t.pid, shared)
    BY <1>4 DEF Fork, CloneRefused
  <2>2. NewPid \in Ids /\ NewPid = lastUsedPid + 1 /\ NewPid \notin processes
    <3>1. NewPid \in Ids /\ NewPid = lastUsedPid + 1 /\ lastUsedPid \in Nat
      BY <2>1, NewIds, CloneEffect DEF CloneProcess
    <3> QED BY <3>1 DEF IdsAreFresh
  <2>3. \A u \in threads' : u \in threads \/ u.tid = lastUsedPid + 1
    BY <1>4, <2>2 DEF Fork, CloneRefused, Main
  <2>4. \A c \in Ids : spawner[c] \in threads' => spawner[c] \in threads
    BY <1>1, <1>2, <2>3
  <2>5. \/ spawner' = spawner
        \/ spawner' = [spawner EXCEPT ![NewPid] = t] /\ suspended' = suspended \cup {t}
    BY <1>4 DEF Fork, CloneRefused, Suspend
  <2>6. suspended \subseteq suspended'
    BY <1>4 DEF Fork, CloneRefused, Suspend
  <2>7. spawner[NewPid] = NoThread
    BY <2>2 DEF SpawnersKnown
  <2>8. \A c \in Ids : \/ spawner'[c] = spawner[c] /\ spawner[c] = NoThread
                       \/ spawner'[c] = spawner[c] /\ c # NewPid
                       \/ spawner'[c] = t /\ t \in suspended'
    BY <2>5, <2>7 DEF TypeOK
  <2>9. \A q \in Ids : q # NewPid => space'[q] \subseteq space[q] \cup {NewPid}
    <3>1. \A q \in Ids : space'[q] = space[q] \/ (q \in space[t.pid] \cup {NewPid}
                                       /\ space'[q] = space[t.pid] \cup {NewPid})
      BY <2>1 DEF CloneProcess
    <3>2. \A q \in space[t.pid] : space[q] = space[t.pid]
      BY <1>0 DEF SpacesPartition, TypeOK
    <3> QED BY <3>1, <3>2
  <2>10. ASSUME NEW c \in Ids, spawner'[c] \in threads',
                c \in space'[spawner'[c].pid], c # spawner'[c].pid
         PROVE  spawner'[c] \in suspended'
    <3>1. CASE spawner'[c] = t /\ t \in suspended'
      BY <3>1
    <3>2. CASE spawner'[c] = spawner[c] /\ spawner[c] = NoThread
      BY <3>2, <2>10, <1>1
    <3>3. CASE spawner'[c] = spawner[c] /\ c # NewPid
      <4>1. spawner[c] \in threads
        BY <2>4, <2>10, <3>3
      <4>2. spawner[c].pid \in Ids /\ spawner[c].pid # NewPid
        BY <1>0, <2>2, <4>1
      <4>3. c \in space[spawner[c].pid]
        BY <2>9, <2>10, <3>3, <4>2
      <4> QED BY <2>6, <2>10, <3>3, <4>1, <4>3 DEF ParentIsSuspended
    <3> QED BY <2>8, <3>1, <3>2, <3>3
  <2> QED BY <2>10 DEF ParentIsSuspended
<1>5. ASSUME NEW t \in threads, Exec(t)
      PROVE  ParentIsSuspended'
  <2>1. UNCHANGED <<spawner, suspended>>
    BY <1>5 DEF Exec
  <2>2. \A q \in Ids : space'[q] \subseteq space[q] \/ space'[q] = {q}
    BY <1>5 DEF Exec
  <2>3. \A u \in threads' :
          u \in threads \/ (u.pid = t.pid /\ u.image = execs[t.pid] + 1)
    BY <1>5 DEF Exec, Main
  <2>4. execs[t.pid] \in Int
    BY <1>0 DEF TypeOK
  <2>5. \A c \in Ids : spawner[c] \in threads' => spawner[c] \in threads
    BY <1>1, <1>2, <2>3, <2>4
  <2> QED BY <1>0, <2>1, <2>2, <2>5 DEF ParentIsSuspended
<1>6. ASSUME UNCHANGED <<space, spawner>>, threads' \subseteq threads, suspended \subseteq suspended'
      PROVE  ParentIsSuspended'
  BY <1>6 DEF ParentIsSuspended
<1>7. ASSUME NEW t \in threads, Exit(t) \/ Tgkill(t) \/ ExitGroup(t) \/ Wait4(t)
      PROVE  ParentIsSuspended'
  BY <1>6, <1>7 DEF Exit, Tgkill, ExitGroup, Wait4, Terminate
<1>8. ASSUME NEW t \in pass, Visit(t)
      PROVE  ParentIsSuspended'
  <2>1. UNCHANGED <<space, spawner, threads>>
    BY <1>8 DEF Visit, VisitAnswered, VisitReleased, VisitInVain, VisitFails
  <2>2. CASE VisitAnswered(t)
    <3>1. t \in Waiters(waiting) /\ suspended' = suspended \ {t}
      BY <2>2 DEF VisitAnswered, Leaves, Waiters
    <3>2. suspended' = suspended
      BY <3>1 DEF OneEntryEach
    <3> QED BY <1>6, <2>1, <3>2
  <2>3. CASE VisitReleased(t)
    <3>1. t \in threads /\ Released(t.pid) /\ suspended' = suspended \ {t}
      BY <2>3 DEF VisitReleased, Leaves
    <3>2. space[t.pid] = {t.pid}
      BY <1>0, <3>1, ReleasedAlone
    <3> QED BY <2>1, <3>1, <3>2 DEF ParentIsSuspended
  <2>4. CASE VisitInVain(t) \/ VisitFails(t)
    <3>1. suspended' = suspended
      BY <2>4 DEF VisitInVain, VisitFails
    <3> QED BY <1>6, <2>1, <3>1
  <2> QED BY <1>8, <2>2, <2>3, <2>4 DEF Visit
<1>9. CASE UNCHANGED vars
  BY <1>6, <1>9 DEF vars
<1> QED BY <1>3, <1>4, <1>5, <1>7, <1>8, <1>9 DEF Next, Ended, Call

-----------------------------------------------------------------------------
(* The blockers and the passes over them.                                  *)

LEMMA EntryStep ==
  ASSUME TypeOK, OneEntryEach, [Next]_vars
  PROVE  OneEntryEach'
<1>1. ASSUME NEW t \in threads, CloneThread(t) \/ CloneRefused(t)
      PROVE  OneEntryEach'
  BY <1>1 DEF CloneThread, CloneRefused, OneEntryEach, Waiters
<1>2. ASSUME NEW t \in threads, Fork(t)
      PROVE  OneEntryEach'
  <2>1. waiting' = waiting /\ threads \subseteq threads' /\ suspended' \subseteq suspended \cup {t}
    BY <1>2 DEF Fork, Suspend
  <2>2. t \notin Waiters(waiting)
    BY <1>2 DEF Fork, Calling
  <2> QED BY <2>1, <2>2 DEF OneEntryEach, Waiters
<1>3. ASSUME NEW t \in threads, Exec(t)
      PROVE  OneEntryEach'
  <2>1. /\ waiting' = {b \in waiting : b.thread.pid # t.pid}
        /\ threads \ ThreadsOf(t.pid) \subseteq threads'
        /\ suspended' = suspended
    BY <1>3 DEF Exec
  <2> QED BY <2>1 DEF OneEntryEach, Waiters, ThreadsOf
<1>4. ASSUME NEW t \in threads, Exit(t) \/ Tgkill(t) \/ ExitGroup(t)
      PROVE  OneEntryEach'
  <2>1. PICK dead : Terminate(dead)
    BY <1>4 DEF Exit, Tgkill, ExitGroup
  <2> QED BY <2>1 DEF Terminate, OneEntryEach, Waiters
<1>5. ASSUME NEW t \in threads, Wait4(t)
      PROVE  OneEntryEach'
  <2>1. t \notin Waiters(waiting) /\ t \notin suspended
    BY <1>5 DEF Wait4, Calling
  <2>2. suspended' = suspended /\ threads' = threads
    BY <1>5 DEF Wait4
  <2>3. waiting' = waiting \/ \E pid : waiting' = waiting \cup {[thread |-> t, pid |-> pid]}
    BY <1>5 DEF Wait4
  <2>4. CASE waiting' = waiting
    BY <2>2, <2>4 DEF OneEntryEach, Waiters
  <2>5. ASSUME NEW pid, waiting' = waiting \cup {[thread |-> t, pid |-> pid]}
        PROVE  OneEntryEach'
    BY <2>1, <2>2, <2>5 DEF OneEntryEach, Waiters
  <2> QED BY <2>3, <2>4, <2>5
<1>6. ASSUME NEW t \in pass, Visit(t)
      PROVE  OneEntryEach'
  <2>1. waiting' \subseteq waiting /\ suspended' \subseteq suspended /\ threads' = threads
    BY <1>6 DEF Visit, VisitAnswered, VisitReleased, VisitInVain, VisitFails, Leaves
  <2> QED BY <2>1 DEF OneEntryEach, Waiters
<1>7. CASE UNCHANGED vars
  BY <1>7 DEF vars, OneEntryEach, Waiters
<1> QED BY <1>1, <1>2, <1>3, <1>4, <1>5, <1>6, <1>7 DEF Next, Ended, Call

LEMMA QuietStep ==
  ASSUME TypeOK, OneEntryEach, VisitedAreQuiet, [Next]_vars
  PROVE  VisitedAreQuiet'
<1>1. ASSUME ThenPass
      PROVE  VisitedAreQuiet'
  BY <1>1 DEF ThenPass, VisitedAreQuiet, Entries
<1>2. ASSUME NEW t \in threads, Call(t)
      PROVE  VisitedAreQuiet'
  BY <1>1, <1>2 DEF Call, CloneThread, Fork, CloneRefused, Exec, Exit, Tgkill, ExitGroup, Wait4
<1>3. ASSUME NEW t \in pass, VisitAnswered(t) \/ VisitReleased(t)
      PROVE  VisitedAreQuiet'
  <2>1. Advance(t, TRUE)
    BY <1>3 DEF VisitAnswered, VisitReleased
  <2>2. CASE ThenPass
    BY <1>1, <2>2
  <2>3. CASE pass # {t} /\ pass' = pass \ {t} /\ hit' = TRUE
    BY <1>3, <2>3 DEF VisitedAreQuiet
  <2> QED BY <2>1, <2>2, <2>3 DEF Advance
<1>4. ASSUME UNCHANGED <<family, space, waiting, suspended>>, NEW t, Quiet(t)
      PROVE  Quiet(t)'
  BY <1>4 DEF family, Quiet, Unverified, Answers, FirstExited, Released
<1>5. ASSUME NEW t \in pass, VisitInVain(t)
      PROVE  VisitedAreQuiet'
  <2>1. Advance(t, FALSE) /\ UNCHANGED <<family, space, waiting, suspended, panicked>>
    BY <1>5 DEF VisitInVain
  <2>2. Quiet(t)
    <3>1. CASE t \in suspended
      BY <1>5, <3>1 DEF VisitInVain, Quiet, OneEntryEach, Waiters
    <3>2. CASE t \notin suspended
      BY <1>5, <3>2 DEF VisitInVain, Quiet, OneEntryEach
    <3> QED BY <3>1, <3>2
  <2>3. CASE ThenPass
    BY <1>1, <2>3
  <2>4. CASE pass' = pass \ {t} /\ hit' = hit /\ ~(pass = {t} /\ hit)
    <3>1. pass' = {} => ~hit'
      BY <1>5, <2>4
    <3>2. Entries' = Entries
      BY <2>1 DEF Entries, Waiters
    <3>3. ASSUME ~panicked', ~hit', NEW u \in Entries' \ pass'
          PROVE  Quiet(u)'
      <4>1. Quiet(u)
        BY <2>1, <2>2, <2>4, <3>2, <3>3 DEF VisitedAreQuiet
      <4> QED BY <4>1, <2>1, <1>4
    <3> QED BY <3>1, <3>3 DEF VisitedAreQuiet
  <2> QED BY <2>1, <2>3, <2>4 DEF Advance, TypeOK
<1>6. ASSUME NEW t \in pass, VisitFails(t)
      PROVE  VisitedAreQuiet'
  BY <1>6 DEF VisitFails, Panic, VisitedAreQuiet
<1>7. CASE UNCHANGED vars
  <2>1. UNCHANGED <<family, space, waiting, suspended, pass, hit, panicked>>
    BY <1>7 DEF vars, passVars
  <2>2. Entries' = Entries
    BY <2>1 DEF Entries, Waiters
  <2> QED BY <1>4, <2>1, <2>2 DEF VisitedAreQuiet
<1> QED BY <1>2, <1>3, <1>5, <1>6, <1>7 DEF Next, Ended, Visit

-----------------------------------------------------------------------------
(* The theorems. *)

LEMMA InitInv ==
  ASSUME BoundsAssumption, ValuesAssumption, Init
  PROVE  IInv
<1> USE DEF Init
<1>1. Root \in Ids /\ Main(Root, 0) \in Threads /\ Main(Root, 0).pid = Root
      /\ Main(Root, 0).tid = Root /\ Main(Root, 0).image = 0
  BY IdFacts, RootThread
<1>2. TypeOK
  <2>1. /\ execs \in [Ids -> 0..MaxExecs] /\ space \in [Ids -> SUBSET Ids]
        /\ children \in [Ids -> SUBSET processes]
        /\ exited \in [Ids -> SUBSET processes]
    BY IdFacts
  <2>2. /\ parent \in [Ids -> Ids \cup {NoParent}]
        /\ spawner \in [Ids -> Threads \cup {NoThread}]
    OBVIOUS
  <2>3. /\ waiting \subseteq Waits /\ suspended \subseteq Threads
        /\ pass \subseteq Waiters(waiting) \cup suspended
        /\ since \subseteq Threads \X Threads /\ before \subseteq Ids \X Ids
    OBVIOUS
  <2>4. hit \in BOOLEAN /\ panicked \in BOOLEAN
    OBVIOUS
  <2>5. /\ lastUsedPid \in Ids /\ lastUsedTid \in Ids /\ processes \subseteq Ids
        /\ threads \subseteq Threads
    BY <1>1
  <2> QED BY <2>1, <2>2, <2>3, <2>4, <2>5 DEF TypeOK
<1>3. IdsAreFresh /\ TidsAreUnique /\ ImagesKnown
  BY <1>1 DEF IdsAreFresh, TidsAreUnique, ImagesKnown, Root
<1>4. FamilyTree /\ ExitedAreChildren /\ ZombiesAreDead
  BY DEF FamilyTree, ExitedAreChildren, ZombiesAreDead
<1>5. SpacesPartition /\ SpawnersKnown
  BY DEF SpacesPartition, SpawnersKnown
<1>6. ParentIsSuspended
  BY <1>2 DEF ParentIsSuspended, TypeOK, ValuesAssumption
<1>7. OneEntryEach /\ VisitedAreQuiet
  BY DEF OneEntryEach, VisitedAreQuiet, Entries, Waiters
<1> QED BY <1>2, <1>3, <1>4, <1>5, <1>6, <1>7 DEF IInv

LEMMA NextInv ==
  ASSUME BoundsAssumption, ValuesAssumption, IInv, [Next]_vars
  PROVE  IInv'
<1> USE DEF IInv
<1>1. TypeOK' /\ IdsAreFresh' /\ TidsAreUnique' /\ ImagesKnown'
  BY TypeStep, IdsStep, ImageStep
<1>2. FamilyTree' /\ ExitedAreChildren' /\ ZombiesAreDead'
  BY FamilyStep DEF FamilyOK
<1>3. SpacesPartition' /\ SpawnersKnown' /\ ParentIsSuspended'
  BY SpaceStep, SpawnerStep, SuspendedStep
<1>4. OneEntryEach' /\ VisitedAreQuiet'
  BY EntryStep, QuietStep
<1> QED BY <1>1, <1>2, <1>3, <1>4

(* IInv holds of every state the process table reaches. *)
THEOREM Invariant == Spec => []IInv
<1>1. Init => IInv
  BY InitInv, BoundsAssumption, ValuesAssumption
<1>2. IInv /\ [Next]_vars => IInv'
  BY NextInv, BoundsAssumption, ValuesAssumption
<1> QED BY <1>1, <1>2, PTL DEF Spec

(* The members have their types, whatever the programs call. *)
THEOREM TypeCorrect == Spec => []TypeOK
<1>1. IInv => TypeOK
  BY DEF IInv
<1> QED BY <1>1, Invariant, PTL

(* The verify of tryRetrieveExitedChild() never fails: every exit that is  *)
(* recorded is that of a process still in children_.                       *)
THEOREM ExitsKeepChildren == Spec => []ExitedAreChildren
<1>1. IInv => ExitedAreChildren
  BY DEF IInv
<1> QED BY <1>1, Invariant, PTL

(* Two live threads never share a tid, across fork, clone and execve.      *)
THEOREM TidsUnique == Spec => []TidsAreUnique
<1>1. IInv => TidsAreUnique
  BY DEF IInv
<1> QED BY <1>1, Invariant, PTL

(* The thread that called vfork stays suspended while the child has its    *)
(* memory.                                                                 *)
THEOREM VforkSuspends == Spec => []ParentIsSuspended
<1>1. IInv => ParentIsSuspended
  BY DEF IInv
<1> QED BY <1>1, Invariant, PTL

(* Once the passes are over nobody waits for what has happened already.    *)
THEOREM NobodyForgotten == Spec => []NobodyIsForgotten
<1>1. IInv => NobodyIsForgotten
  BY DEF IInv, VisitedAreQuiet, NobodyIsForgotten, Entries
<1> QED BY <1>1, Invariant, PTL

-----------------------------------------------------------------------------
(* The process table implements ChildLife.                                 *)

(* A step that creates no process and leaves every vector alone changes no *)
(* life.                                                                   *)
LEMMA SameLife ==
  ASSUME UNCHANGED <<processes, parent, children, exited>>
  PROVE  UNCHANGED <<Life, parent>>
BY DEF Life

LEMMA BirthStep ==
  ASSUME BoundsAssumption, ValuesAssumption, IInv, NEW t \in threads,
         NEW shared \in BOOLEAN, CloneProcess(t.pid, shared)
  PROVE  \E c \in Ids : Promise!Birth(c)
<1> USE DEF IInv
<1>1. NewPid \in Ids /\ NewPid \notin processes /\ processes' = processes \cup {NewPid}
  <2>1. NewPid \in Ids /\ NewPid = lastUsedPid + 1 /\ lastUsedPid \in Nat
        /\ processes' = processes \cup {NewPid}
    BY NewIds, CloneEffect DEF CloneProcess
  <2>2. NewPid \notin processes
    BY <2>1 DEF IdsAreFresh
  <2> QED BY <2>1, <2>2
<1>2. t.pid \in Ids /\ t.pid \in processes /\ t.pid # NoParent
  BY DEF TypeOK, Threads, IdsAreFresh, ValuesAssumption
<1>3. /\ parent' = [parent EXCEPT ![NewPid] = t.pid]
      /\ \A p \in Ids : exited'[p] = exited[p]
      /\ \A p \in Ids :
           children'[p] = IF p = t.pid THEN children[p] \cup {NewPid} ELSE children[p]
  BY <1>2 DEF CloneProcess, TypeOK
<1>4. Life[NewPid] = "unborn" /\ Life[t.pid] # "unborn"
  BY <1>1, <1>2 DEF Life
<1>5. Life'[NewPid] = "running"
  <2>1. parent'[NewPid] = t.pid /\ NewPid \in children'[t.pid] /\ NewPid \notin exited'[t.pid]
    BY <1>1, <1>2, <1>3 DEF TypeOK
  <2> QED BY <1>1, <1>2, <2>1 DEF Life
<1>6. ASSUME NEW c \in Ids, c # NewPid
      PROVE  Life'[c] = Life[c]
  <2>1. parent'[c] = parent[c] /\ (c \in processes' <=> c \in processes)
    BY <1>1, <1>3, <1>6 DEF TypeOK
  <2>2. CASE parent[c] = NoParent \/ c \notin processes
    BY <2>1, <2>2 DEF Life
  <2>3. CASE parent[c] # NoParent /\ c \in processes
    <3>1. parent[c] \in Ids
      BY <2>3 DEF TypeOK
    <3>2. exited'[parent[c]] = exited[parent[c]]
          /\ (c \in children'[parent[c]] <=> c \in children[parent[c]])
      <4>1. \/ children'[parent[c]] = children[parent[c]] \cup {NewPid}
            \/ children'[parent[c]] = children[parent[c]]
        BY <1>3, <3>1
      <4> QED BY <1>3, <1>6, <3>1, <4>1
    <3> QED BY <2>1, <2>3, <3>2 DEF Life
  <2> QED BY <2>2, <2>3
<1>7. Life' = [Life EXCEPT ![NewPid] = "running"]
  BY <1>1, <1>5, <1>6 DEF Life
<1> QED BY <1>1, <1>2, <1>3, <1>4, <1>7 DEF Promise!Birth

LEMMA ReportStep ==
  ASSUME IInv, ValuesAssumption, NEW p \in Ids, NEW c \in Ids, c \in exited[p],
         Retrieve(p, c), UNCHANGED <<processes, parent>>
  PROVE  Promise!Report(c)
<1> USE DEF IInv
<1>1. parent[c] = p /\ p # NoParent /\ c \in processes
  BY DEF ExitedAreChildren, FamilyTree, TypeOK, ValuesAssumption
<1>2. /\ \A q \in Ids : exited'[q] = IF q = p THEN exited[q] \ {c} ELSE exited[q]
      /\ \A q \in Ids : children'[q] = IF q = p THEN children[q] \ {c} ELSE children[q]
  BY DEF Retrieve, TypeOK
<1>3. Life[c] = "zombie" /\ Life'[c] = "gone"
  BY <1>1, <1>2 DEF Life
<1>4. ASSUME NEW d \in Ids, d # c
      PROVE  Life'[d] = Life[d]
  <2>1. CASE parent[d] = NoParent \/ d \notin processes
    BY <2>1 DEF Life
  <2>2. CASE parent[d] # NoParent /\ d \in processes
    <3>1. parent[d] \in Ids
      BY <2>2 DEF TypeOK
    <3>2. /\ d \in exited'[parent[d]] <=> d \in exited[parent[d]]
          /\ d \in children'[parent[d]] <=> d \in children[parent[d]]
      BY <1>2, <1>4, <3>1
    <3> QED BY <2>2, <3>2 DEF Life
  <2> QED BY <2>1, <2>2
<1>5. Life' = [Life EXCEPT ![c] = "gone"]
  BY <1>3, <1>4 DEF Life
<1> QED BY <1>3, <1>5 DEF Promise!Report

LEMMA DeathStep ==
  ASSUME IInv, ValuesAssumption, NEW t \in threads, ExitGroup(t), exited' # exited
  PROVE  Promise!Death(t.pid)
<1> USE DEF IInv
<1> DEFINE c == t.pid
           p == parent[c]
<1>1. c \in Ids /\ c \in processes /\ \A q \in Ids : c \notin exited[q]
  BY DEF TypeOK, Threads, IdsAreFresh, ZombiesAreDead
<1>2. /\ p # NoParent /\ c \in children[p]
      /\ exited' = [exited EXCEPT ![p] = @ \cup {c}]
      /\ UNCHANGED <<processes, parent, children>>
  BY DEF ExitGroup, NotifyExit
<1>3. p \in Ids
  BY <1>1, <1>2 DEF TypeOK
<1>4. \A q \in Ids : exited'[q] = IF q = p THEN exited[q] \cup {c} ELSE exited[q]
  BY <1>2, <1>3 DEF TypeOK
<1> HIDE DEF c
<1>5. Life[c] = "running" /\ Life'[c] = "zombie"
  BY <1>1, <1>2, <1>3, <1>4 DEF Life
<1>6. ASSUME NEW d \in Ids, d # c
      PROVE  Life'[d] = Life[d]
  <2>1. CASE parent[d] = NoParent \/ d \notin processes
    BY <1>2, <2>1 DEF Life
  <2>2. CASE parent[d] # NoParent /\ d \in processes
    <3>1. parent[d] \in Ids
      BY <2>2 DEF TypeOK
    <3>2. d \in exited'[parent[d]] <=> d \in exited[parent[d]]
      BY <1>4, <1>6, <3>1
    <3> QED BY <1>2, <2>2, <3>2 DEF Life
  <2> QED BY <2>1, <2>2
<1>7. Life' = [Life EXCEPT ![c] = "zombie"]
  BY <1>1, <1>5, <1>6 DEF Life
<1> QED BY <1>2, <1>5, <1>7 DEF Promise!Death, c

LEMMA DisownStep ==
  ASSUME IInv, ValuesAssumption, NEW t \in threads, Exec(t)
  PROVE  \E p \in Ids : Promise!Disown(p)
<1> USE DEF IInv
<1>1. t.pid \in Ids /\ t.pid # NoParent
  BY DEF TypeOK, Threads, ValuesAssumption
<1>2. /\ UNCHANGED <<processes, parent>>
      /\ \A q \in Ids : exited'[q] = IF q = t.pid THEN {} ELSE exited[q]
      /\ \A q \in Ids : children'[q] = IF q = t.pid THEN {} ELSE children[q]
  BY DEF Exec, ForgetChildren, TypeOK
<1>3. ASSUME NEW d \in Ids
      PROVE  Life'[d] = IF parent[d] = t.pid THEN "gone" ELSE Life[d]
  <2>1. CASE parent[d] = t.pid
    <3>1. d \in processes
      BY <1>1, <2>1 DEF FamilyTree
    <3> QED BY <1>1, <1>2, <2>1, <3>1 DEF Life
  <2>2. CASE parent[d] = NoParent
    BY <1>1, <1>2, <2>2 DEF Life
  <2>3. CASE parent[d] # t.pid /\ parent[d] # NoParent
    <3>1. parent[d] \in Ids
      BY <2>3 DEF TypeOK
    <3>2. exited'[parent[d]] = exited[parent[d]] /\ children'[parent[d]] = children[parent[d]]
      BY <1>2, <2>3, <3>1
    <3> QED BY <1>2, <2>3, <3>2 DEF Life
  <2> QED BY <2>1, <2>2, <2>3
<1>4. Life' = [d \in Ids |-> IF parent[d] = t.pid THEN "gone" ELSE Life[d]]
  BY <1>3 DEF Life
<1> QED BY <1>1, <1>2, <1>4 DEF Promise!Disown

LEMMA LifeStep ==
  ASSUME BoundsAssumption, ValuesAssumption, IInv, [Next]_vars
  PROVE  Promise!Next \/ UNCHANGED <<Life, parent>>
<1>0. \A t \in threads \cup pass : t.pid \in Ids
  BY EntriesAreThreads DEF IInv, TypeOK, Threads
<1>1. ASSUME NEW t \in threads, Fork(t) \/ CloneRefused(t)
      PROVE  Promise!Next
  <2>1. PICK shared \in BOOLEAN : CloneProcess(t.pid, shared)
    BY <1>1 DEF Fork, CloneRefused
  <2> QED BY <2>1, BirthStep DEF Promise!Next
<1>2. ASSUME NEW t \in threads, Exec(t)
      PROVE  Promise!Next
  BY <1>2, DisownStep DEF Promise!Next
<1>3. ASSUME NEW t \in threads, ExitGroup(t)
      PROVE  Promise!Next \/ UNCHANGED <<Life, parent>>
  <2>1. CASE exited' = exited
    BY <1>3, <2>1, SameLife DEF ExitGroup
  <2>2. CASE exited' # exited
    BY <1>0, <1>3, <2>2, DeathStep DEF Promise!Next
  <2> QED BY <2>1, <2>2
<1>4. ASSUME NEW t \in threads, CloneThread(t) \/ Exit(t) \/ Tgkill(t)
      PROVE  UNCHANGED <<Life, parent>>
  BY <1>4, SameLife DEF CloneThread, Exit, Tgkill, family
<1>5. ASSUME NEW t \in threads, Wait4(t)
      PROVE  Promise!Next \/ UNCHANGED <<Life, parent>>
  <2>1. UNCHANGED <<processes, parent>>
    BY <1>5 DEF Wait4
  <2>2. \/ \E c \in Ids : c \in exited[t.pid] /\ Retrieve(t.pid, c)
        \/ UNCHANGED <<children, exited>>
    BY <1>5 DEF Wait4, FirstExited
  <2>3. CASE UNCHANGED <<children, exited>>
    BY <2>1, <2>3, SameLife
  <2> QED BY <1>0, <2>1, <2>2, <2>3, ReportStep DEF Promise!Next
<1>6. ASSUME NEW t \in pass, Visit(t)
      PROVE  Promise!Next \/ UNCHANGED <<Life, parent>>
  <2>1. UNCHANGED <<processes, parent>>
    BY <1>6 DEF Visit, VisitAnswered, VisitReleased, VisitInVain, VisitFails, family
  <2>2. CASE VisitAnswered(t)
    <3>1. PICK b \in waiting, c \in Ids :
            b.thread = t /\ Answers(b, c) /\ Retrieve(t.pid, c)
      BY <2>2 DEF VisitAnswered
    <3>2. c \in exited[t.pid]
      BY <3>1 DEF Answers, FirstExited
    <3> QED BY <1>0, <2>1, <3>1, <3>2, ReportStep DEF Promise!Next
  <2>3. CASE ~VisitAnswered(t)
    <3>1. UNCHANGED <<children, exited>>
      BY <1>6, <2>3 DEF Visit, VisitReleased, VisitInVain, VisitFails, family
    <3> QED BY <2>1, <3>1, SameLife
  <2> QED BY <2>2, <2>3
<1>7. CASE UNCHANGED vars
  BY <1>7, SameLife DEF vars, family
<1> QED BY <1>1, <1>2, <1>3, <1>4, <1>5, <1>6, <1>7 DEF Next, Ended, Call

(* fork, exit_group, wait4 and execve keep the promise of ChildLife: a     *)
(* child is reported at most once, after its exit, and never comes back.   *)
THEOREM ImplementsChildLife == Spec => ChildrenLive
<1>1. Init => Promise!Init
  BY DEF Init, Promise!Init, Life
<1>2. IInv /\ [Next]_vars => [Promise!Next]_<<Life, parent>>
  BY LifeStep, BoundsAssumption, ValuesAssumption
<1> QED BY <1>1, <1>2, Invariant, PTL DEF Spec, ChildrenLive, Promise!Spec

-----------------------------------------------------------------------------
(* Who is served first.                                                    *)
(*                                                                         *)
(* ServedInv: the entries are ordered; the exits are recorded in an order  *)
(* that has a first one in every set; and while a pass goes on, it has     *)
(* left behind no waiter for any child that has one to take.               *)
EntryOrder ==
  /\ since \subseteq Entries \X Entries
  /\ \A t, u \in Entries : t = u \/ <<t, u>> \in since \/ <<u, t>> \in since

ExitOrder ==
  /\ before \subseteq Zombies \X Zombies
  /\ IsWellFoundedOn(before, Ids)

PassedOver ==
  ~panicked /\ pass # {} =>
    \A b \in waiting :
      b.pid = AnyChild /\ b.thread \notin pass => exited[b.thread.pid] = {}

ServedInv == EntryOrder /\ ExitOrder /\ PassedOver

(* Where an exit is recorded, one was recorded first.                      *)
LEMMA SomeFirst ==
  ASSUME TypeOK, ExitOrder, NEW p \in Ids, exited[p] # {}
  PROVE  \E c \in Ids : FirstExited(p, c)
<1>1. exited[p] \subseteq Ids
  BY DEF TypeOK
<1>2. PICK c \in exited[p] : \A d \in exited[p] : ~(<<d, c>> \in before)
  BY <1>1, WFMin DEF ExitOrder
<1> QED BY <1>1, <1>2 DEF FirstExited

(* Erasing entries keeps the order of the others.                          *)
LEMMA FewerEntries ==
  ASSUME EntryOrder, waiting' \subseteq waiting, suspended' \subseteq suspended,
         since' = Among(since, Entries')
  PROVE  EntryOrder'
<1>1. Entries' \subseteq Entries
  BY DEF Entries, Waiters
<1> QED BY <1>1 DEF EntryOrder, Among

(* A new entry is behind all the others.                                   *)
LEMMA NewEntry ==
  ASSUME EntryOrder, NEW t, t \notin Entries, Entries' = Entries \cup {t},
         since' = since \cup (Entries \X {t})
  PROVE  EntryOrder'
BY DEF EntryOrder

LEMMA SameEntries ==
  ASSUME EntryOrder, UNCHANGED <<waiting, suspended, since>>
  PROVE  EntryOrder'
BY DEF EntryOrder, Entries, Waiters

LEMMA EntryOrderStep ==
  ASSUME TypeOK, OneEntryEach, EntryOrder, [Next]_vars
  PROVE  EntryOrder'
<1>1. ASSUME NEW t \in threads, CloneThread(t) \/ CloneRefused(t)
      PROVE  EntryOrder'
  BY <1>1, SameEntries DEF CloneThread, CloneRefused
<1>2. ASSUME NEW t \in threads, Fork(t)
      PROVE  EntryOrder'
  <2>1. waiting' = waiting /\ (Suspend(t) \/ UNCHANGED <<suspended, since>>)
    BY <1>2 DEF Fork
  <2>2. t \notin Entries
    BY <1>2 DEF Fork, Calling, Entries
  <2>3. CASE Suspend(t)
    BY <2>1, <2>2, <2>3, NewEntry DEF Suspend, Entries, Waiters
  <2> QED BY <2>1, <2>3, SameEntries
<1>3. ASSUME NEW t \in threads, Exec(t)
      PROVE  EntryOrder'
  BY <1>3, FewerEntries DEF Exec, Entries
<1>4. ASSUME NEW t \in threads, Exit(t) \/ Tgkill(t) \/ ExitGroup(t)
      PROVE  EntryOrder'
  <2>1. PICK dead : Terminate(dead)
    BY <1>4 DEF Exit, Tgkill, ExitGroup
  <2> QED BY <2>1, FewerEntries DEF Terminate, Entries
<1>5. ASSUME NEW t \in threads, Wait4(t)
      PROVE  EntryOrder'
  <2>1. t \notin Entries
    BY <1>5 DEF Wait4, Calling, Entries
  <2>2. suspended' = suspended
    BY <1>5 DEF Wait4
  <2>3. \/ UNCHANGED <<waiting, since>>
        \/ \E pid : /\ waiting' = waiting \cup {[thread |-> t, pid |-> pid]}
                    /\ since' = since \cup ((Waiters(waiting) \cup suspended) \X {t})
    BY <1>5 DEF Wait4
  <2>4. ASSUME NEW pid, waiting' = waiting \cup {[thread |-> t, pid |-> pid]},
               since' = since \cup ((Waiters(waiting) \cup suspended) \X {t})
        PROVE  EntryOrder'
    <3>1. Waiters(waiting') = Waiters(waiting) \cup {t}
      <4>1. [thread |-> t, pid |-> pid].thread = t
        OBVIOUS
      <4>2. \A b : b \in waiting' <=> b \in waiting \/ b = [thread |-> t, pid |-> pid]
        BY <2>4
      <4> QED BY <4>1, <4>2 DEF Waiters
    <3>2. Entries' = Entries \cup {t}
      BY <2>2, <3>1 DEF Entries
    <3> QED BY <2>1, <2>4, <3>2, NewEntry DEF Entries
  <2> QED BY <2>2, <2>3, <2>4, SameEntries
<1>6. ASSUME NEW t \in pass, Visit(t)
      PROVE  EntryOrder'
  <2>1. CASE VisitAnswered(t) \/ VisitReleased(t)
    BY <2>1, FewerEntries DEF VisitAnswered, VisitReleased, Leaves, Entries
  <2>2. CASE VisitInVain(t) \/ VisitFails(t)
    BY <2>2, SameEntries DEF VisitInVain, VisitFails
  <2> QED BY <1>6, <2>1, <2>2 DEF Visit
<1>7. CASE UNCHANGED vars
  BY <1>7, SameEntries DEF vars
<1> QED BY <1>1, <1>2, <1>3, <1>4, <1>5, <1>6, <1>7 DEF Next, Ended, Call

(* Exits that are forgotten leave an order.                                *)
LEMMA FewerExits ==
  ASSUME ExitOrder, NEW gone, Zombies \ gone \subseteq Zombies',
         before' = Among(before, Zombies \ gone)
  PROVE  ExitOrder'
BY DEF ExitOrder, Among, IsWellFoundedOn

(* A new exit is behind all the others: what leads down from it is an      *)
(* order of old ones.                                                      *)
LEMMA NewExit ==
  ASSUME ExitOrder, NEW p, p \notin Zombies, Zombies' = Zombies \cup {p},
         before' = before \cup (Zombies \X {p})
  PROVE  ExitOrder'
<1>1. before' \subseteq Zombies' \X Zombies'
  BY DEF ExitOrder
<1>2. ASSUME NEW f \in [Nat -> Ids], \A n \in Nat : <<f[n + 1], f[n]>> \in before'
      PROVE  FALSE
  <2> DEFINE g == [n \in Nat |-> f[n + 1]]
  <2>1. \A n \in Nat : f[n + 1] \in Zombies
    BY <1>2 DEF ExitOrder
  <2>2. \A n \in Nat : <<f[(n + 1) + 1], f[n + 1]>> \in before
    BY <1>2, <2>1
  <2>3. g \in [Nat -> Ids]
    OBVIOUS
  <2>4. \A n \in Nat : <<g[n + 1], g[n]>> \in before
    BY <2>2
  <2> QED BY <2>3, <2>4 DEF ExitOrder, IsWellFoundedOn
<1> QED BY <1>1, <1>2 DEF ExitOrder, IsWellFoundedOn

LEMMA ExitOrderStep ==
  ASSUME TypeOK, ZombiesAreDead, ExitOrder, [Next]_vars
  PROVE  ExitOrder'
<1>0. \A t \in threads \cup pass : t \in Threads /\ t.pid \in Ids
  BY EntriesAreThreads DEF TypeOK, Threads
<1>1. ASSUME UNCHANGED <<exited, before>>
      PROVE  ExitOrder'
  BY <1>1 DEF ExitOrder, Zombies
<1>2. ASSUME NEW p \in Ids, NEW c, Retrieve(p, c)
      PROVE  ExitOrder'
  <2>1. \A q \in Ids : exited[q] \ {c} \subseteq exited'[q]
    BY <1>2 DEF Retrieve, TypeOK
  <2>2. Zombies \ {c} \subseteq Zombies'
    BY <2>1 DEF Zombies
  <2> QED BY <1>2, <2>2, FewerExits DEF Retrieve
<1>3. ASSUME NEW t \in threads, CloneThread(t) \/ Fork(t) \/ CloneRefused(t) \/ Exit(t) \/ Tgkill(t)
      PROVE  ExitOrder'
  BY <1>1, <1>3 DEF CloneThread, Fork, CloneRefused, CloneProcess, Exit, Tgkill, family
<1>4. ASSUME NEW t \in threads, Exec(t)
      PROVE  ExitOrder'
  <2>1. ForgetChildren(t.pid)
    BY <1>4 DEF Exec
  <2>2. \A q \in Ids : exited[q] \ exited[t.pid] \subseteq exited'[q]
    BY <1>0, <2>1 DEF ForgetChildren, TypeOK
  <2>3. Zombies \ exited[t.pid] \subseteq Zombies'
    BY <2>2 DEF Zombies
  <2> QED BY <2>1, <2>3, FewerExits DEF ForgetChildren
<1>5. ASSUME NEW t \in threads, ExitGroup(t)
      PROVE  ExitOrder'
  <2>1. t.pid \in Ids /\ t.pid \notin Zombies
    BY <1>0 DEF ZombiesAreDead, Zombies
  <2>2. NotifyExit(t.pid)
    BY <1>5 DEF ExitGroup
  <2>3. CASE UNCHANGED <<exited, before>>
    BY <1>1, <2>3
  <2>4. CASE /\ parent[t.pid] # NoParent
             /\ exited' = [exited EXCEPT ![parent[t.pid]] = @ \cup {t.pid}]
             /\ before' = before \cup (Zombies \X {t.pid})
    <3>1. parent[t.pid] \in Ids
      BY <2>1, <2>4 DEF TypeOK
    <3>2. \A q \in Ids : exited'[q] = IF q = parent[t.pid] THEN exited[q] \cup {t.pid}
                                                          ELSE exited[q]
      BY <2>4, <3>1 DEF TypeOK
    <3>3. \A c : c \in Zombies' <=> c \in Zombies \/ c = t.pid
      <4>1. \A c : c \in Zombies <=> \E q \in Ids : c \in exited[q]
        BY DEF Zombies
      <4>2. \A c : c \in Zombies' <=> \E q \in Ids : c \in exited'[q]
        BY DEF Zombies
      <4>3. ASSUME NEW c, \E q \in Ids : c \in exited[q]
            PROVE  \E q \in Ids : c \in exited'[q]
        BY <3>2, <4>3
      <4>4. t.pid \in exited'[parent[t.pid]]
        BY <3>1, <3>2
      <4>5. ASSUME NEW c, \E q \in Ids : c \in exited'[q]
            PROVE  c = t.pid \/ \E q \in Ids : c \in exited[q]
        BY <3>2, <4>5
      <4> QED BY <3>1, <4>1, <4>2, <4>3, <4>4, <4>5
    <3>4. Zombies' = Zombies \cup {t.pid}
      BY <3>3
    <3> QED BY <2>1, <2>4, <3>4, NewExit
  <2> QED BY <2>2, <2>3, <2>4 DEF NotifyExit
<1>6. ASSUME NEW t \in threads, Wait4(t)
      PROVE  ExitOrder'
  <2>1. UNCHANGED <<exited, before>> \/ \E c \in Ids : Retrieve(t.pid, c)
    BY <1>6 DEF Wait4
  <2> QED BY <1>0, <1>1, <1>2, <2>1
<1>7. ASSUME NEW t \in pass, Visit(t)
      PROVE  ExitOrder'
  <2>1. UNCHANGED <<exited, before>> \/ \E c \in Ids : Retrieve(t.pid, c)
    BY <1>7 DEF Visit, VisitAnswered, VisitReleased, VisitInVain, VisitFails, family
  <2> QED BY <1>0, <1>1, <1>2, <2>1
<1>8. CASE UNCHANGED vars
  BY <1>1, <1>8 DEF vars, family
<1> QED BY <1>3, <1>4, <1>5, <1>6, <1>7, <1>8 DEF Next, Ended, Call

(* A visit that finds nothing leaves nothing behind for that waiter, and   *)
(* nobody exits during a pass.                                             *)
LEMMA PassedOverStep ==
  ASSUME TypeOK, OneEntryEach, ExitOrder, PassedOver, [Next]_vars
  PROVE  PassedOver'
<1>0. \A b \in waiting : b.thread.pid \in Ids
  BY DEF TypeOK, Waits, Threads
<1>1. ASSUME ThenPass
      PROVE  PassedOver'
  BY <1>1 DEF ThenPass, PassedOver, Waiters
<1>2. ASSUME NEW t \in threads, Call(t)
      PROVE  PassedOver'
  BY <1>1, <1>2 DEF Call, CloneThread, Fork, CloneRefused, Exec, Exit, Tgkill, ExitGroup, Wait4
<1>3. ASSUME NEW t \in pass, VisitAnswered(t) \/ VisitReleased(t), ~ThenPass
      PROVE  PassedOver'
  <2>1. Advance(t, TRUE) /\ Leaves(t) /\ UNCHANGED panicked
    BY <1>3 DEF VisitAnswered, VisitReleased
  <2>2. pass' = pass \ {t} /\ waiting' = {b \in waiting : b.thread # t}
    BY <1>3, <2>1 DEF Advance, Leaves
  <2>3. \A p \in Ids : exited'[p] \subseteq exited[p]
    <3>1. exited' = exited \/ \E c \in Ids : Retrieve(t.pid, c)
      BY <1>3 DEF VisitAnswered, VisitReleased, family
    <3>2. ASSUME NEW c \in Ids, Retrieve(t.pid, c)
          PROVE  \A p \in Ids : exited'[p] \subseteq exited[p]
      BY <3>2 DEF Retrieve, TypeOK
    <3> QED BY <3>1, <3>2
  <2>4. ASSUME ~panicked', pass' # {}, NEW b \in waiting', b.pid = AnyChild,
               b.thread \notin pass'
        PROVE  exited'[b.thread.pid] = {}
    <3>1. b \in waiting /\ b.thread \notin pass /\ pass # {} /\ ~panicked
      BY <2>1, <2>2, <2>4
    <3>2. exited[b.thread.pid] = {}
      BY <2>4, <3>1 DEF PassedOver
    <3> QED BY <1>0, <2>3, <3>1, <3>2
  <2> QED BY <2>4 DEF PassedOver
<1>4. ASSUME NEW t \in pass, VisitInVain(t), ~ThenPass
      PROVE  PassedOver'
  <2>1. Advance(t, FALSE) /\ UNCHANGED <<exited, waiting, panicked>>
    BY <1>4 DEF VisitInVain, family
  <2>2. pass' = pass \ {t}
    BY <1>4, <2>1 DEF Advance
  <2>3. ASSUME NEW b \in waiting, b.pid = AnyChild, b.thread = t
        PROVE  exited[b.thread.pid] = {}
    <3>1. t \notin suspended
      BY <2>3 DEF OneEntryEach, Waiters
    <3>2. \A c \in Ids : ~Answers(b, c)
      BY <1>4, <2>3, <3>1 DEF VisitInVain, OneEntryEach
    <3>3. \A c \in Ids : ~FirstExited(b.thread.pid, c)
      BY <2>3, <3>2 DEF Answers
    <3> QED BY <1>0, <3>3, SomeFirst
  <2> QED BY <2>1, <2>2, <2>3 DEF PassedOver
<1>5. ASSUME NEW t \in pass, VisitFails(t)
      PROVE  PassedOver'
  BY <1>5 DEF VisitFails, Panic, PassedOver
<1>6. CASE UNCHANGED vars
  BY <1>6 DEF vars, passVars, family, PassedOver
<1> QED BY <1>1, <1>2, <1>3, <1>4, <1>5, <1>6 DEF Next, Ended, Visit

(* The entries and the exits keep their order, and no waiter for any child *)
(* is passed over.                                                         *)
THEOREM ServedInOrder == Spec => []ServedInv
<1>1. Init => ServedInv
  <2>1. ASSUME Init
        PROVE  before = {} /\ Entries = {} /\ since = {} /\ pass = {}
    BY <2>1 DEF Init, Entries, Waiters
  <2>2. IsWellFoundedOn({}, Ids)
    BY EmptyIsWellFounded
  <2> QED BY <2>1, <2>2 DEF ServedInv, EntryOrder, ExitOrder, PassedOver
<1>2. IInv /\ ServedInv /\ [Next]_vars => ServedInv'
  BY EntryOrderStep, ExitOrderStep, PassedOverStep DEF IInv, ServedInv
<1> QED BY <1>1, <1>2, Invariant, PTL DEF Spec

(* The one who is served is the first that was still to be visited.        *)
LEMMA ServedFirst ==
  ASSUME IInv, ServedInv, Next, NEW b \in waiting, NEW d \in waiting,
         b \notin waiting', d \in waiting', threads' = threads,
         b.thread.pid = d.thread.pid, b.pid = AnyChild, d.pid = AnyChild
  PROVE  <<b.thread, d.thread>> \in since
<1> USE DEF IInv, ServedInv
<1>1. b.thread \in threads /\ d.thread \in threads /\ b.thread \notin suspended
      /\ d.thread \notin suspended
  BY DEF OneEntryEach, Waiters
<1>2. ASSUME NEW t \in threads, Call(t)
      PROVE  FALSE
  <2>1. CASE Exit(t) \/ Tgkill(t) \/ ExitGroup(t)
    <3>1. PICK dead : Terminate(dead)
      BY <2>1 DEF Exit, Tgkill, ExitGroup
    <3> QED BY <1>1, <3>1 DEF Terminate
  <2>2. CASE Exec(t)
    <3>1. /\ waiting' = {e \in waiting : e.thread.pid # t.pid}
          /\ threads' = (threads \ ThreadsOf(t.pid)) \cup {Main(t.pid, execs[t.pid] + 1)}
      BY <2>2 DEF Exec
    <3>2. t.pid \in Ids /\ execs[t.pid] \in Int /\ t.image <= execs[t.pid] /\ t.image \in Int
      BY DEF TypeOK, Threads, ImagesKnown
    <3>3. t # Main(t.pid, execs[t.pid] + 1)
      BY <3>2 DEF Main
    <3> QED BY <3>1, <3>3 DEF ThreadsOf
  <2>3. CASE CloneThread(t) \/ Fork(t) \/ CloneRefused(t) \/ Wait4(t)
    BY <2>3 DEF CloneThread, Fork, CloneRefused, Wait4
  <2> QED BY <1>2, <2>1, <2>2, <2>3 DEF Call
<1>3. ~Ended
  BY DEF Ended, vars
<1>4. PICK t \in pass : Visit(t)
  BY <1>2, <1>3 DEF Next
<1>5. b.thread = t /\ d.thread # t
  BY <1>4 DEF Visit, VisitAnswered, VisitReleased, VisitInVain, VisitFails, Leaves
<1>6. VisitAnswered(t)
  BY <1>1, <1>4, <1>5 DEF Visit, VisitReleased, VisitInVain, VisitFails
<1>7. PICK c \in Ids : Answers(b, c)
  BY <1>5, <1>6 DEF VisitAnswered, OneEntryEach
<1>8. c \in exited[d.thread.pid]
  BY <1>7 DEF Answers, FirstExited, AnyChild
<1>9. ~panicked /\ pass # {} /\ \A u \in pass : ~Earlier(u, t)
  BY <1>6 DEF VisitAnswered, Visiting
<1>10. d.thread \in pass
  BY <1>8, <1>9 DEF PassedOver
<1>11. <<d.thread, t>> \notin since
  BY <1>1, <1>9, <1>10 DEF Earlier
<1>12. t \in Entries /\ d.thread \in Entries
  BY <1>5 DEF Entries, Waiters
<1> QED BY <1>5, <1>11, <1>12 DEF EntryOrder

(* No waiter for any child is served in the place of one of its process    *)
(* that has waited longer for any child.                                   *)
THEOREM OldestFirst == Spec => OldestServedFirst
<1>1. ASSUME IInv, ServedInv, [Next]_vars
      PROVE  [\A b, d \in waiting :
                /\ b \notin waiting' /\ d \in waiting' /\ threads' = threads
                /\ b.thread.pid = d.thread.pid /\ b.pid = AnyChild /\ d.pid = AnyChild
                => <<b.thread, d.thread>> \in since]_vars
  <2>1. CASE UNCHANGED vars
    BY <2>1
  <2>2. CASE Next
    BY <1>1, <2>2, ServedFirst
  <2> QED BY <1>1, <2>1, <2>2
<1> QED BY <1>1, Invariant, ServedInOrder, PTL DEF Spec, OldestServedFirst
=============================================================================
