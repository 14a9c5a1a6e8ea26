------------------------------ MODULE Optimizer -----------------------------
(* The passes over the intermediate instructions of a block's body          *)
(* (optimizer.cpp): each names the positions it removes, and they are run   *)
(* in their order until none removes anything.                              *)
EXTENDS Ir

(* What is alive before an instruction: registers by kind and name, and     *)
(* the addresses of words and vectors that are read again.                  *)
Register(o) == <<o.k, o.r>>
Gprs(names) == {<<"reg", r>> : r \in names}
AlwaysLiveGprs == Gprs({"rsp", "rax", "rdx"})
Tracked(o) == IsMemory(o) /\ o.z \in {8, 16}
AllAddresses(code) == {code[i].out : i \in {j \in DOMAIN code : Tracked(code[j].out)}}
Involving(addresses, r) == {m \in addresses : r \in {m.r, m.i}}

(* markAllAddressesClashingWithEncodingAsAlive: another base cannot clash,  *)
(* an index always may, and displacements clash if the bytes intersect.     *)
Clashing(addresses, o) ==
  {m \in addresses :
     /\ m.r = o.r
     /\ \/ m.i # "zero" \/ o.i # "zero"
        \/ m.n < o.n + o.z /\ o.n < m.n + m.z}
SameAddress_Forgotten(addresses, o) == {}  \* Faulty: only clashing addresses are marked
SameAddress(addresses, o) == {m \in addresses : [m EXCEPT !.z = o.z] = o}

VisitOut(live, addresses, o) ==
  CASE IsGpr(o) -> [regs |-> live.regs \ {Register(o)},
                    addresses |-> live.addresses \cup Involving(addresses, o.r)]
    [] o.k \in {"mmx", "xmm"} -> [live EXCEPT !.regs = @ \ {Register(o)}]
    [] IsMemory(o) -> [regs |-> live.regs \cup Gprs({o.r, o.i}),
                       addresses |-> live.addresses \ {o}]
    [] OTHER -> live
(* A word that is read keeps alive its own address only, a read of any      *)
(* other size whatever it clashes with.                                     *)
VisitIn(live, addresses, o) ==
  CASE IsGpr(o) -> [regs |-> live.regs \cup {Register(o)},
                    addresses |-> live.addresses \cup Involving(addresses, o.r)]
    [] o.k \in {"mmx", "xmm"} -> [live EXCEPT !.regs = @ \cup {Register(o)}]
    [] IsMemory(o) ->
         [regs |-> live.regs \cup Gprs({o.r, o.i}),
          addresses |-> live.addresses \cup SameAddress(addresses, o)
                          \cup IF o.z = 8 THEN {} ELSE Clashing(addresses, o)]
    [] OTHER -> live

(* computeLiveRegistersAndAddresses: what is alive at position i, counted   *)
(* from 1; every tracked address is alive at the end.                       *)
LiveBefore(code) ==
  LET addresses == AllAddresses(code)
      end == [regs |-> AlwaysLiveGprs, addresses |-> addresses]
      visit(live, ins) ==
        LET out  == VisitOut(live, addresses, ins.out)
            in1  == VisitIn(out, addresses, ins.in1)
            in2  == VisitIn(in1, addresses, ins.in2)
            in3  == VisitIn(in2, addresses, ins.in3)
        IN [in3 EXCEPT !.regs = @ \cup Gprs(ins.impacted) \cup AlwaysLiveGprs]
      before[i \in 1..(Len(code) + 1)] ==
        IF i = Len(code) + 1 THEN end ELSE visit(before[i + 1], code[i])
  IN before

-----------------------------------------------------------------------------
(* The passes: the positions, from 1, of the instructions they remove. *)
Removable(ins, live) ==
  /\ ~CanModifyFlags(ins)
  /\ Gprs(ins.impacted) \cap live.regs = {}
  /\ \/ /\ ins.out.k \in {"mmx", "xmm"} \/ (IsGpr(ins.out) /\ ins.out.z = 8)
        /\ Register(ins.out) \notin live.regs
     \/ Tracked(ins.out) /\ ins.out \notin live.addresses
DeadCodeElimination(code) ==
  LET live == LiveBefore(code)
  IN {i \in DOMAIN code : Removable(code[i], live[i + 1])}

Opposite(a, b) == a.in1 = b.out /\ a.out = b.in1
ImmediateReadBackElimination(code) ==
  {i \in DOMAIN code \ {1} : /\ code[i - 1].op = "mov" /\ code[i].op = "mov"
                             /\ Opposite(code[i - 1], code[i])}

(* From each position that may start, the first instruction found and       *)
(* removed; the search goes on two positions after it.                      *)
Removed(code, starts(_), found(_, _)) ==
  LET n == Len(code)
      from[i \in 1..(n + 2)] ==
        IF i > n THEN {}
        ELSE LET matches == IF starts(i) THEN {j \in (i + 1)..n : found(i, j)} ELSE {}
             IN IF matches = {} THEN from[i + 1]
                ELSE LET j == CHOOSE j \in matches : \A k \in matches : j <= k
                     IN {j} \cup from[j + 2]
  IN from[1]

IsMov(ins) == ins.op \in {"mov", "mova"}
DelayedReadBackElimination(code) ==
  LET starts(i) == IsMov(code[i])
      ends(i, j) == IsMov(code[j]) /\ Opposite(code[i], code[j])
      found(i, j) == /\ ends(i, j)
                     /\ \A k \in (i + 1)..(j - 1) : CanCommute(code[i], code[k])
  IN Removed(code, starts, found)

(* Only loads into a register, up to the first instruction that is not a    *)
(* move or that may write what the load reads or wrote.                     *)
LeavesLoad(load, ins) ==
  /\ ins.op = "mov"
  /\ ~WritesTo(ins, load.out) /\ ~WritesTo(ins, load.in1)
  /\ ~WritesToGpr(ins, load.in1.r) /\ ~WritesToGpr(ins, load.in1.i)
DuplicateInstructionElimination(code) ==
  LET starts(i) == code[i].op = "mov" /\ IsRegister(code[i].out) /\ IsMemory(code[i].in1)
      found(i, j) == /\ code[j].op = "mov" /\ code[j].out = code[i].out
                     /\ code[j].in1 = code[i].in1
                     /\ \A k \in (i + 1)..(j - 1) : LeavesLoad(code[i], code[k])
  IN Removed(code, starts, found)

-----------------------------------------------------------------------------
(* Optimizer::optimize on a list without labels or places, as a body is.    *)
Without(code, positions) ==
  LET ir == [EmptyIr EXCEPT !.instructions = code]
  IN RemoveInstructions(ir, {i - 1 : i \in positions}).instructions
Passes(code) ==
  LET one   == Without(code, DeadCodeElimination(code))
      two   == Without(one, ImmediateReadBackElimination(one))
      three == Without(two, DelayedReadBackElimination(two))
  IN Without(three, DuplicateInstructionElimination(three))
RECURSIVE Optimize(_)
Optimize(code) ==
  LET shorter == Passes(code)
  IN IF Len(shorter) = Len(code) THEN code ELSE Optimize(shorter)
=============================================================================
