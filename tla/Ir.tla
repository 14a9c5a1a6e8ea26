--------------------------------- MODULE Ir ---------------------------------
(* The intermediate representation of compiled blocks (ir.h, ir.cpp): its   *)
(* operands and instructions, the questions the optimizer asks about them,  *)
(* and what the host does when it executes them.                            *)
EXTENDS Machine, FiniteSets, SequencesExt

(* Operands: a register by name, memory by base, index, scale and           *)
(* displacement, an immediate or a label by number; z is the size in bytes. *)
Operand(k, z, r, i, s, n) == [k |-> k, z |-> z, r |-> r, i |-> i, s |-> s, n |-> n]
Void == Operand("void", 0, "zero", "zero", 0, 0)
Imm(z, n) == Operand("imm", z, "zero", "zero", 0, n)
Reg(z, r) == Operand("reg", z, r, "zero", 0, 0)
Indexed(z, base, index, scale, disp) == Operand("mem", z, base, index, scale, disp)
Memory(z, base, disp) == Indexed(z, base, "zero", 0, disp)
Mmx(r) == Operand("mmx", 8, r, "zero", 0, 0)
Xmm(r) == Operand("xmm", 16, r, "zero", 0, 0)
Label(n) == Operand("label", 0, "zero", "zero", 0, n)

Instruction(op, out, in1, in2, in3, cond, impacted) ==
  [op |-> op, out |-> out, in1 |-> in1, in2 |-> in2, in3 |-> in3, cond |-> cond,
   impacted |-> impacted]
Emit0(op) == Instruction(op, Void, Void, Void, Void, "none", {})
Emit1(op, out) == Instruction(op, out, Void, Void, Void, "none", {})
Emit(op, out, in1) == Instruction(op, out, in1, Void, Void, "none", {})
Emit2(op, out, in1, in2) == Instruction(op, out, in1, in2, Void, "none", {})
Emit3(op, out, in1, in2, in3) == Instruction(op, out, in1, in2, in3, "none", {})
Impacting(ins, regs) == [ins EXCEPT !.impacted = @ \cup regs]
OnCond(ins, cond) == [ins EXCEPT !.cond = cond]

(* IrGenerator: most operations read their destination, comparisons have    *)
(* none, an exchange names only its first operand as changed.               *)
Mov(dst, src)        == Emit("mov", dst, src)
Binary(op, dst, src) == Emit2(op, dst, dst, src)
Unary(op, dst)       == Emit(op, dst, dst)
Compare(op, lhs, rhs) == Emit2(op, Void, lhs, rhs)
Xchg(dst, src)       == Emit2("xchg", dst, dst, src)
Lea(dst, src)        == Emit("lea", dst, src)
StackPointer         == Memory(8, "rsp", 0)
Push(src)            == Impacting(Emit("push", StackPointer, src), {"rsp"})
Pop(dst)             == Impacting(Emit("pop", dst, StackPointer), {"rsp"})
Wide(op, src)        ==
  Impacting(Emit2(op, src, src, Reg(src.z, "rax")), {"rax", "rdx"})
Set(cond, dst)       == OnCond(Unary("set", dst), cond)
Cmov(cond, dst, src) == OnCond(Impacting(Emit("cmov", dst, src), {dst.r}), cond)

-----------------------------------------------------------------------------
(* What the passes ask (ir.cpp). *)
FlagModifiers ==
  {"add", "adc", "sub", "sbb", "shl", "shr", "sar", "rol", "ror", "test", "and", "or",
   "xor", "not", "neg", "inc", "dec", "cmpxchg", "lockcmpxchg", "lockxadd", "pushf",
   "popf", "bsf", "bsr", "tzcnt", "bt", "btr", "bts", "comiss", "comisd", "ucomisd"}
CanModifyFlags(ins) == ins.op \in FlagModifiers

IsGpr(o) == o.k = "reg"
IsMemory(o) == o.k = "mem"
IsRegister(o) == o.k \in {"reg", "mmx", "xmm"}

(* In the jit, addresses of different bases do not clash. *)
AddressesMayAlias(m, o) ==
  /\ m.r = o.r
  /\ \/ m.z # o.z
     \/ m.i # "zero" \/ o.i # "zero"
     \/ m.n % 4 # 0 \/ o.n % 4 # 0
     \/ m.n = o.n
MayAlias(a, b) ==
  \/ IsGpr(a) /\ IsGpr(b) /\ a.r = b.r
  \/ a.k = b.k /\ a.k \in {"mmx", "xmm"} /\ a.r = b.r
  \/ IsMemory(a) /\ a.z # 16 /\ IsMemory(b) /\ AddressesMayAlias(a, b)
  \/ b.k = "label"
WritesTo(ins, o) == MayAlias(ins.out, o) \/ (IsGpr(o) /\ o.r \in ins.impacted)
WritesToGpr(ins, r) == WritesTo(ins, Reg(8, r))

Impacts(a, b) ==
  /\ a.k # "void" /\ b.k # "void"
  /\ IsMemory(a) /\ a.z = 16 => b.k # "xmm"
  /\ a.k = "xmm" => b.k = "xmm" /\ a.r = b.r

(* Two moves between a register and memory, of words or of vectors. *)
MoveReg(ins) == IF IsMemory(ins.out) THEN ins.in1 ELSE ins.out
MoveMem(ins) == IF IsMemory(ins.out) THEN ins.out ELSE ins.in1
IsMove(ins, op, kind, z) ==
  /\ ins.op = op
  /\ {ins.out.k, ins.in1.k} = {kind, "mem"} /\ ins.out.z = z /\ ins.in1.z = z
Uses(m, reg) == reg \in {m.r, m.i}
CanMovsCommute(a, b) ==
  /\ IsMove(a, "mov", "reg", 8) /\ IsMove(b, "mov", "reg", 8)
  /\ LET regA == MoveReg(a)  memA == MoveMem(a)
         regB == MoveReg(b)  memB == MoveMem(b)
     IN /\ regA # regB /\ memA # memB
        /\ ~Uses(memA, regB.r) /\ ~Uses(memB, regA.r)
        /\ \A m \in {memA, memB} : (m.i # "zero" => m.s >= 8) /\ m.n % 8 = 0
        /\ memA.r = memB.r => memA.i = "zero" /\ memB.i = "zero"
CanMovasCommute(a, b) ==
  /\ IsMove(a, "mova", "xmm", 16) /\ IsMove(b, "mova", "xmm", 16)
  /\ MoveReg(a) # MoveReg(b) /\ MoveMem(a) # MoveMem(b)
  /\ \A m \in {MoveMem(a), MoveMem(b)} : m.i = "zero" /\ m.n % 16 = 0
Ins(ins) == {ins.in1, ins.in2, ins.in3}
CanCommute(a, b) ==
  \/ CanMovsCommute(a, b)
  \/ CanMovasCommute(a, b)
  \/ /\ ~(CanModifyFlags(a) /\ CanModifyFlags(b))
     /\ \A o \in Ins(b) : ~Impacts(a.out, o)
     /\ \A o \in Ins(a) : ~Impacts(b.out, o)

-----------------------------------------------------------------------------
(* A list of instructions with its labels and the positions that are        *)
(* patched later; positions count from 0 and None stands for none.          *)
None == -1
EmptyIr == [instructions |-> <<>>, labels |-> <<>>, landing |-> None, next |-> None,
            other |-> None, push |-> None, pop |-> None]
Places == {"landing", "next", "other", "push", "pop"}

(* IR::add.  Labels keep their index, which is that of the list of labels   *)
(* of the part they come from: only one part of a block has any.            *)
AddIr(ir, other) ==
  LET size == Len(ir.instructions)
  IN [f \in DOMAIN ir |->
        IF f = "instructions" THEN ir.instructions \o other.instructions
        ELSE IF f = "labels"
        THEN ir.labels \o [i \in DOMAIN other.labels |-> size + other.labels[i]]
        ELSE IF other[f] # None THEN size + other[f] ELSE ir[f]]
(* The verifies of IR::add: at most one of each place. *)
AddVerified(ir, other) == \A f \in Places : ir[f] = None \/ other[f] = None

RemoveInstructions(ir, positions) ==
  LET moved(p) == p - Cardinality({q \in positions : q < p})
  IN [f \in DOMAIN ir |->
        IF f = "instructions"
        THEN LET stays(i) == i - 1 \notin positions
                 all == ir.instructions
                 kept == SelectSeq([i \in DOMAIN all |-> i], stays)
             IN [i \in DOMAIN kept |-> all[kept[i]]]
        ELSE IF f = "labels" THEN [i \in DOMAIN ir.labels |-> moved(ir.labels[i])]
        ELSE IF ir[f] = None THEN None ELSE moved(ir[f])]
=============================================================================
