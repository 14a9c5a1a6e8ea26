------------------------------ MODULE Compiler ------------------------------
(* The translation of guest instructions to intermediate ones               *)
(* (compiler.cpp).  The guest's registers and memory are reached through    *)
(* base registers of the host; values pass through GPR0 and GPR1, addresses *)
(* through MEM_ADDR.  An instruction is refused where the code returns      *)
(* false: its block is then never compiled.                                 *)
EXTENDS Ir

(* A guest instruction: operands as in Ir, where kind "high" is one of the  *)
(* registers ah, ch, dh and bh, "fs" is memory relative to the FS segment,  *)
(* and imm is the third operand where there is one.                         *)
Guest(op, dst, src, imm, cond) ==
  [op |-> op, dst |-> dst, src |-> src, imm |-> imm, cond |-> cond]
Refuse == <<Emit0("refuse")>>
Compiles(code) == \A i \in DOMAIN code : code[i].op # "refuse"

GPR0 == "r8"
GPR1 == "r9"
MEM_ADDR == "r10"
REG_BASE == "rsi"
MMX_BASE == "r11"
XMM_BASE == "rdx"
MEM_BASE == "rcx"
ARGUMENTS == "rdi"
get(r) == Reg(8, r)

registerOffset(o) == (8 * Gpr[o.r]) + IF o.k = "high" THEN 1 ELSE 0
GuestReg(z, o) == Memory(z, REG_BASE, registerOffset(o))
IsGuestReg(o) == o.k \in {"reg", "high"}

readReg(dst, o) == <<Mov(Reg(o.z, dst), GuestReg(o.z, o))>>
(* A 32-bit register is written whole: the value was zero extended. *)
writeReg(o, src) ==
  LET z == IF o.z = 4 THEN 8 ELSE o.z
  IN <<Mov(GuestReg(z, o), Reg(z, src))>>
readReg64(dst, r) == readReg(dst, get(r))
writeReg64(r, src) == writeReg(get(r), src)
At(z, addr) == Indexed(z, MEM_BASE, MEM_ADDR, 1, addr.disp)
readMem(z, dst, addr) == <<Mov(Reg(z, dst), At(z, addr))>>
writeMem(z, addr, src) == <<Mov(At(z, addr), Reg(z, src))>>

MmxAt(r) == Memory(8, MMX_BASE, 8 * Vec[r])
readRegMM(dst, r) == <<Mov(Mmx(dst), MmxAt(r))>>
writeRegMM(r, src) == <<Mov(MmxAt(r), Mmx(src))>>
XmmAt(r) == Memory(16, XMM_BASE, 16 * Vec[r])
readReg128(r) == <<Emit("mova", Xmm(r), XmmAt(r))>>
writeReg128(r) == <<Emit("mova", XmmAt(r), Xmm(r))>>
readMem128(r, addr) == <<Emit("movu", Xmm(r), At(16, addr))>>
writeMem128(addr, r) == <<Emit("movu", At(16, addr), Xmm(r))>>

loadImm64(dst, n) == <<Mov(get(dst), Imm(8, n % 65536))>>
(* RIP, or any register, set to an immediate: directly if its 32 low bits   *)
(* say it all.                                                              *)
writeReg64Imm(r, n) ==
  IF n = SignExtend(n % 256, 4, 8)
  THEN <<Mov(GuestReg(8, get(r)), Imm(4, n % 256))>>
  ELSE loadImm64(GPR0, n) \o writeReg64(r, GPR0)

(* Compiler::getAddress: the guest address of an operand, left in MEM_ADDR  *)
(* plus a displacement.                                                     *)
FS_BASE == 48
readFsBase(dst) == <<Mov(get(dst), Memory(8, ARGUMENTS, FS_BASE))>>
addRegister(tmp, reg, scale, disp) ==
  readReg64(tmp, reg) \o <<Lea(get(MEM_ADDR), Indexed(8, MEM_ADDR, tmp, scale, disp))>>
addIndex(tmp, m, disp) == IF m.i = "zero" THEN <<>> ELSE addRegister(tmp, m.i, m.s, disp)
getAddress(tmp, m) ==
  LET ofFs == m.k = "fs"
      byReg == ofFs /\ m.r # "zero"
      direct == ~ofFs /\ m.i = "zero"
  IN [code |-> (IF ofFs THEN readFsBase(MEM_ADDR) ELSE readReg64(MEM_ADDR, m.r))
                 \o addIndex(tmp, m, IF ofFs THEN 0 ELSE m.n)
                 \o IF byReg THEN addRegister(tmp, m.r, 1, m.n) ELSE <<>>,
      disp |-> IF direct \/ (ofFs /\ ~byReg) THEN m.n ELSE 0]
ByRip(m) == m.i = "rip"
IsFs(m) == m.k = "fs"

-----------------------------------------------------------------------------
(* The shapes most instructions share: func makes the code for the host     *)
(* operands, back says whether the destination is written.                  *)
WriteBack(back, code) == IF back THEN code ELSE <<>>
ThroughMem(to, z, code, back) ==
  to.code \o readMem(z, GPR0, to) \o code \o WriteBack(back, writeMem(z, to, GPR0))
forRMImm(dst, imm, func(_, _), back) ==
  IF IsGuestReg(dst)
  THEN readReg(GPR0, dst) \o func(Reg(dst.z, GPR0), imm) \o WriteBack(back, writeReg(dst, GPR0))
  ELSE IF ByRip(dst) THEN Refuse
  ELSE ThroughMem(getAddress(GPR0, dst), dst.z, func(Reg(dst.z, GPR0), imm), back)
(* With memory on neither side, on the left, or on the right. *)
ReadOperands(dst, src, from) ==
  IF IsGuestReg(src) THEN readReg(GPR0, dst) \o readReg(GPR1, src)
  ELSE from.code \o readMem(src.z, GPR1, from) \o readReg(GPR0, dst)
forRMRM(dst, src, func(_, _), back) ==
  CASE IsGuestReg(dst) /\ (IsGuestReg(src) \/ ~ByRip(src)) ->
         ReadOperands(dst, src, getAddress(GPR0, src))
           \o func(Reg(dst.z, GPR0), Reg(src.z, GPR1)) \o WriteBack(back, writeReg(dst, GPR0))
    [] ~IsGuestReg(dst) /\ IsGuestReg(src) /\ ~ByRip(dst) ->
         ThroughMem(getAddress(GPR0, dst), dst.z,
                    readReg(GPR1, src) \o func(Reg(dst.z, GPR0), Reg(src.z, GPR1)), back)
    [] OTHER -> Refuse
forRM(dst, src, func(_, _), back) ==
  IF src.k = "imm" THEN forRMImm(dst, src, func, back) ELSE forRMRM(dst, src, func, back)
(* The register or memory operand of an instruction with one operand.       *)
forOne(dst, func(_)) ==
  IF ~IsGuestReg(dst) /\ IsFs(dst) THEN Refuse
  ELSE LET code(d, s) == func(d) IN forRMImm(dst, Void, code, TRUE)

(* Code between a push and a pop of a host register that it borrows.        *)
Borrowing_SameOrder(regs, code) ==  \* Faulty: popped in the order they were pushed
  [i \in DOMAIN regs |-> Push(get(regs[i]))] \o code \o [i \in DOMAIN regs |-> Pop(get(regs[i]))]
Borrowing(regs, code) ==
  [i \in DOMAIN regs |-> Push(get(regs[i]))] \o code
    \o [i \in DOMAIN regs |-> Pop(get(regs[Len(regs) + 1 - i]))]
Borrow(r) == readReg64(GPR0, r) \o <<Mov(get(r), get(GPR0))>>
GiveBack(r, tmp) == <<Mov(get(tmp), get(r))>> \o writeReg64(r, tmp)
=============================================================================
