----------------------------- MODULE GeneralCode ----------------------------
(* The translation of the general instructions (compiler.cpp, the           *)
(* tryCompile functions on general registers), one definition per family:   *)
(* the operand sizes and the register, memory and immediate forms of a      *)
(* family differ only in the operands they are given.                       *)
EXTENDS Compiler

(* Moves of 8 and 16 bits; a byte stored in memory refuses FS, and is       *)
(* loaded before the address.                                               *)
tryCompileMovNarrow(dst, src) ==
  LET z    == dst.z
      to   == getAddress(GPR1, dst)
      from == getAddress(GPR1, src)
      imm  == IF z = 1 \/ IsGuestReg(dst) THEN <<Mov(Reg(z, GPR0), src)>>
              ELSE loadImm64(GPR0, src.n)
      value == IF src.k = "imm" THEN imm ELSE readReg(GPR0, src)
  IN CASE IsGuestReg(dst) /\ (IsGuestReg(src) \/ src.k = "imm") ->
            value \o writeReg(dst, GPR0)
       [] IsGuestReg(dst) -> from.code \o readMem(z, GPR0, from) \o writeReg(dst, GPR0)
       [] z = 1 /\ IsFs(dst) -> Refuse
       [] z = 1 \/ src.k = "imm" -> value \o to.code \o writeMem(z, to, GPR0)
       [] OTHER -> to.code \o value \o writeMem(z, to, GPR0)
(* Moves of 32 and 64 bits; rsp is only taken from rbp.                     *)
tryCompileMovWide(dst, src) ==
  LET z    == dst.z
      to   == getAddress(GPR1, dst)
      from == getAddress(GPR1, src)
      number == IF src.z = 4 /\ z = 8 THEN SignExtend(src.n, 4, 8) ELSE src.n
  IN CASE src.k = "imm" /\ IsGuestReg(dst) -> loadImm64(GPR0, number) \o writeReg(dst, GPR0)
       [] src.k = "imm" ->
            loadImm64(GPR0, number) \o to.code \o writeMem(z, to, GPR0)
       [] IsGuestReg(dst) /\ IsGuestReg(src) ->
            IF z = 8 /\ dst.r = "rsp" /\ src.r # "rbp" THEN Refuse
            ELSE readReg(GPR0, src) \o writeReg(dst, GPR0)
       [] IsGuestReg(dst) -> from.code \o readMem(z, GPR0, from) \o writeReg(dst, GPR0)
       [] OTHER -> to.code \o readReg(GPR0, src) \o writeMem(z, to, GPR0)
Extend(op, dst, src) ==
  LET from == getAddress(GPR0, src)
      code == <<Emit(op, Reg(dst.z, GPR0), Reg(src.z, GPR0))>> \o writeReg(dst, GPR0)
  IN CASE IsGuestReg(src) -> readReg(GPR0, src) \o code
       [] IsFs(src) \/ ByRip(src) -> Refuse
       [] OTHER -> from.code \o readMem(src.z, GPR0, from) \o code
tryCompileMovzx(dst, src) == Extend("movzx", dst, src)
tryCompileMovsx(dst, src) == Extend("movsx", dst, src)

tryCompileSum(op, dst, src) ==
  LET code(d, s) == <<Binary(op, d, s)>> IN forRM(dst, src, code, TRUE)
tryCompileCmp(lhs, rhs) ==
  LET code(d, s) == <<Compare("cmp", d, s)>> IN forRM(lhs, rhs, code, FALSE)
(* A count is a byte, in a register or immediate, whatever is shifted.      *)
tryCompileShift(op, lhs, rhs) ==
  LET code(d, s) == <<Binary(op, d, s)>> IN forRM(lhs, rhs, code, TRUE)
tryCompileRotate(op, lhs, rhs) == tryCompileShift(op, lhs, rhs)

(* rax and rdx are borrowed; their 32 low bits are what the host computes.  *)
WideCode(op, z, source) ==
  LET load(r) == readReg64(GPR0, r) \o <<Mov(Reg(z, r), Reg(z, GPR0))>>
      save(r) == <<Mov(Reg(z, GPR0), Reg(z, r))>> \o writeReg(Reg(z, r), GPR0)
  IN Borrowing(<<"rax", "rdx">>,
       load("rax") \o load("rdx") \o source \o <<Wide(op, Reg(z, GPR1))>>
         \o save("rax") \o save("rdx"))
tryCompileMul(op, src) ==
  IF IsGuestReg(src) THEN WideCode(op, src.z, readReg(GPR1, src)) ELSE Refuse
tryCompileImul(dst, src, imm) ==
  LET code(d, s) == <<Impacting(IF imm.k = "imm" THEN Emit2("imul", d, s, imm)
                                ELSE Binary("imul", d, s), {"rax", "rdx"})>>
  IN forRMRM(dst, src, code, TRUE)
Divide(op, src) ==
  LET from == getAddress(GPR0, src)
  IN WideCode(op, src.z, IF IsGuestReg(src) THEN readReg(GPR1, src)
                         ELSE from.code \o readMem(src.z, GPR1, from))
tryCompileDiv(src)  == Divide("div", src)
tryCompileIdiv(src) == Divide("idiv", src)

tryCompileTest(lhs, rhs) ==
  LET code(d, s) == <<Compare("test", d, s)>> IN forRM(lhs, rhs, code, FALSE)
tryCompileAndOr(op, dst, src) ==
  LET code(d, s) == <<Binary(op, d, s)>> IN forRM(dst, src, code, TRUE)
tryCompileXor(dst, src) == tryCompileAndOr("xor", dst, src)

(* The guest's stack. *)
SpBase == Indexed(8, MEM_BASE, GPR1, 1, 0)
MoveSp(disp) == <<Lea(get(GPR1), Memory(8, GPR1, disp))>> \o writeReg64("rsp", GPR1)
push64 == readReg64(GPR1, "rsp") \o MoveSp(-8) \o <<Mov(SpBase, get(GPR0))>>
pop64 == readReg64(GPR1, "rsp") \o <<Mov(get(GPR0), SpBase)>> \o MoveSp(8)
tryCompilePush(src) ==
  LET from == getAddress(GPR0, src)
  IN CASE src.k = "imm" -> loadImm64(GPR0, SignExtend(src.n, 4, 8)) \o push64
       [] IsGuestReg(src) -> readReg(GPR0, src) \o push64
       [] IsFs(src) \/ ByRip(src) -> Refuse
       [] OTHER -> from.code \o readMem(8, GPR0, from) \o push64
tryCompilePop(dst) == pop64 \o writeReg(dst, GPR0)
tryCompileLeave == readReg64(GPR0, "rbp") \o writeReg64("rsp", GPR0)
                     \o tryCompilePop(get("rbp"))

UnaryCode(op, dst) == LET code(d) == <<Unary(op, d)>> IN forOne(dst, code)
tryCompileNot(dst) == UnaryCode("not", dst)
tryCompileNeg(dst) ==
  LET code(d, s) == <<Unary("neg", d)>> IN forRMImm(dst, Void, code, TRUE)
tryCompileInc(dst) == UnaryCode("inc", dst)
tryCompileDec(dst) == UnaryCode("dec", dst)

(* Exchanges write both operands, the source last. *)
tryCompileXchg(dst, src) ==
  LET code == <<Xchg(Reg(dst.z, GPR0), Reg(src.z, GPR1))>>
      to   == getAddress(GPR0, dst)
  IN CASE IsGuestReg(dst) ->
            readReg(GPR0, dst) \o readReg(GPR1, src) \o code
              \o writeReg(dst, GPR0) \o writeReg(src, GPR1)
       [] IsFs(dst) \/ ByRip(dst) -> Refuse
       [] OTHER -> to.code \o readMem(dst.z, GPR0, to) \o readReg(GPR1, src) \o code
                     \o writeMem(dst.z, to, GPR0) \o writeReg(src, GPR1)
tryCompileCmpxchg(dst, src) ==
  LET z    == dst.z
      code == <<Emit2("cmpxchg", Reg(z, GPR0), Reg(z, GPR0), Reg(z, GPR1))>>
      to   == getAddress(GPR0, dst)
      through(read, write) ==
        Borrowing(<<"rax">>, Borrow("rax") \o read \o readReg(GPR1, src) \o code
                               \o write \o writeReg(src, GPR1) \o GiveBack("rax", GPR0))
  IN CASE IsGuestReg(dst) -> through(readReg(GPR0, dst), writeReg(dst, GPR0))
       [] IsFs(dst) \/ ByRip(dst) -> Refuse
       [] OTHER -> through(to.code \o readMem(z, GPR0, to), writeMem(z, to, GPR0))
tryCompileLock(op, dst, src) ==
  LET z    == dst.z
      to   == getAddress(GPR0, dst)
      code == to.code \o readReg(GPR1, src)
                \o <<Emit2(op, At(z, to), At(z, to), Reg(z, GPR1))>> \o writeReg(src, GPR1)
  IN CASE ByRip(dst) -> Refuse
       [] op = "lockxadd" -> code
       [] OTHER -> Borrowing(<<"rax">>, Borrow("rax") \o code \o GiveBack("rax", GPR0))

(* Sign extension within rax, or from rax into rdx. *)
tryCompileWiden(op) ==
  LET from == IF op = "cwde" THEN 2 ELSE IF op = "cqo" THEN 8 ELSE 4
      out  == CASE op = "cwde" -> Reg(4, "rax") [] op = "cdqe" -> get("rax")
                [] op = "cdq" -> Reg(4, "rdx") [] OTHER -> get("rdx")
      code == Borrow("rax") \o <<Emit(op, out, Reg(from, "rax"))>> \o GiveBack("rax", GPR0)
  IN IF op \in {"cwde", "cdqe"} THEN Borrowing(<<"rax">>, code)
     ELSE Borrowing(<<"rax", "rdx">>, code \o GiveBack("rdx", GPR1))

(* A 32-bit address is made of 32-bit registers. *)
tryCompileLea(dst, src) ==
  LET z == src.z
      base == readReg(GPR0, Reg(z, src.r))
      made == IF src.i = "zero" THEN Memory(8, GPR0, src.n)
              ELSE Indexed(8, GPR0, GPR1, src.s, src.n)
  IN base \o (IF src.i = "zero" THEN <<>> ELSE readReg(GPR1, Reg(z, src.i)))
       \o <<Lea(Reg(dst.z, GPR0), made)>> \o writeReg(dst, GPR0)

tryCompileScan(op, dst, src) ==
  LET code(d, s) == <<Binary(op, d, s)>>
  IN IF op # "tzcnt" /\ ~IsGuestReg(src) THEN Refuse ELSE forRMRM(dst, src, code, TRUE)
tryCompileSet(cond, dst) ==
  LET code(d, s) == <<Set(cond, d)>> IN forRMImm(dst, Void, code, TRUE)
tryCompileCmov(cond, dst, src) ==
  LET code(d, s) == <<Cmov(cond, d, s)>> IN forRMRM(dst, src, code, TRUE)
tryCompileBswap(dst) == readReg(GPR0, dst) \o <<Unary("bswap", Reg(dst.z, GPR0))>>
                          \o writeReg(dst, GPR0)
tryCompileBit(op, dst, src) ==
  LET code(d, s) == <<Binary(op, d, s)>> IN forRM(dst, src, code, op # "bt")

(* Repeated stores and copies: the counter is copied through its 32 low     *)
(* bits, except for stores of 64 bits; the end pointers are computed        *)
(* without changing the flags.                                              *)
Count(z) == <<Mov(Reg(z, "rcx"), Reg(z, GPR1))>>
Doubled(z) == IF z = 8 THEN <<Lea(get(GPR1), Indexed(8, GPR1, GPR1, 1, 0))>> ELSE <<>>
Advanced(r, z) ==
  readReg64(GPR0, r)
    \o <<Lea(get(GPR0), Indexed(8, GPR0, GPR1, IF z = 8 THEN 4 ELSE z, 0))>>
    \o writeReg64(r, GPR0)
Exhausted == loadImm64(GPR0, 0) \o writeReg64("rcx", GPR0)
tryCompileRepStos(z, dst, src) ==
  IF dst.r # "rdi" \/ src # Reg(z, "rax") THEN Refuse
  ELSE Borrowing(<<"rdi", "rcx", "rax">>,
         readReg64(GPR0, "rdi") \o <<Lea(get("rdi"), Indexed(8, MEM_BASE, GPR0, 1, 0))>>
           \o readReg(GPR0, src) \o <<Mov(src, Reg(z, GPR0))>>
           \o readReg64(GPR1, "rcx") \o Count(IF z = 8 THEN 8 ELSE 4)
           \o <<Impacting(Emit("repstos", Void, Imm(z, 0)), {"rdi", "rax", "rcx"})>>
           \o Doubled(z) \o Advanced("rdi", z) \o Exhausted)
tryCompileRepMovs(z, dst, src) ==
  IF dst.r # "rdi" \/ src.r # "rsi" THEN Refuse
  ELSE Borrowing(<<"rdi", "rsi", "rcx">>,
         readReg64(GPR0, "rdi") \o <<Lea(get("rdi"), Indexed(8, MEM_BASE, GPR0, 1, 0))>>
           \o readReg64(GPR0, "rsi") \o readReg64(GPR1, "rcx")
           \o <<Lea(get("rsi"), Indexed(8, MEM_BASE, GPR0, 1, 0))>> \o Count(4)
           \o <<Impacting(Emit("repmovs", Void, Imm(z, 0)), {"rdi", "rsi", "rcx"})>>)
       \o Doubled(z) \o Advanced("rdi", z) \o Advanced("rsi", z) \o Exhausted
=============================================================================
