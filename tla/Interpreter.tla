---------------------------- MODULE Interpreter -----------------------------
(* What a guest instruction does (cpu.cpp): the functions Cpu::exec* of the *)
(* instructions that are compiled, one definition per family.  The state is *)
(* the memory, where the registers of the guest are, and its flags; get and *)
(* set follow the kind and the size of an operand.                          *)
EXTENDS Machine

FsBase(s) == Load(s.memory, Arguments + 48, 8)
Mxcsr(s) == Load(s.memory, MxcsrCell, 4)
IsVector(o) == o.k = "xmm"
InMemory(o) == o.k \in {"mem", "fs"}
RegisterAt(o) == Regs + (8 * Gpr[o.r]) + IF o.k = "high" THEN 1 ELSE 0

Gpr64(s, r) == Load(s.memory, Regs + (8 * Gpr[r]), 8)
resolve(s, o) ==
  ((IF o.k = "fs" THEN FsBase(s) ELSE 0) + Gpr64(s, o.r) + (o.s * Gpr64(s, o.i)) + o.n) % 65536

(* Cpu::get: an immediate of 32 bits stands for its sign extension. *)
getAs(s, o, z) ==
  CASE o.k \in {"reg", "high"} -> Load(s.memory, RegisterAt(o), z)
    [] InMemory(o)  -> LoadMem(s.memory, resolve(s, o), z)
    [] o.k = "imm"  -> IF z = 8 /\ o.z = 4 THEN SignExtend(o.n, 4, 8) ELSE o.n % Modulus(z)
    [] o.k = "mmx"  -> Load(s.memory, Mmxs + (8 * Vec[o.r]), z)
    [] IsVector(o)  -> Load(s.memory, Xmms + (16 * Vec[o.r]), z)
    [] OTHER        -> 0
get(s, o) == getAs(s, o, o.z)
(* Values of 128 bits; smaller ones are zero extended. *)
getPair(s, o) ==
  CASE IsVector(o) -> LoadPair(s.memory, Xmms + (16 * Vec[o.r]))
    [] InMemory(o) /\ o.z = 16 -> LoadMemPair(s.memory, resolve(s, o))
    [] OTHER -> <<get(s, o), 0>>

(* Cpu::set: a 32-bit register is zero extended. *)
set(s, o, value) ==
  CASE o.k = "reg" /\ o.z = 4 -> [s EXCEPT !.memory = Store(@, RegisterAt(o), 8, value)]
    [] o.k \in {"reg", "high"} -> [s EXCEPT !.memory = Store(@, RegisterAt(o), o.z, value)]
    [] o.k = "mmx" -> [s EXCEPT !.memory = Store(@, Mmxs + (8 * Vec[o.r]), 8, value)]
    [] OTHER -> [s EXCEPT !.memory = StoreMem(@, resolve(s, o), o.z, value)]
setPair(s, o, pair) ==
  IF IsVector(o) THEN [s EXCEPT !.memory = StorePair(@, Xmms + (16 * Vec[o.r]), pair)]
  ELSE [s EXCEPT !.memory = StoreMemPair(@, resolve(s, o), pair)]
setFlags(s, op, z, a, b) == [s EXCEPT !.flags = FlagsAfter(op, z, a, b, s.flags)]

Register(z, r) == [k |-> "reg", z |-> z, r |-> r, i |-> "zero", s |-> 0, n |-> 0]
setGpr(s, r, value) == set(s, Register(8, r), value)

-----------------------------------------------------------------------------
(* set(dst, op(get(dst), get(src))), and the comparisons that only keep the *)
(* flags, by the families of cpu.cpp.                                       *)
Sums        == {"add", "adc"}
Differences == {"sub", "sbb"}
AndOr       == {"and", "or"}
Exclusive   == {"xor"}
ShiftsLeftRight == {"shl", "shr"}
ShiftsSigned == {"sar"}
Rotations   == {"rol", "ror"}
BitTests    == {"bt", "btr"}
BitSets     == {"bts"}
Tests       == {"test", "cmp"}
Binaries == Sums \cup Differences \cup AndOr \cup Exclusive \cup ShiftsLeftRight \cup ShiftsSigned
              \cup Rotations \cup BitTests \cup BitSets \cup Tests
Comparisons == {"cmp", "test", "bt"}
binary(s, op, dst, a, b) ==
  IF op \in Comparisons THEN setFlags(s, op, dst.z, a, b)
  ELSE set(setFlags(s, op, dst.z, a, b), dst, Value(op, dst.z, a, b, s.flags))
execBinary(s, op, dst, src) ==
  binary(s, op, dst, get(s, dst), IF src.k = "imm" THEN getAs(s, src, dst.z) ELSE get(s, src))
execUnary(s, op, dst) ==
  LET a == get(s, dst)
  IN set(setFlags(s, op, dst.z, a, 0), dst, Value(op, dst.z, a, 0, s.flags))

(* The low part of a product or a quotient to rax, the high one to rdx; a   *)
(* division leaves the flags alone.                                         *)
toHalves(s, op, z, a, d, b) ==
  set(set(s, Register(z, "rdx"), Value("bsr", z, (a + 2 * d) % Modulus(z), b, 0)),
      Register(z, "rax"), Value(op, z, (a + d) % Modulus(z), b, 0))
execMul(s, op, src) ==
  LET z == src.z
      a == get(s, Register(z, "rax"))
      b == get(s, src)
  IN toHalves(setFlags(s, op, z, a, b), op, z, a, 0, b)
execDiv(s, op, src) ==
  LET z == src.z
      a == get(s, Register(z, "rax"))
      d == get(s, Register(z, "rdx"))
  IN toHalves(s, op, z, a, d, get(s, src))
execImul(s, dst, src, imm) ==
  IF imm.k = "imm" THEN binary(s, "imul", dst, get(s, src), getAs(s, imm, dst.z))
  ELSE binary(s, "imul", dst, get(s, dst), get(s, src))

execXchg(s, dst, src) ==
  LET a == get(s, dst)
      b == get(s, src)
  IN set(set(s, dst, b), src, a)
execXadd(s, dst, src) ==
  LET a == get(s, dst)
      b == get(s, src)
  IN set(set(setFlags(s, "add", dst.z, a, b), dst, Value("add", dst.z, a, b, 0)), src, a)
(* Only the operand that changes is written. *)
compared(s, dst, src, rax, held, old) ==
  LET t == setFlags(s, "cmp", dst.z, held, old)
  IN IF held = old THEN set(t, dst, get(s, src)) ELSE set(t, rax, old)
execCmpxchg(s, dst, src) ==
  LET rax == Register(dst.z, "rax")
  IN compared(s, dst, src, rax, get(s, rax), get(s, dst))

execMov(s, dst, src) == set(s, dst, IF src.k = "imm" THEN getAs(s, src, dst.z) ELSE get(s, src))
execExtend(s, op, dst, src) ==
  set(s, dst, IF op = "movzx" THEN get(s, src) ELSE SignExtend(get(s, src), src.z, dst.z))
(* An address is computed in the size it is encoded with. *)
execLea(s, dst, src) ==
  LET z == src.z
      part(r) == Gpr64(s, r) % Modulus(z)
      address == (part(src.r) + (src.s * part(src.i)) + src.n) % Modulus(z)
  IN set(s, dst, address % Modulus(dst.z))

(* The stack of the guest. *)
push64(s, value) ==
  LET t == setGpr(s, "rsp", (Gpr64(s, "rsp") - 8) % 65536)
  IN [t EXCEPT !.memory = StoreMem(@, Gpr64(t, "rsp"), 8, value)]
TopOfStack(s) == LoadMem(s.memory, Gpr64(s, "rsp"), 8)
popped(s) == setGpr(s, "rsp", (Gpr64(s, "rsp") + 8) % 65536)
execPush(s, src) == push64(s, getAs(s, src, 8))
execPop(s, dst) == set(popped(s), dst, TopOfStack(s))
execLeave(s) == execPop(setGpr(s, "rsp", Gpr64(s, "rbp")), Register(8, "rbp"))

(* Sign extensions of rax. *)
execWiden(s, op) ==
  LET from == CASE op = "cwde" -> 2 [] op = "cqo" -> 8 [] OTHER -> 4
      a == get(s, Register(from, "rax"))
      sign(z) == IF 2 * a >= Modulus(from) THEN Modulus(z) - 1 ELSE 0
  IN CASE op = "cwde" -> set(s, Register(4, "rax"), SignExtend(a, 2, 4))
       [] op = "cdqe" -> set(s, Register(8, "rax"), SignExtend(a, 4, 8))
       [] op = "cdq"  -> set(s, Register(4, "rdx"), sign(4))
       [] OTHER       -> set(s, Register(8, "rdx"), sign(8))

(* bsf and bsr of zero set no destination. *)
execScan(s, op, dst, src) ==
  LET b == get(s, src)
      t == setFlags(s, op, dst.z, b, 0)
  IN IF b = 0 /\ op # "tzcnt" THEN t ELSE set(t, dst, Value(op, dst.z, b, 0, 0))
execSet(s, cond, dst) == set(s, dst, IF Holds(cond, s.flags) THEN 1 ELSE 0)
execCmov(s, cond, dst, src) == IF Holds(cond, s.flags) THEN set(s, dst, get(s, src)) ELSE s

(* Repeated stores and copies, in increasing addresses.  The counter is ecx *)
(* but for stores of 64 bits, and is left zero.                             *)
RECURSIVE repeated(_, _, _, _, _)
repeated(memory, z, to, value(_, _), count) ==
  IF count = 0 THEN memory
  ELSE repeated(StoreMem(memory, to, z, value(memory, to)), z, (to + z) % 65536, value,
                count - 1)
execRepStos(s, dst, src) ==
  LET z == dst.z
      count == get(s, Register(IF z = 8 THEN 8 ELSE 4, "rcx"))
      to == resolve(s, dst)
      value(memory, at) == get(s, src)
      t == [s EXCEPT !.memory = repeated(@, z, to, value, count)]
  IN setGpr(setGpr(t, "rcx", 0), "rdi", (to + (z * count)) % 65536)
execRepMovs(s, dst, src) ==
  LET z == dst.z
      count == get(s, Register(4, "rcx"))
      to == resolve(s, dst)
      from == resolve(s, src)
      value(memory, at) == LoadMem(memory, at + (from - to), z)
      t == [s EXCEPT !.memory = repeated(@, z, to, value, count)]
  IN setGpr(setGpr(setGpr(t, "rcx", 0), "rsi", (from + (z * count)) % 65536),
            "rdi", (to + (z * count)) % 65536)

-----------------------------------------------------------------------------
(* Moves of vectors and of parts of them.  What is loaded into the low part *)
(* of an XMM register from elsewhere clears the rest of it.                 *)
WholeMoves == {"mov", "mova", "movu", "lddqu"}
HalfMoves == {"movlps", "movhps", "movhlps", "movlhps"}
VectorMoves == WholeMoves \cup HalfMoves
                 \cup {"movd", "movq", "movss", "movsd", "movq2dq", "movddup"}
halves(op, stored, d, v) ==
  CASE op = "movhlps" -> <<v[2], d[2]>>
    [] op = "movhps" /\ stored -> <<v[2], d[2]>>
    [] op = "movlps" -> <<v[1], d[2]>>
    [] OTHER -> <<d[1], v[1]>>
execHalf(s, op, dst, src) ==
  LET made == halves(op, InMemory(dst), getPair(s, dst), getPair(s, src))
  IN IF InMemory(dst) THEN set(s, dst, made[1]) ELSE setPair(s, dst, made)
movedPair(op, d, low, fromVector) ==
  CASE op = "movddup" -> <<low, low>>
    [] fromVector -> <<WithPart(d[1], 0, 4, low % Modulus(4)), d[2]>>
    [] OTHER -> <<low, 0>>
execVectorMove(s, op, dst, src) ==
  CASE op \in HalfMoves -> execHalf(s, op, dst, src)
    [] ~IsVector(dst) /\ dst.z < 16 ->
         set(s, dst, getAs(s, src, IF dst.k = "mmx" THEN src.z ELSE dst.z))
    [] op \in WholeMoves -> setPair(s, dst, getPair(s, src))
    [] OTHER -> setPair(s, dst, movedPair(op, getPair(s, dst),
                                          getAs(s, src, IF IsVector(src) THEN 8 ELSE src.z),
                                          IsVector(src)))

(* set(dst, op(get(dst), get(src))) on vectors, by the families of cpu.cpp. *)
PackedNumbers == {"addps", "addpd", "addss", "addsd", "subps", "subpd", "subss", "subsd"}
PackedProducts == {"mulps", "mulpd", "mulss", "mulsd", "divps", "divpd", "divss", "divsd"}
Roots == {"sqrtsd"}
Orders == {"comiss", "comisd", "ucomisd"}
NumberBounds == {"maxps", "maxpd", "maxsd", "minps", "minpd", "minsd"}
NumberCompares == {"cmpps", "cmpsd"}
FromIntegers == {"cvtsi2ss", "cvtsi2sd", "cvtss2sd"}
ToSingles == {"cvtsd2ss", "cvttps2dq", "cvttpd2dq"}
ToIntegers == {"cvttsd2si"}
IntegersToSingles == {"cvtdq2ps", "cvtps2dq"}
VectorLogicals == {"pand", "pandn", "por", "pxor", "andpd", "andnpd", "orpd", "xorpd"}
NumberShuffles == {"shufps", "shufpd"}
Inserts == {"pinsrw"}
Extracts == {"pextrw"}
Unpacks == {"punpcklbw", "punpcklwd", "punpckldq", "punpcklqdq", "punpckhbw", "punpckhwd",
            "punpckhdq", "punpckhqdq"}
Shuffles == {"pshufb", "pshufw", "pshuflw", "pshufhw", "pshufd"}
VectorCompares == {"pcmpeqb", "pcmpeqw", "pcmpeqd", "pcmpgtb", "pcmpgtw", "pcmpgtd"}
Masks == {"pmovmskb"}
VectorSums == {"paddb", "paddw", "paddd", "paddq", "paddsb", "paddsw", "paddusb", "paddusw"}
VectorDifferences == {"psubb", "psubw", "psubd", "psubsb", "psubsw", "psubusb", "psubusw"}
VectorProducts == {"pmulhuw", "pmulhw", "pmullw", "pmuludq"}
WordProducts == {"pmaddwd", "psadbw"}
VectorBounds == {"pavgb", "pavgw", "pmaxub", "pminub"}
VectorTests == {"ptest"}
SignedShifts == {"psraw", "psrad"}
VectorShifts == {"psllw", "pslld", "psllq", "psrlw", "psrld", "psrlq"}
ByteShifts == {"pslldq", "psrldq"}
Packs == {"packuswb", "packusdw", "packsswb", "packssdw"}
NumberUnpacks == {"unpckhps", "unpckhpd", "unpcklps", "unpcklpd"}
Horizontal == {"palignr", "phaddw", "phaddd", "pmaddubsw", "pmulhrsw"}
DoublewordBounds == {"pmaxsd", "pminsd"}
Extensions == {"pmovzxbw"}
Roundings == {"roundps", "roundpd"}
DoublewordProducts == {"pmulld"}
ExtractsWide == {"pextrd", "pextrq"}
InsertsWide == {"pinsrd"}
Blends == {"blendvps", "pblendvb"}
VectorBinaries ==
  UNION {PackedNumbers, PackedProducts, Roots, NumberBounds, NumberCompares, FromIntegers,
         ToSingles, IntegersToSingles, VectorLogicals, NumberShuffles, Inserts, Unpacks, Shuffles,
         VectorCompares, VectorSums, VectorDifferences, VectorProducts, WordProducts,
         VectorBounds, SignedShifts, VectorShifts, ByteShifts, Packs, NumberUnpacks, Horizontal,
         DoublewordBounds, Extensions, Roundings, DoublewordProducts, InsertsWide, Blends}
FlagsOnly == VectorTests \cup Orders
ToGeneral == Masks \cup Extracts \cup ExtractsWide \cup ToIntegers
vectorFlags(op, a, b) ==
  (IF op = "ptest" THEN Fold(MixPair(op, 0, a, b)) ELSE MixLow(op, 0, a, b)) % 16
execVectorFlags(s, op, dst, src) ==
  [s EXCEPT !.flags = vectorFlags(op, getPair(s, dst), getPair(s, src))]
toGeneral(op, z, n, v) ==
  CASE op = "cvttsd2si" -> Mix(op, 0, 0, v[1]) % Modulus(z)
    [] op = "pmovmskb" -> Mix(op, 0, Fold(v), 0) % 256
    [] op = "pextrw" -> Mix(op, n, Fold(v), 0) % 16
    [] OTHER -> Mix(op, n, Fold(v), 0) % Modulus(z)
execToGeneral(s, op, dst, src, imm) == set(s, dst, toGeneral(op, dst.z, imm.n, getPair(s, src)))
(* An operation that has an immediate operand depends on it, a blend on     *)
(* xmm0.                                                                    *)
ofPairs(op, mmx, n, d, v) ==
  CASE mmx /\ op \in OneOperand -> <<Mix(op, n, v[1], 0), 0>>
    [] mmx -> <<Mix(op, n, d[1], v[1]), 0>>
    [] op \in OneOperand -> MixVector(op, n, v, <<0, 0>>)
    [] OTHER -> MixVector(op, n, d, v)
execVector(s, op, dst, src, imm) ==
  LET n == CASE op \in Blends -> Fold(getPair(s, [dst EXCEPT !.r = "0"])) % 89
             [] src.k = "imm" -> src.n
             [] OTHER -> imm.n
      v == IF src.k = "imm" THEN <<0, 0>>
           ELSE IF op = "pinsrw" THEN <<get(s, src) % Modulus(2), 0>>
           ELSE getPair(s, src)
      made == ofPairs(op, dst.k = "mmx", n, getPair(s, dst), v)
  IN IF dst.k = "mmx" THEN set(s, dst, made[1]) ELSE setPair(s, dst, made)
execStmxcsr(s, dst) == set(s, dst, Mxcsr(s))

-----------------------------------------------------------------------------
(* Cpu::exec: RIP is the next instruction's before the instruction runs.    *)
Negations == {"neg"}
Complements == {"not"}
Steps == {"inc", "dec"}
Swaps == {"bswap"}
Unaries == Negations \cup Complements \cup Steps \cup Swaps
(* A locked instruction does what the plain one does, alone: it is not      *)
(* compiled, but for exchanges.                                             *)
Unlocked == [lockadd |-> "add", locksub |-> "sub", lockor |-> "or", lockinc |-> "inc",
             lockdec |-> "dec", lockbts |-> "bts"]
execGeneral(s, g) ==
  LET op == IF g.op \in DOMAIN Unlocked THEN Unlocked[g.op] ELSE g.op
  IN CASE op = "mul" -> execMul(s, op, g.dst)
       [] op = "imul1" -> execMul(s, "imul", g.dst)
       [] op \in {"div", "idiv"} -> execDiv(s, op, g.dst)
       [] op = "imul" -> execImul(s, g.dst, g.src, g.imm)
       [] op = "mov" -> execMov(s, g.dst, g.src)
       [] op \in {"movzx", "movsx"} -> execExtend(s, op, g.dst, g.src)
       [] op = "lea" -> execLea(s, g.dst, g.src)
       [] op = "xchg" -> execXchg(s, g.dst, g.src)
       [] op = "lockxadd" -> execXadd(s, g.dst, g.src)
       [] op \in {"cmpxchg", "lockcmpxchg"} -> execCmpxchg(s, g.dst, g.src)
       [] op = "push" -> execPush(s, g.dst)
       [] op = "pop" -> execPop(s, g.dst)
       [] op = "leave" -> execLeave(s)
       [] op \in {"cwde", "cdqe", "cdq", "cqo"} -> execWiden(s, op)
       [] op \in {"bsf", "bsr", "tzcnt"} -> execScan(s, op, g.dst, g.src)
       [] op = "set" -> execSet(s, g.cond, g.dst)
       [] op = "cmov" -> execCmov(s, g.cond, g.dst, g.src)
       [] op = "repstos" -> execRepStos(s, g.dst, g.src)
       [] op = "repmovs" -> execRepMovs(s, g.dst, g.src)
       [] op \in {"nop", "pause"} -> s
       [] op \in Unaries -> execUnary(s, op, g.dst)
       [] op \in Binaries -> execBinary(s, op, g.dst, g.src)
execVectors(s, g) ==
  CASE g.op = "stmxcsr" -> execStmxcsr(s, g.dst)
    [] g.op \in VectorMoves -> execVectorMove(s, g.op, g.dst, g.src)
    [] g.op \in FlagsOnly -> execVectorFlags(s, g.op, g.dst, g.src)
    [] g.op \in ToGeneral -> execToGeneral(s, g.op, g.dst, g.src, g.imm)
    [] g.op \in VectorBinaries -> execVector(s, g.op, g.dst, g.src, g.imm)
exec(s, g, next) ==
  LET t == setGpr(s, "rip", next)
  IN IF g.op = "stmxcsr" \/ {"mmx", "xmm"} \cap {g.dst.k, g.src.k} # {} THEN execVectors(t, g)
     ELSE execGeneral(t, g)

(* The last instruction of a block.  A target is read before anything is    *)
(* pushed.                                                                  *)
execBranch(s, last, next) ==
  LET t == setGpr(s, "rip", next)
      target == IF last.dst.k = "imm" THEN last.dst.n ELSE get(t, last.dst)
      taken == last.op # "jcc" \/ Holds(last.cond, s.flags)
  IN CASE last.op = "ret" -> setGpr(popped(t), "rip", TopOfStack(t))
       [] last.op \in {"call", "callind"} -> setGpr(push64(t, next), "rip", target)
       [] OTHER -> IF taken THEN setGpr(t, "rip", target) ELSE t
=============================================================================
