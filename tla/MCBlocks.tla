------------------------------ MODULE MCBlocks ------------------------------
(* Instances of CompiledBlocks: the guest instructions that may come first  *)
(* are all the forms the compiler has a case for, on few registers and      *)
(* addresses; a small pool of them is combined.                             *)
EXTENDS CompiledBlocks

Fs(z, base, disp) == Operand("fs", z, base, "zero", 0, disp)
High(r) == Operand("high", 1, r, "zero", 0, 0)
Plain(op, dst, src) == Guest(op, dst, src, Void, "none")
Alone(op) == Plain(op, Void, Void)

(* Operands of a size: registers, memory, immediates. *)
To(z) == {Reg(z, "rbx")}
From(z) == {Reg(z, "rbx"), Reg(z, "rdi")}
Mems(z) == {Memory(z, "rbx", 6), Indexed(z, "rdi", "rbx", 2, -5), Fs(z, "zero", 12)}
Bytes == {High("rbx"), High("rax")}
Small(z) == Imm(IF z = 8 THEN 4 ELSE z, IF z = 1 THEN 3 ELSE 13)
Negative == Imm(4, 200)
RM(z) == To(z) \cup Mems(z) \cup IF z = 1 THEN Bytes ELSE {}
Between(op, z, sources) ==
  {Plain(op, d, s) : d \in To(z), s \in From(z) \cup sources}
    \cup {Plain(op, m, s) : m \in Mems(z), s \in From(z)}
WithImm(op, z, imm) == {Plain(op, d, imm) : d \in RM(z)}
Sized(op, sizes, shapes(_, _)) == UNION {shapes(op, z) : z \in sizes}
Arithmetic2(op, z) == Between(op, z, Mems(z)) \cup WithImm(op, z, Small(z))
                        \cup IF z = 8 THEN WithImm(op, z, Negative) ELSE {}
Counted(op, z) ==
  {Plain(op, d, c) : d \in RM(z), c \in {Reg(1, "rcx"), Imm(1, 2)}}
One(op, z) == {Plain(op, d, Void) : d \in RM(z)}
Stored(op, z) == {Plain(op, d, s) : d \in RM(z), s \in {Reg(z, "rdi"), Reg(z, "rax")}}
Loaded(op, z) == {Plain(op, Reg(z, "rbx"), s) : s \in From(z) \cup Mems(z)}
RegistersOnly(op, z) == {Plain(op, Reg(z, "rbx"), s) : s \in From(z)}
Products1(op, z) == {Plain(op, d, Void) : d \in {Reg(z, r) : r \in {"rbx", "rax", "rdx"}} \cup Mems(z)}
Imuls(op, z) == {Guest(op, Reg(z, "rbx"), s, i, "none") :
                   s \in From(z) \cup Mems(z), i \in {Void, Imm(IF z = 8 THEN 4 ELSE z, 5)}}

ArithmeticInstructions == UNION {
  Sized("add", {1, 2, 4, 8}, Arithmetic2), Sized("adc", {4}, Arithmetic2),
  Sized("sub", {1, 2, 4, 8}, Arithmetic2), Sized("sbb", {1, 4, 8}, Arithmetic2),
  Sized("cmp", {1, 2, 4, 8}, Arithmetic2), Sized("and", {1, 2, 4, 8}, Arithmetic2),
  Sized("or", {1, 2, 4, 8}, Arithmetic2), Sized("xor", {1, 2, 4, 8}, Arithmetic2),
  UNION {Stored("test", z) \cup WithImm("test", z, Small(z)) : z \in {1, 2, 4, 8}},
  Sized("shl", {4, 8}, Counted), Sized("shr", {1, 2, 4, 8}, Counted),
  Sized("sar", {2, 4, 8}, Counted), Sized("rol", {2, 4, 8}, Counted),
  Sized("ror", {4, 8}, Counted), Sized("not", {4, 8}, One), Sized("neg", {1, 2, 4, 8}, One),
  Sized("inc", {4, 8}, One), Sized("dec", {1, 2, 4, 8}, One),
  UNION {Products1(op, z) : op \in {"mul", "imul1", "div", "idiv"}, z \in {4, 8}},
  Sized("imul", {2, 4, 8}, Imuls)}

MoveInstructions == UNION {
  UNION {Between("mov", z, Mems(z)) \cup WithImm("mov", z, Small(z)) : z \in {1, 2, 4, 8}},
  {Plain("mov", Reg(8, "rsp"), s) : s \in {Reg(8, "rbp"), Memory(8, "rbx", 6)}},
  {Plain("mov", High("rbx"), s) : s \in {High("rax"), Reg(1, "rdi")}},
  {Plain(op, Reg(z, "rbx"), s) : op \in {"movzx", "movsx"}, z \in {2, 4, 8}, s \in RM(1)},
  {Plain(op, Reg(z, "rbx"), s) : op \in {"movzx", "movsx"}, z \in {4, 8}, s \in RM(2)},
  {Plain("movsx", Reg(8, "rbx"), s) : s \in RM(4)},
  {Plain("lea", Reg(z, "rbx"), m) : z \in {4, 8}, m \in {Memory(8, "rdi", -7),
                                                       Indexed(8, "rdi", "rbx", 4, 9)}},
  {Plain("lea", Reg(4, "rbx"), m) : m \in {Memory(4, "rdi", 7), Indexed(4, "rdi", "rbx", 2, 9)}},
  {Plain("push", s, Void) : s \in {Imm(4, 200), Reg(8, "rbx"), Reg(8, "rsp"), Memory(8, "rsp", 8),
                                   Fs(8, "zero", 12)}},
  {Plain("pop", Reg(8, r), Void) : r \in {"rbx", "rsp"}},
  {Guest("set", d, Void, Void, c) : d \in RM(1), c \in {"B", "LE"}},
  {Guest("cmov", Reg(s.z, "rbx"), s, Void, c) :
     s \in {Reg(4, "rdi"), Reg(8, "rdi"), Memory(4, "rdi", 3), Memory(8, "rdi", 3)},
     c \in {"B", "NB"}}}

SpecialInstructions == UNION {
  {Alone(op) : op \in Nullary},
  Sized("xchg", {1, 2, 4, 8}, Stored), Sized("cmpxchg", {4, 8}, Stored),
  {Plain("cmpxchg", Reg(z, "rax"), Reg(z, "rdi")) : z \in {4, 8}},
  {Plain("bsf", Reg(z, "rbx"), Reg(z, "rcx")) : z \in {4, 8}},
  {Plain("lockcmpxchg", m, Reg(m.z, "rdi")) : m \in Mems(4) \cup Mems(8)},
  {Plain("lockxadd", m, Reg(4, "rdi")) : m \in Mems(4)},
  {Plain(op, m, Reg(4, "rdi")) : op \in {"lockadd", "locksub", "lockor", "lockbts"}, m \in Mems(4)},
  {Plain(op, m, Void) : op \in {"lockinc", "lockdec"}, m \in Mems(4)},
  Sized("bsf", {4, 8}, RegistersOnly), Sized("bsr", {4}, RegistersOnly),
  Sized("tzcnt", {4}, Loaded),
  {Plain("bswap", Reg(z, "rbx"), Void) : z \in {4, 8}},
  {Plain("bt", d, Reg(d.z, "rdi")) : d \in {Reg(4, "rbx"), Reg(8, "rbx")}},
  {Plain(op, Reg(8, "rbx"), s) : op \in {"btr", "bts"}, s \in {Reg(8, "rdi"), Imm(1, 5)}},
  {Plain("repstos", Memory(z, "rdi", 0), Reg(z, "rax")) : z \in {1, 2, 4, 8}},
  {Plain("repmovs", Memory(z, "rdi", 0), Memory(z, "rsi", 0)) : z \in {1, 2, 4, 8}}}

(* MMX and SSE: registers, memory of the size each form loads, immediates. *)
Mm == Mmx("0")
Xm == Xmm("1")
Refusals == {Fs(16, "zero", 8), Fs(8, "zero", 8)}
Big(z) == Indexed(z, "rdi", "rbx", 1, 5)
MmxSources == {Mmx("0"), Mmx("1"), Memory(8, "rdi", 3)}
XmmSources == {Xmm("1"), Xmm("2"), Big(16), Fs(16, "zero", 8)}
Selects == {"pshufw", "pshufd", "pshuflw", "pshufhw", "roundps", "roundpd", "shufps", "shufpd",
            "palignr", "cmpps", "cmpsd"}
Picked(op) == IF op \in Selects THEN Imm(1, 2) ELSE Void
LowUnpacks == {"punpcklbw", "punpcklwd", "punpckldq"}
MmxInstructions == UNION {
  {Guest(op, Mm, s, Picked(op), "none") :
     op \in (MmxArithmetic \cup MmxRegistersOnly \cup MmxShuffles \cup MmxLate) \ LowUnpacks,
     s \in MmxSources},
  {Plain(op, Mm, Mmx(r)) : op \in LowUnpacks, r \in {"0", "1"}},
  {Plain(op, Mm, Memory(4, "rdi", 3)) : op \in LowUnpacks},
  {Plain(op, Mm, Imm(1, 3)) : op \in MmxShifts},
  {Plain("psraw", Mm, Mmx("1")), Plain("psrad", Mm, Mmx("1")), Plain("movd", Mm, Reg(4, "rbx")),
   Plain("movd", Reg(4, "rbx"), Mm), Plain("movd", Mm, Memory(4, "rdi", 3)),
   Plain("movd", Memory(4, "rdi", 3), Mm), Plain("movq", Mm, Memory(8, "rdi", 3)),
   Plain("movq", Memory(8, "rdi", 3), Mm), Plain("movq", Mm, Mmx("1")),
   Plain("pmovmskb", Reg(4, "rbx"), Mm)}}
XmmInstructions == UNION {
  {Guest(op, Xm, s, Picked(op), "none") :
     op \in XmmLogic \cup XmmArithmetic \cup XmmCompares \cup XmmShifts \cup XmmShuffles
              \cup XmmPacks \cup XmmSingles \cup XmmDoubles \cup XmmLate, s \in XmmSources},
  {Plain(op, Xm, Imm(1, 3)) : op \in XmmShifts \cup XmmByteShifts},
  {Guest(op, Xm, s, Picked(op), "none") :
     op \in (SingleScalars \cup DoubleScalars \cup OtherScalars), s \in {Xmm("1"), Xmm("2")}},
  {Guest(op, Xm, Memory(SourceSize(op), "rdi", 3), Picked(op), "none") :
     op \in (SingleScalars \cup DoubleScalars \cup OtherScalars)},
  {Plain(op, Xm, s) : op \in {"cvtsi2ss", "cvtsi2sd"},
     s \in {Reg(4, "rbx"), Reg(8, "rbx"), Memory(4, "rdi", 3), Memory(8, "rdi", 3)}},
  {Plain("cvttsd2si", Reg(z, "rbx"), Xm) : z \in {4, 8}},
  {Plain(op, d, s) : op \in {"mova", "movu"},
     d \in {Big(16)}, s \in {Xm}} \cup {Plain(op, Xm, s) : op \in {"mova", "movu", "lddqu"},
     s \in {Big(16), Fs(16, "zero", 8)}},
  {Plain("mov", Xm, Xmm("2")), Plain("movss", Xm, Xmm("2")), Plain("movq2dq", Xm, Mm),
   Plain("pmovmskb", Reg(4, "rbx"), Xm), Plain("movhlps", Xm, Xmm("2")),
   Plain("movlhps", Xm, Xmm("2")), Plain("movddup", Xm, Xmm("2")), Plain("movddup", Xm, Big(8)),
   Plain("movq", Xm, Reg(8, "rbx")), Plain("movq", Reg(8, "rbx"), Xm),
   Plain("movd", Xm, Reg(4, "rbx")), Plain("movd", Reg(4, "rbx"), Xm),
   Plain("stmxcsr", Memory(4, "rdi", 3), Void), Plain("pinsrd", Xm, Reg(4, "rbx")),
   Guest("pinsrd", Xm, Reg(4, "rbx"), Imm(1, 1), "none")} \ {Plain("pinsrd", Xm, Reg(4, "rbx"))},
  {Plain(op, Xm, Big(8)) : op \in {"movq", "movsd", "movlps", "movhps"}},
  {Plain(op, Big(8), Xm) : op \in {"movq", "movsd", "movlps", "movhps"}},
  {Plain(op, Xm, Big(4)) : op \in {"movd", "movss"}},
  {Plain(op, Big(4), Xm) : op \in {"movd", "movss"}},
  {Guest("pinsrw", Xm, s, Imm(1, 2), "none") : s \in {Reg(4, "rbx"), Big(2)}},
  {Guest("pextrw", d, Xm, Imm(1, 2), "none") : d \in {Reg(4, "rbx"), Big(2)}},
  {Guest("pextrd", d, Xm, Imm(1, 1), "none") : d \in {Reg(4, "rbx"), Big(4)}},
  {Guest("pextrq", d, Xm, Imm(1, 1), "none") : d \in {Reg(8, "rbx"), Big(8)}},
  {Guest("pinsrd", Xm, Big(4), Imm(1, 1), "none")},
  {Plain(op, Xm, s) : op \in {"blendvps", "pblendvb"}, s \in {Xmm("2"), Xmm("0")}}}

MCPool == {
  Plain("mov", Reg(8, "rbx"), Memory(8, "rdi", 6)), Plain("mov", Memory(8, "rdi", 6), Reg(8, "rbx")),
  Plain("mov", Reg(8, "rax"), Memory(8, "rdi", 2)), Plain("mov", Memory(8, "rdi", 6), Reg(8, "rax")),
  Plain("add", Reg(4, "rbx"), Reg(4, "rdi")), Plain("xchg", Reg(8, "rbx"), Reg(8, "rdi")),
  Plain("push", Reg(8, "rbx"), Void), Plain("pop", Reg(8, "rdi"), Void),
  Plain("mov", Reg(1, "rbx"), Reg(1, "rdi")), Plain("pand", Xmm("1"), Xmm("2")),
  Plain("mov", Xmm("2"), Xmm("1")), Plain("movu", Xmm("1"), Memory(16, "rdi", 4))}
MCInstructions ==
  ArithmeticInstructions \cup MoveInstructions \cup SpecialInstructions \cup MmxInstructions
    \cup XmmInstructions \cup MCPool

(* Transfers to an address that is known, from half of the entries, and to  *)
(* others.                                                                  *)
MCLasts ==
  {Plain("call", Imm(8, 45000), Void), Alone("ret"), Plain("jmp", Imm(8, 45000), Void)}
    \cup {Guest("jcc", Imm(8, 45000), Void, Void, c) : c \in {"B", "NB"}}
    \cup {Plain(op, o, Void) : op \in {"callind", "jmpind"},
            o \in {Reg(8, "rsi"), Reg(8, "rdx"), Memory(8, "rdx", 3), Fs(8, "zero", 8)}}
=============================================================================
