----------------------------- MODULE VectorCode -----------------------------
(* The translation of MMX and SSE instructions (compiler.cpp): an MMX       *)
(* operand passes through mm0 and mm1, an XMM operand through the host      *)
(* register of its own number, and memory through a scratch register that   *)
(* is saved on the host's stack.                                            *)
EXTENDS Compiler

MM0 == "0"
MM1 == "1"
Refused(m) == IsFs(m) \/ ByRip(m)

-----------------------------------------------------------------------------
(* Shapes.  func makes the code for the destination and source operands. *)
forMmxMmx(dst, src, z, func(_, _)) ==
  LET addr == getAddress(GPR1, src)
      code == func(Mmx(MM0), Mmx(MM1)) \o writeRegMM(dst.r, MM0)
  IN CASE src.k = "mmx" -> readRegMM(MM0, dst.r) \o readRegMM(MM1, src.r) \o code
       [] Refused(src) -> Refuse
       [] OTHER -> readRegMM(MM0, dst.r) \o addr.code \o <<Mov(Mmx(MM1), At(z, addr))>> \o code
scratchXmmRegister(dst) == IF dst.r = "0" THEN "1" ELSE "0"
Saving(r, code) ==
  LET move(disp) == <<Lea(get("rsp"), Memory(8, "rsp", disp))>>
      top == Memory(16, "rsp", 0)
  IN move(-16) \o <<Emit("movu", top, Xmm(r))>> \o code
       \o <<Emit("movu", Xmm(r), top)>> \o move(16)
(* An operand of 32 or 64 bits in memory, loaded by load. *)
forXmmM(dst, src, load, func(_, _), back) ==
  LET r == scratchXmmRegister(dst)
      addr == getAddress(GPR0, src)
  IN IF Refused(src) THEN Refuse
     ELSE Saving(r, readReg128(dst.r) \o addr.code \o <<Emit(load, Xmm(r), At(src.z, addr))>>
                      \o func(dst, Xmm(r)) \o WriteBack(back, writeReg128(dst.r)))
(* A general register or memory of its size. *)
forXmmRM(dst, src, func(_, _)) ==
  LET addr == getAddress(GPR1, src)
      read == IF IsGuestReg(src) THEN readReg(GPR0, src)
              ELSE addr.code \o readMem(src.z, GPR0, addr)
  IN IF ~IsGuestReg(src) /\ Refused(src) THEN Refuse
     ELSE readReg128(dst.r) \o read \o func(dst, Reg(src.z, GPR0)) \o writeReg128(dst.r)
forXmmXmm(dst, src, func(_, _), back) ==
  LET r == scratchXmmRegister(dst)
      addr == getAddress(GPR1, src)
      code(s) == func(dst, s) \o WriteBack(back, writeReg128(dst.r))
  IN CASE src.k = "xmm" -> readReg128(dst.r) \o readReg128(src.r) \o code(src)
       [] Refused(src) -> Refuse
       [] OTHER -> Saving(r, readReg128(dst.r) \o addr.code \o readMem128(r, addr) \o code(Xmm(r)))

-----------------------------------------------------------------------------
(* MMX moves: words of 64 bits only to and from memory. *)
MmxMove(dst, src) ==
  LET addr(m) == getAddress(GPR0, m)
  IN CASE dst.k = "mmx" /\ src.k = "mmx" -> readRegMM(MM0, src.r) \o writeRegMM(dst.r, MM0)
       [] dst.k = "mmx" /\ IsGuestReg(src) /\ src.z = 4 ->
            readReg(GPR0, src) \o <<Mov(Mmx(MM0), Reg(4, GPR0))>> \o writeRegMM(dst.r, MM0)
       [] src.k = "mmx" /\ IsGuestReg(dst) /\ dst.z = 4 ->
            readRegMM(MM0, src.r) \o <<Mov(Reg(4, GPR0), Mmx(MM0))>> \o writeReg(dst, GPR0)
       [] IsGuestReg(dst) \/ IsGuestReg(src) -> Refuse
       [] dst.k = "mmx" ->
            addr(src).code \o <<Mov(Mmx(MM0), At(src.z, addr(src)))>> \o writeRegMM(dst.r, MM0)
       [] OTHER -> readRegMM(MM0, src.r) \o addr(dst).code
                     \o <<Mov(At(dst.z, addr(dst)), Mmx(MM0))>>
MmxMask(dst, src) ==
  readRegMM(MM0, src.r) \o <<Emit("pmovmskb", Reg(4, GPR0), Mmx(MM0))>> \o writeReg(dst, GPR0)
MmxArithmetic == {"pand", "por", "pxor", "paddb", "paddw", "paddd", "paddq", "paddsb",
  "paddsw", "paddusb", "paddusw", "psubb", "psubw", "psubd", "psubsb", "psubsw",
  "psubusb", "psubusw", "pmaddwd", "psadbw", "pmulhw", "pmullw", "pavgb", "pavgw",
  "pmaxub", "pminub"}
MmxRegistersOnly == {"pcmpeqb", "pcmpeqw", "pcmpeqd", "packsswb", "packssdw", "packuswb"}
MmxShifts == {"psllw", "pslld", "psllq", "psrlw", "psrld", "psrlq", "psraw", "psrad"}
MmxVariableShifts == {"psraw", "psrad"}
MmxShuffles == {"pshufb", "pshufw", "punpcklbw", "punpcklwd", "punpckldq", "punpckhbw",
  "punpckhwd", "punpckhdq"}
MmxLate == {"palignr", "phaddw", "phaddd", "pmaddubsw", "pmulhrsw"}
MmxShift(op, dst, imm) ==
  readRegMM(MM0, dst.r) \o <<Binary(op, Mmx(MM0), imm)>> \o writeRegMM(dst.r, MM0)
MmxBinary(op, dst, src, imm) ==
  LET code(d, s) == CASE op = "pshufw"  -> <<Emit2(op, d, s, imm)>>
                      [] op = "palignr" -> <<Emit3(op, d, d, s, imm)>>
                      [] OTHER          -> <<Binary(op, d, s)>>
      low == {"punpcklbw", "punpcklwd", "punpckldq"}
  IN CASE op \in MmxShifts /\ src.k = "imm" -> MmxShift(op, dst, src)
       [] op \in MmxShifts \ MmxVariableShifts -> Refuse
       [] op \in MmxRegistersOnly /\ src.k # "mmx" -> Refuse
       [] op \in MmxArithmetic \cup MmxRegistersOnly \cup MmxShifts \cup MmxShuffles
                 \cup MmxLate ->
            forMmxMmx(dst, src, IF op \in low THEN 4 ELSE 8, code)
       [] OTHER -> Refuse

-----------------------------------------------------------------------------
(* XMM moves. *)
XmmStore(op, dst, src) ==
  LET addr == getAddress(GPR0, dst)
      code == <<Emit(op, At(dst.z, addr), src)>>
  IN CASE Refused(dst) -> Refuse
       [] op \in {"movu", "mova"} -> readReg128(src.r) \o addr.code \o code
       [] OTHER -> addr.code \o readReg128(src.r) \o code
XmmLoad(op, dst, src) ==
  LET addr == getAddress(GPR0, src)
  IN IF Refused(src) THEN Refuse
     ELSE addr.code \o <<Emit(op, dst, At(src.z, addr))>> \o writeReg128(dst.r)
XmmMove(dst, src) ==
  readReg128(src.r) \o <<Mov(dst, src)>> \o writeReg128(dst.r)
(* A word goes through a general register. *)
Movq(dst, src) ==
  LET from == getAddress(GPR0, src)
      to   == getAddress(GPR0, dst)
      out  == <<Emit("movq", get(GPR0), src)>>
  IN CASE dst.k = "xmm" /\ IsGuestReg(src) ->
            readReg(GPR0, src) \o <<Emit("movq", dst, get(GPR0))>> \o writeReg128(dst.r)
       [] IsGuestReg(dst) -> readReg128(src.r) \o out \o writeReg(dst, GPR0)
       [] Refused(src) \/ Refused(dst) -> Refuse
       [] dst.k = "xmm" -> from.code \o readMem(8, GPR0, from) \o <<Emit("movq", dst, get(GPR0))>>
                             \o writeReg128(dst.r)
       [] OTHER -> to.code \o readReg128(src.r) \o out \o writeMem(8, to, GPR0)
Movd(dst, src) ==
  CASE dst.k = "xmm" /\ IsGuestReg(src) ->
         readReg(GPR0, src) \o <<Emit("movd", dst, Reg(4, GPR0))>> \o writeReg128(dst.r)
    [] IsGuestReg(dst) ->
         readReg128(src.r) \o <<Emit("movd", Reg(4, GPR0), src)>> \o writeReg(dst, GPR0)
    [] dst.k = "xmm" -> XmmLoad("movd", dst, src)
    [] OTHER -> XmmStore("movd", dst, src)
(* Half a register moves, the other half stays. *)
Half(op, dst, src) ==
  LET from == getAddress(GPR0, src)
      to   == getAddress(GPR0, dst)
  IN CASE dst.k = "xmm" /\ src.k = "xmm" ->
            readReg128(dst.r) \o readReg128(src.r) \o <<Binary(op, dst, src)>>
              \o writeReg128(dst.r)
       [] Refused(src) \/ Refused(dst) -> Refuse
       [] dst.k = "xmm" -> from.code \o readReg128(dst.r) \o <<Binary(op, dst, At(8, from))>>
                             \o writeReg128(dst.r)
       [] OTHER -> to.code \o readReg128(src.r) \o <<Binary(op, At(8, to), src)>>
MoveMask(dst, src) ==
  readReg128(src.r) \o readReg(GPR0, dst) \o <<Emit("pmovmskb", Reg(4, GPR0), src)>>
    \o writeReg(dst, GPR0)
Movq2dq(dst, src) ==
  readRegMM(MM0, src.r) \o <<Emit("movq2dq", dst, Mmx(MM0))>> \o writeReg128(dst.r)

-----------------------------------------------------------------------------
(* XMM operations of two registers, or a register and 128 bits of memory. *)
XmmLogic == {"pand", "pandn", "por", "pxor"}
XmmArithmetic == {"paddb", "paddw", "paddd", "paddq", "paddsb", "paddsw", "paddusb",
  "paddusw", "psubb", "psubw", "psubd", "psubsb", "psubsw", "psubusb", "psubusw",
  "pmaddwd", "pmulhw", "pmullw", "pmulhuw", "pmuludq", "pavgb", "pavgw", "pmaxub",
  "pminub", "ptest"}
XmmCompares == {"pcmpeqb", "pcmpeqw", "pcmpeqd", "pcmpgtb", "pcmpgtw", "pcmpgtd"}
XmmShifts == {"psllw", "pslld", "psllq", "psrlw", "psrld", "psrlq", "psraw", "psrad"}
XmmByteShifts == {"pslldq", "psrldq"}
XmmShuffles == {"pshufb", "pshufd", "pshuflw", "pshufhw"}
XmmPacks == {"punpcklbw", "punpcklwd", "punpckldq", "punpcklqdq", "punpckhbw", "punpckhwd",
  "punpckhdq", "punpckhqdq", "packsswb", "packssdw", "packuswb", "packusdw"}
XmmSingles == {"addps", "subps", "mulps", "divps", "maxps", "maxpd", "minps", "minpd",
  "cmpps", "cvtps2dq", "cvttps2dq", "cvttpd2dq", "cvtdq2ps"}
XmmDoubles == {"addpd", "subpd", "mulpd", "divpd", "andpd", "andnpd", "orpd", "xorpd",
  "shufps", "shufpd", "unpckhps", "unpckhpd", "unpcklps", "unpcklpd"}
XmmLate == {"palignr", "phaddw", "phaddd", "pmaddubsw", "pmulhrsw", "pmaxsd", "pminsd",
  "pmovzxbw", "roundps", "roundpd", "pmulld"}
XmmShift(op, dst, imm) ==
  readReg128(dst.r) \o <<Binary(op, dst, imm)>> \o writeReg128(dst.r)
XmmBinary(op, dst, src, imm) ==
  LET code(d, s) ==
        CASE op = "ptest" -> <<Compare(op, d, s)>>
          [] op \in (XmmShuffles \ {"pshufb"}) \cup {"roundps", "roundpd"} ->
               <<Emit2(op, d, s, imm)>>
          [] op = "pmovzxbw" -> <<Emit(op, d, s)>>
          [] op \in {"shufps", "shufpd", "palignr", "cmpps"} -> <<Emit3(op, d, d, s, imm)>>
          [] OTHER -> <<Binary(op, d, s)>>
  IN CASE op \in XmmShifts \cup XmmByteShifts /\ src.k = "imm" -> XmmShift(op, dst, src)
       [] op \in XmmByteShifts \/ (op \in {"pmovzxbw", "roundps", "roundpd"} /\ src.k # "xmm") ->
            Refuse
       [] OTHER -> forXmmXmm(dst, src, code, op # "ptest")

(* Elements to and from general registers. *)
Pinsrw(dst, src, imm) ==
  LET from == getAddress(GPR0, src)
      code == <<Emit3("pinsrw", dst, dst, Reg(4, GPR0), imm)>> \o writeReg128(dst.r)
  IN CASE IsGuestReg(src) -> readReg128(dst.r) \o readReg(GPR0, src) \o code
       [] Refused(src) -> Refuse
       [] OTHER -> from.code \o readMem(2, GPR0, from) \o readReg128(dst.r) \o code
Pextrw(dst, src, imm) ==
  LET to == getAddress(GPR1, dst)
      code == readReg128(src.r) \o <<Emit3("pextrw", Reg(4, GPR0), Reg(4, GPR0), src, imm)>>
  IN CASE IsGuestReg(dst) -> code \o writeReg(dst, GPR0)
       [] Refused(dst) -> Refuse
       [] OTHER -> to.code \o code \o writeMem(2, to, GPR0)
Pextr(op, dst, src, imm) ==
  LET code(d, i) == readReg128(src.r) \o <<Emit2(op, d, src, i)>>
  IN forRMImm(dst, imm, code, TRUE)
Pinsrd(dst, src, imm) ==
  LET code(s, i) == readReg128(dst.r) \o <<Emit3("pinsrd", dst, dst, s, i)>>
                      \o writeReg128(dst.r)
  IN forRMImm(src, imm, code, FALSE)

-----------------------------------------------------------------------------
(* Scalars: memory operands are loaded alone into the scratch register. *)
RegisterScalar(op, dst, src, imm) ==
  LET code == IF op = "cmpsd" THEN Emit3(op, dst, dst, src, imm) ELSE Binary(op, dst, src)
  IN readReg128(dst.r) \o readReg128(src.r) \o <<code>>
       \o WriteBack(op \notin {"comiss", "comisd", "ucomisd"}, writeReg128(dst.r))
MemoryScalar(op, dst, src, imm) ==
  LET code(d, s) == <<IF op = "cmpsd" THEN Emit3(op, d, d, s, imm) ELSE Binary(op, d, s)>>
  IN forXmmM(dst, src, IF src.z = 4 THEN "movss" ELSE "movsd", code,
             op \notin {"comisd", "ucomisd"})
SingleScalars == {"addss", "subss", "mulss", "divss", "comiss", "cvtss2sd"}
DoubleScalars == {"addsd", "subsd", "mulsd", "divsd", "cmpsd"}
OtherScalars == {"comisd", "ucomisd", "maxsd", "minsd", "sqrtsd", "cvtsd2ss"}
RegisterOnlyScalars == {"comiss", "maxsd", "sqrtsd"}
Scalar(op, dst, src, imm) ==
  CASE src.k = "xmm" -> RegisterScalar(op, dst, src, imm)
    [] op \in RegisterOnlyScalars -> Refuse
    [] OTHER -> MemoryScalar(op, dst, src, imm)
FromInteger(op, dst, src) ==
  LET code(d, s) == <<Binary(op, d, s)>> IN forXmmRM(dst, src, code)
ToInteger(dst, src) ==
  LET host == Reg(dst.z, GPR1)
  IN IF src.k # "xmm" THEN Refuse
     ELSE readReg128(src.r) \o <<Binary("cvttsd2si", host, src)>> \o writeReg(dst, GPR1)

Movddup(dst, src) ==
  LET twice(s) == readReg128(dst.r) \o readReg128(s.r) \o <<Emit("movddup", dst, s)>>
                    \o writeReg128(dst.r)
      load == Movq(dst, src)
  IN CASE src.k = "xmm" -> twice(src)
       [] Compiles(load) -> load \o twice(dst)
       [] OTHER -> Refuse
(* The mask of a blend is xmm0, which the host register 0 must hold.        *)
Blend(op, dst, src) ==
  IF src.k # "xmm" \/ "0" \in {dst.r, src.r} THEN Refuse
  ELSE readReg128(dst.r) \o readReg128(src.r) \o readReg128("0")
         \o <<Emit3(op, dst, dst, src, Xmm("0"))>> \o writeReg128(dst.r)
Stmxcsr(dst) ==
  LET to == getAddress(GPR0, dst)
  IN IF Refused(dst) THEN Refuse
     ELSE to.code \o <<Mov(get(GPR1), Memory(8, ARGUMENTS, 40)),
                       Mov(Reg(4, GPR1), Memory(4, GPR1, 0))>> \o writeMem(4, to, GPR1)
=============================================================================
