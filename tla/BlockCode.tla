----------------------------- MODULE BlockCode ------------------------------
(* The native code of a whole block (compiler.cpp): which guest             *)
(* instructions are translated, and the code around them.  A block is       *)
(*     entry   save rbp; chained blocks jump to the landing after it        *)
(*     body    the translated instructions but the last                     *)
(*     prepare account for the block and say that it is the current one     *)
(*     exit    the last instruction, then return to the trampoline          *)
(* Places left for a jump or for the push of a return pointer are given the *)
(* code they hold: what is in links, 0 where nothing is linked yet.         *)
EXTENDS GeneralCode, VectorCode

(* The operand sizes each general instruction is compiled for: the cases of *)
(* the switch of Compiler::tryCompile.                                      *)
SizesOf(op) ==
  CASE op \in {"mov", "add", "sub", "cmp", "test", "and", "or", "xor", "xchg", "shr", "neg",
              "dec"} -> {1, 2, 4, 8}
    [] op \in {"adc", "bsr", "tzcnt", "lockxadd"} -> {4}
    [] op = "sbb" -> {1, 4, 8}
    [] op \in {"movzx", "movsx", "sar", "rol", "imul"} -> {2, 4, 8}
    [] op \in {"shl", "ror", "mul", "imul1", "div", "idiv", "not", "inc", "cmpxchg",
               "lockcmpxchg", "bsf", "cmov", "bswap", "bt", "lea"} -> {4, 8}
    [] op \in {"btr", "bts", "pop"} -> {8}
    [] op = "set" -> {1}
    [] OTHER -> {}
Nullary == {"cwde", "cdqe", "cdq", "cqo", "leave", "nop", "pause"}

GeneralTwo(g) ==
  LET op == g.op
  IN CASE op = "mov" -> IF g.dst.z <= 2 THEN tryCompileMovNarrow(g.dst, g.src)
                        ELSE tryCompileMovWide(g.dst, g.src)
       [] op = "movzx" -> tryCompileMovzx(g.dst, g.src)
       [] op = "movsx" -> tryCompileMovsx(g.dst, g.src)
       [] op \in {"add", "adc", "sub", "sbb"} -> tryCompileSum(op, g.dst, g.src)
       [] op = "cmp" -> tryCompileCmp(g.dst, g.src)
       [] op \in {"shl", "shr", "sar"} -> tryCompileShift(op, g.dst, g.src)
       [] op \in {"rol", "ror"} -> tryCompileRotate(op, g.dst, g.src)
       [] op = "imul" -> tryCompileImul(g.dst, g.src, g.imm)
       [] op = "test" -> tryCompileTest(g.dst, g.src)
       [] op \in {"and", "or"} -> tryCompileAndOr(op, g.dst, g.src)
       [] op = "xor" -> tryCompileXor(g.dst, g.src)
       [] op = "xchg" -> tryCompileXchg(g.dst, g.src)
       [] op = "cmpxchg" -> tryCompileCmpxchg(g.dst, g.src)
       [] op \in {"lockcmpxchg", "lockxadd"} -> tryCompileLock(op, g.dst, g.src)
       [] op = "lea" -> tryCompileLea(g.dst, g.src)
       [] op \in {"bsf", "bsr", "tzcnt"} -> tryCompileScan(op, g.dst, g.src)
       [] op = "cmov" -> tryCompileCmov(g.cond, g.dst, g.src)
       [] OTHER -> tryCompileBit(op, g.dst, g.src)
GeneralOne(g) ==
  LET op == g.op
  IN CASE op \in {"mul", "imul1"} ->
            tryCompileMul(IF op = "mul" THEN "mul" ELSE "imul", g.dst)
       [] op = "div" -> tryCompileDiv(g.dst)
       [] op = "idiv" -> tryCompileIdiv(g.dst)
       [] op = "push" -> tryCompilePush(g.dst)
       [] op = "pop" -> tryCompilePop(g.dst)
       [] op = "not" -> tryCompileNot(g.dst)
       [] op = "neg" -> tryCompileNeg(g.dst)
       [] op = "inc" -> tryCompileInc(g.dst)
       [] op = "dec" -> tryCompileDec(g.dst)
       [] op = "set" -> tryCompileSet(g.cond, g.dst)
       [] OTHER -> tryCompileBswap(g.dst)
GeneralNone(op) ==
  CASE op \in {"nop", "pause"} -> <<>>
    [] op = "leave" -> tryCompileLeave
    [] OTHER -> tryCompileWiden(op)
General(g) ==
  CASE g.op \in Nullary -> GeneralNone(g.op)
    [] g.op = "repstos" ->
         IF g.dst.z = 2 THEN Refuse ELSE tryCompileRepStos(g.dst.z, g.dst, g.src)
    [] g.op = "repmovs" -> tryCompileRepMovs(g.dst.z, g.dst, g.src)
    [] g.op = "push" -> GeneralOne(g)
    [] g.op = "bt" /\ g.src.k = "imm" -> Refuse
    [] g.dst.z \notin SizesOf(g.op) -> Refuse
    [] g.src.k = "void" -> GeneralOne(g)
    [] OTHER -> GeneralTwo(g)

MmxCode(g) ==
  CASE g.op = "pmovmskb" -> MmxMask(g.dst, g.src)
    [] g.op \in {"movd", "movq"} -> MmxMove(g.dst, g.src)
    [] OTHER -> MmxBinary(g.op, g.dst, g.src, g.imm)
XmmMoves == {"mov", "mova", "movu", "lddqu", "movd", "movss", "movq", "movsd", "movq2dq",
             "movlps", "movhps", "movhlps", "movlhps", "movddup", "pmovmskb"}
XmmMoveCode(g) ==
  LET op == g.op
      store == IsMemory(g.dst) \/ IsFs(g.dst)
      load == IsMemory(g.src) \/ IsFs(g.src)
  IN CASE op = "movq" -> Movq(g.dst, g.src)
       [] op = "movd" -> Movd(g.dst, g.src)
       [] op \in {"movlps", "movhps", "movhlps", "movlhps"} -> Half(op, g.dst, g.src)
       [] op = "pmovmskb" -> MoveMask(g.dst, g.src)
       [] op = "movq2dq" -> Movq2dq(g.dst, g.src)
       [] op = "movddup" -> Movddup(g.dst, g.src)
       [] store -> XmmStore(op, g.dst, g.src)
       [] load -> XmmLoad(IF op = "lddqu" THEN "movu" ELSE op, g.dst, g.src)
       [] op = "movss" -> RegisterScalar(op, g.dst, g.src, g.imm)
       [] op = "movsd" -> Refuse
       [] OTHER -> XmmMove(g.dst, g.src)
XmmCode(g) ==
  LET op == g.op
  IN CASE op \in XmmMoves -> XmmMoveCode(g)
       [] op = "pinsrw" -> Pinsrw(g.dst, g.src, g.imm)
       [] op = "pextrw" -> Pextrw(g.dst, g.src, g.imm)
       [] op \in {"pextrd", "pextrq"} -> Pextr(op, g.dst, g.src, g.imm)
       [] op = "pinsrd" -> Pinsrd(g.dst, g.src, g.imm)
       [] op \in SingleScalars \cup DoubleScalars \cup OtherScalars ->
            Scalar(op, g.dst, g.src, g.imm)
       [] op \in {"cvtsi2ss", "cvtsi2sd"} -> FromInteger(op, g.dst, g.src)
       [] op = "cvttsd2si" -> ToInteger(g.dst, g.src)
       [] op \in {"blendvps", "pblendvb"} -> Blend(op, g.dst, g.src)
       [] op = "stmxcsr" -> Stmxcsr(g.dst)
       [] OTHER -> XmmBinary(op, g.dst, g.src, g.imm)

(* RIP is set to the next instruction before each one. *)
tryAdvanceInstructionPointer(next) == writeReg64Imm("rip", next)
tryCompile(g, next) ==
  tryAdvanceInstructionPointer(next)
    \o CASE g.op = "stmxcsr" \/ "xmm" \in {g.dst.k, g.src.k} -> XmmCode(g)
         [] "mmx" \in {g.dst.k, g.src.k} -> MmxCode(g)
         [] OTHER -> General(g)

-----------------------------------------------------------------------------
(* Code with labels and reported positions, and the list made of it.        *)
Put(n) == Emit("label", Void, Label(n))
Report(place) == OnCond(Emit0("report"), place)
Marks(ins) == ins.op \in {"label", "report"}
generateIR(code) ==
  LET before(i) == Cardinality({j \in 1..(i - 1) : ~Marks(code[j])})
      at(mark) == {i \in DOMAIN code : code[i] = mark}
      labels == {n \in 1..5 : at(Put(n)) # {}}
  IN [f \in DOMAIN EmptyIr |->
        CASE f = "instructions" -> SelectSeq(code, LAMBDA ins : ~Marks(ins))
          [] f = "labels" -> [n \in 1..Cardinality(labels) |->
                                before(CHOOSE i \in at(Put(n)) : TRUE)]
          [] at(Report(f)) = {} -> None
          [] OTHER -> before(CHOOSE i \in at(Report(f)) : TRUE)]
Jump(n) == Emit("jmp", Void, Label(n))
JumpIf(cond, n) == OnCond(Emit("jcc", Void, Label(n)), cond)
JumpTo(r) == Emit("jmpind", Void, get(r))

saveStack == <<Push(get("rbp")), Mov(get("rbp"), get("rsp"))>>
restoreStack == <<Pop(get("rbp"))>>
Argument(n) == Memory(8, ARGUMENTS, n)
RFLAGS == 32
TICKS == 56
CALLSTACK == 64
CALLSTACK_SIZE == 72
SEGMENT_PTR == 80
JIT_BASIC_BLOCK == 88
EXECUTABLE == 96
loadArguments ==
  <<Mov(get(MEM_BASE), Argument(24)), Mov(get(MMX_BASE), Argument(8)),
    Mov(get(XMM_BASE), Argument(16)), Mov(get(REG_BASE), Argument(0))>>
storeFlagsToEmulator ==
  <<Mov(get(GPR1), Argument(RFLAGS)), Emit("pushf", StackPointer, Void),
    Pop(Memory(8, GPR1, 0))>>
loadFlagsFromEmulator ==
  <<Mov(get(GPR1), Argument(RFLAGS)), Push(Memory(8, GPR1, 0)),
    Emit("popf", Void, StackPointer)>>
callNativeBasicBlock ==
  <<Mov(get(GPR1), Argument(EXECUTABLE)), Emit("call", Void, get(GPR1))>>
(* The trampoline: how the emulator enters compiled code and gets back. *)
jitEntry == saveStack \o loadArguments \o loadFlagsFromEmulator \o callNativeBasicBlock
jitExit == storeFlagsToEmulator \o restoreStack \o <<Emit0("ret")>>

(* Accounting, without a change to the flags. *)
addTime(amount) ==
  <<Mov(get(GPR1), Argument(TICKS)), Mov(get(GPR0), Memory(8, GPR1, 0)),
    Lea(get(GPR0), Memory(8, GPR0, amount)), Mov(Memory(8, GPR1, 0), get(GPR0))>>
CALLS_OFFSET == 64
incrementCalls ==
  <<Mov(get(GPR0), Argument(JIT_BASIC_BLOCK)), Mov(get(GPR1), Memory(8, GPR0, CALLS_OFFSET)),
    Lea(get(GPR1), Memory(8, GPR1, 1)), Mov(Memory(8, GPR0, CALLS_OFFSET), get(GPR1))>>
writeBasicBlockPtr(block) ==
  <<Mov(get(GPR1), Argument(SEGMENT_PTR))>> \o loadImm64(GPR0, block)
    \o <<Mov(Memory(8, GPR1, 0), get(GPR0))>>
writeJitBasicBlockPtr(block) ==
  loadImm64(GPR0, block) \o <<Mov(Argument(JIT_BASIC_BLOCK), get(GPR0))>>
prepareExit(count, segment, block) ==
  addTime(count) \o incrementCalls \o writeBasicBlockPtr(segment)
    \o writeJitBasicBlockPtr(block)
basicBlockEntrypoint == saveStack \o <<Report("landing")>>

-----------------------------------------------------------------------------
(* The last instruction.  links holds the native code that the places lead  *)
(* to, 0 where none is known.                                               *)
jmpCode(dst) == loadImm64(GPR0, dst) \o <<JumpTo(GPR0)>>
JumpPlace(dst) == IF dst = 0 THEN <<Emit0("nops")>> ELSE jmpCode(dst)
CallstackSize(step) ==
  <<Mov(get(GPR1), Argument(CALLSTACK_SIZE)), Mov(get(GPR0), Memory(8, GPR1, 0)),
    Lea(get(GPR0), Memory(8, GPR0, step)), Mov(Memory(8, GPR1, 0), get(GPR0)),
    Mov(get(GPR1), Argument(CALLSTACK))>>
CallstackEntry(disp) == <<Lea(get(GPR1), Indexed(8, GPR1, GPR0, 8, disp))>>
pushCallstackCode(dst) ==
  CallstackSize(1) \o CallstackEntry(-8) \o loadImm64(GPR0, dst)
    \o <<Mov(Memory(8, GPR1, 0), get(GPR0))>>
popCallstackCode ==
  CallstackSize(-1) \o CallstackEntry(0)
    \o <<Mov(get(GPR0), Memory(8, GPR1, 0)), Push(get(GPR0)), Mov(get(GPR0), Imm(8, 0)),
         Mov(Memory(8, GPR1, 0), get(GPR0)), Pop(get(GPR0))>>

(* The search for the block of the address in RIP, in the table of the      *)
(* current block; GPR0 is its native code, or zero.                         *)
NATIVE_BLOCK_OFFSET == 24
BLOCK_LOOKUP_TABLE_OFFSET == 32
tryCompileBlockLookup ==
  LET table(n) == Memory(8, "r13", n)
      nth == Indexed(8, GPR0, GPR1, 8, 0)
      none(r) == <<Compare("test", get(r), get(r)), JumpIf("E", 3)>>
  IN [i \in 1..3 |-> Push(get(<<"r13", "r14", "r15">>[i]))]
       \o <<Mov(get("r13"), Argument(JIT_BASIC_BLOCK)),
            Lea(get("r13"), table(BLOCK_LOOKUP_TABLE_OFFSET))>>
       \o readReg64(GPR0, "rip")
       \o <<Mov(get("r14"), get(GPR0)), Mov(get("r15"), table(0)),
            Binary("xor", get(GPR1), get(GPR1)),
            Put(1), Compare("cmp", get(GPR1), get("r15")), JumpIf("E", 3),
            Mov(get(GPR0), table(8)), Mov(get(GPR0), nth),
            Compare("cmp", get(GPR0), get("r14")), JumpIf("NE", 2),
            Mov(get(GPR0), table(16)), Mov(get(GPR1), nth)>>
       \o none(GPR1) \o <<Mov(get(GPR0), Memory(8, GPR1, NATIVE_BLOCK_OFFSET))>>
       \o none(GPR0)
       \o <<Jump(4), Put(2), Unary("inc", get(GPR1)), Jump(1),
            Put(3), Binary("xor", get(GPR0), get(GPR0)), Put(4)>>
       \o [i \in 1..3 |-> Pop(get(<<"r15", "r14", "r13">>[i]))]
(* Jump to the native code in GPR0 if there is any; either way with the     *)
(* flags of the guest.                                                      *)
JumpIfFound(label) ==
  <<Compare("test", get(GPR0), get(GPR0)), JumpIf("E", label)>> \o loadFlagsFromEmulator
    \o <<JumpTo(GPR0), Put(label)>> \o loadFlagsFromEmulator

PushReturn == readReg64(GPR0, "rip") \o push64
GoTo(dst) == loadImm64(GPR0, dst) \o writeReg64("rip", GPR0)
tryCompileCall(dst, links) ==
  PushReturn \o GoTo(dst) \o <<Report("push")>> \o pushCallstackCode(links.push)
    \o <<Report("other")>> \o JumpPlace(links.other)
tryCompileRet ==
  pop64 \o writeReg64("rip", GPR0) \o <<Report("pop")>> \o popCallstackCode
    \o storeFlagsToEmulator \o JumpIfFound(1)
getReverseCondition(cond) ==
  LET i == CondIndex[cond] IN Conditions[IF i % 2 = 0 THEN i + 2 ELSE i]
tryCompileJcc_Swapped(cond, dst, links) ==  \* Faulty: the two places are confused
  <<JumpIf(getReverseCondition(cond), 1)>> \o GoTo(dst) \o <<Report("other")>>
    \o JumpPlace(links.next) \o <<Jump(2), Put(1), Report("next")>>
    \o JumpPlace(links.other) \o <<Put(2)>>
tryCompileJcc(cond, dst, links) ==
  <<JumpIf(getReverseCondition(cond), 1)>> \o GoTo(dst) \o <<Report("other")>>
    \o JumpPlace(links.other) \o <<Jump(2), Put(1), Report("next")>>
    \o JumpPlace(links.next) \o <<Put(2)>>
tryCompileJmp(dst, links) == GoTo(dst) \o <<Report("other")>> \o JumpPlace(links.other)
(* Targets in a register or in memory. *)
Target(src) ==
  LET addr == getAddress(GPR0, src)
  IN IF IsGuestReg(src) THEN readReg64(GPR0, src.r) \o writeReg64("rip", GPR0)
     ELSE IF IsFs(src) \/ ByRip(src) THEN Refuse
     ELSE addr.code \o readMem(8, GPR0, addr) \o writeReg64("rip", GPR0)
tryCompileCallIndirect(src, links) ==
  IF IsMemory(src) /\ src.r = "rsp" THEN Refuse
  ELSE PushReturn \o Target(src) \o <<Push(get(GPR0)), Report("push")>>
         \o pushCallstackCode(links.push) \o <<Pop(get(GPR0))>>
         \o storeFlagsToEmulator \o tryCompileBlockLookup \o JumpIfFound(5)
tryCompileJmpIndirect(src) ==
  Target(src) \o storeFlagsToEmulator \o tryCompileBlockLookup \o JumpIfFound(5)

(* last: op, the target dst (an operand for indirect ones) and cond.        *)
tryCompileLastInstruction(last, next, links) ==
  tryAdvanceInstructionPointer(next)
    \o CASE last.op = "call" -> tryCompileCall(last.dst.n, links)
         [] last.op = "ret" -> tryCompileRet
         [] last.op = "jcc" -> tryCompileJcc(last.cond, last.dst.n, links)
         [] last.op = "jmp" -> tryCompileJmp(last.dst.n, links)
         [] last.op = "callind" -> tryCompileCallIndirect(last.dst, links)
         [] last.op = "jmpind" -> tryCompileJmpIndirect(last.dst)
         [] OTHER -> Refuse
basicBlockExit(last, next, links) ==
  tryCompileLastInstruction(last, next, links) \o restoreStack \o <<Emit0("ret")>>

(* Compiler::tryCompileIR, given the body as it was translated and          *)
(* optimised.                                                               *)
tryCompileIR(body, count, segment, block, last, next, links) ==
  AddIr(AddIr(AddIr(generateIR(basicBlockEntrypoint), body),
              generateIR(prepareExit(count, segment, block))),
        generateIR(basicBlockExit(last, next, links)))
tryCompileJitTrampoline == AddIr(generateIR(jitEntry), generateIR(jitExit))
=============================================================================
