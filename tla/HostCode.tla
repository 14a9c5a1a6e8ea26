------------------------------ MODULE HostCode ------------------------------
(* What the host does when it executes the code of a list of intermediate   *)
(* instructions: sixteen general registers, eight MMX and sixteen XMM       *)
(* registers, the flags and the one memory.  A pointer to guest memory is   *)
(* followed to wherever its offset says; any other pointer must stay inside *)
(* the region it points into, or the state is bad.                          *)
EXTENDS Ir

(* left is "no" while the block runs; "ret" after a return, "jump" and      *)
(* "call" after a transfer whose target is in to.                           *)
HostState(gpr, mmx, xmm, flags, memory) ==
  [gpr |-> gpr, mmx |-> mmx, xmm |-> xmm, flags |-> flags, memory |-> memory,
   goto |-> 0, left |-> "no", to |-> 0, bad |-> FALSE]

Offset(h, m) == (h.gpr[m.i] * m.s) + m.n
InGuest(h, m) == h.gpr[m.r] = Mem
Allowed(h, m, size) ==
  InGuest(h, m) \/ InRegionOf(h.gpr[m.r], h.gpr[m.r] + Offset(h, m), size)
Fail(h) == [h EXCEPT !.bad = TRUE]

(* Operands read as numbers of a size, or as pairs of words. *)
ReadMemory(h, m, size) ==
  CASE ~Allowed(h, m, size) -> 0
    [] InGuest(h, m) -> LoadMem(h.memory, Offset(h, m), size)
    [] OTHER -> Load(h.memory, h.gpr[m.r] + Offset(h, m), size)
Read(h, o, size) ==
  CASE o.k = "reg" -> h.gpr[o.r] % Modulus(size)
    [] o.k = "imm" -> IF size = 8 /\ o.z = 4 THEN SignExtend(o.n, 4, 8) ELSE o.n % Modulus(size)
    [] o.k = "mmx" -> h.mmx[o.r] % Modulus(size)
    [] o.k = "xmm" -> h.xmm[o.r][1] % Modulus(size)
    [] o.k = "mem" -> ReadMemory(h, o, size)
    [] OTHER -> 0
ReadPair(h, o) ==
  CASE o.k = "xmm" -> h.xmm[o.r]
    [] o.k = "mem" /\ InGuest(h, o) -> LoadMemPair(h.memory, Offset(h, o))
    [] o.k = "mem" /\ Allowed(h, o, 16) -> LoadPair(h.memory, h.gpr[o.r] + Offset(h, o))
    [] o.k = "mem" -> <<0, 0>>
    [] OTHER -> <<Read(h, o, 8), 0>>
Readable(h, o) == o.k = "mem" => Allowed(h, o, o.z)

(* A write of four bytes to a general register clears its upper half;       *)
(* smaller writes keep the rest of it.                                      *)
Write(h, o, value) ==
  CASE o.k = "reg" ->
         [h EXCEPT !.gpr[o.r] = IF o.z >= 4 THEN value ELSE WithPart(@, 0, o.z, value)]
    [] o.k = "mmx" -> [h EXCEPT !.mmx[o.r] = value]
    [] o.k = "xmm" -> [h EXCEPT !.xmm[o.r][1] = value]
    [] o.k = "mem" /\ InGuest(h, o) ->
         [h EXCEPT !.memory = StoreMem(@, Offset(h, o), o.z, value)]
    [] o.k = "mem" /\ Allowed(h, o, o.z) ->
         [h EXCEPT !.memory = Store(@, h.gpr[o.r] + Offset(h, o), o.z, value)]
    [] OTHER -> Fail(h)
WritePair(h, o, pair) ==
  CASE o.k = "xmm" -> [h EXCEPT !.xmm[o.r] = pair]
    [] o.k = "mem" /\ InGuest(h, o) ->
         [h EXCEPT !.memory = StoreMemPair(@, Offset(h, o), pair)]
    [] o.k = "mem" /\ Allowed(h, o, 16) ->
         [h EXCEPT !.memory = StorePair(@, h.gpr[o.r] + Offset(h, o), pair)]
    [] OTHER -> Fail(h)

-----------------------------------------------------------------------------
(* General instructions. *)
Width(ins) == IF ins.out.z # 0 THEN ins.out.z ELSE ins.in1.z
ArithmeticOn(h, ins, z, a, b) ==
  IF ins.out.k = "void" \/ ins.op \in {"bt", "cmp", "test"}
  THEN [h EXCEPT !.flags = FlagsAfter(ins.op, z, a, b, @)]
  ELSE Write([h EXCEPT !.flags = FlagsAfter(ins.op, z, a, b, @)], ins.out,
             Value(ins.op, z, a, b, h.flags))
Arithmetic(h, ins) ==
  ArithmeticOn(h, ins, Width(ins), Read(h, ins.in1, Width(ins)),
               Read(h, ins.in2, IF ins.in2.k = "imm" THEN Width(ins) ELSE ins.in2.z))
(* Products and quotients of a register with rax, in rdx:rax. *)
WideOn(h, op, z, a, d, b) ==
  Write(Write([h EXCEPT !.flags = FlagsAfter(op, z, a, b, @)],
              Reg(z, "rax"), Value(op, z, (a + d) % Modulus(z), b, 0)),
        Reg(z, "rdx"), Value("bsr", z, (a + 2 * d) % Modulus(z), b, 0))
WideArithmetic(h, ins) ==
  LET z == ins.in1.z
      high == IF ins.op \in {"div", "idiv"} THEN Read(h, Reg(z, "rdx"), z) ELSE 0
  IN WideOn(h, ins.op, z, Read(h, Reg(z, "rax"), z), high, Read(h, ins.in1, z))
(* A scan of zero leaves the destination of bsf and bsr as it was. *)
Scan(h, ins) ==
  LET z == ins.out.z
      b == Read(h, ins.in2, z)
      g == [h EXCEPT !.flags = FlagsAfter(ins.op, z, b, 0, h.flags)]
  IN IF b = 0 /\ ins.op # "tzcnt" THEN Write(g, ins.out, Read(h, ins.out, z))
     ELSE Write(g, ins.out, Value(ins.op, z, b, 0, 0))
Exchange(h, ins) ==
  LET z == ins.out.z
  IN Write(Write(h, ins.out, Read(h, ins.in2, z)), ins.in2, Read(h, ins.in1, z))
CompareExchangeOn(h, ins, z, rax, old) ==
  LET g == [h EXCEPT !.flags = FlagsAfter("cmp", z, rax, old, @)]
  IN IF old = rax THEN Write(g, ins.out, Read(h, ins.in2, z)) ELSE Write(g, Reg(z, "rax"), old)
CompareExchange(h, ins) ==
  LET z == ins.out.z
  IN CompareExchangeOn(h, ins, z, Read(h, Reg(z, "rax"), z), Read(h, ins.out, z))
ExchangeAddOn(h, ins, z, a, b) ==
  Write(Write([h EXCEPT !.flags = FlagsAfter("add", z, a, b, @)], ins.in2, a),
        ins.out, Value("add", z, a, b, 0))
ExchangeAdd(h, ins) ==
  LET z == ins.out.z
  IN ExchangeAddOn(h, ins, z, Read(h, ins.out, z), Read(h, ins.in2, z))
Widen(h, ins) ==
  LET a == Read(h, ins.in1, ins.in1.z)
      z == ins.out.z
      negative == 2 * a >= Modulus(ins.in1.z)
  IN CASE ins.op = "movzx" -> Write(h, ins.out, a)
       [] ins.op \in {"movsx", "cwde", "cdqe"} ->
            Write(h, ins.out, SignExtend(a, ins.in1.z, z))
       [] OTHER -> Write(h, ins.out, IF negative THEN Modulus(z) - 1 ELSE 0)
LoadAddress(h, ins) ==
  Write(h, ins.out, (h.gpr[ins.in1.r] + Offset(h, ins.in1)) % Modulus(ins.out.z))

(* The stack of the host, and transfers of control. *)
Pushed(h, value) ==
  LET g == [h EXCEPT !.gpr["rsp"] = (@ - 8) % 65536]
  IN Write(g, Memory(8, "rsp", 0), value)
Popped(h) == [h EXCEPT !.gpr["rsp"] = (@ + 8) % 65536]
TopOf(h) == ReadMemory(h, Memory(8, "rsp", 0), 8)
Stack(h, ins) ==
  CASE ins.op = "push"  -> Pushed(h, Read(h, ins.in1, 8))
    [] ins.op = "pop"   -> Write(Popped(h), ins.out, TopOf(h))
    [] ins.op = "pushf" -> Pushed(h, h.flags)
    [] OTHER            -> [Popped(h) EXCEPT !.flags = TopOf(h) % 16]
Transfer(h, ins, labels) ==
  CASE ins.op = "jcc" ->
         IF Holds(ins.cond, h.flags) THEN [h EXCEPT !.goto = labels[ins.in1.n]] ELSE h
    [] ins.op = "jmp" -> [h EXCEPT !.goto = labels[ins.in1.n]]
    [] ins.op = "ret" -> [Popped(h) EXCEPT !.left = "ret", !.to = TopOf(h)]
    [] OTHER -> [h EXCEPT !.left = IF ins.op = "call" THEN "call" ELSE "jump",
                          !.to = Read(h, ins.in1, 8)]

(* The repeated string instructions count in rcx; a pointer into guest      *)
(* memory may leave the words that are modelled, and then wraps.            *)
RECURSIVE Repeat(_, _, _)
Repeat(h, z, moves) ==
  IF h.gpr["rcx"] = 0 THEN h
  ELSE LET to   == (h.gpr["rdi"] - Mem) % 65536
           from == (h.gpr["rsi"] - Mem) % 65536
           value == IF moves THEN LoadMem(h.memory, from, z)
                    ELSE h.gpr["rax"] % Modulus(z)
       IN Repeat([h EXCEPT !.memory = StoreMem(@, to, z, value),
                           !.gpr["rcx"] = @ - 1,
                           !.gpr["rdi"] = (@ + z) % 65536,
                           !.gpr["rsi"] = IF moves THEN (@ + z) % 65536 ELSE @],
                 z, moves)

-----------------------------------------------------------------------------
(* Moves, and instructions on vectors. *)
Move(h, ins) ==
  LET size == IF ins.out.k = "mmx" THEN ins.in1.z ELSE ins.out.z
  IN IF ins.out.k = "xmm" THEN WritePair(h, ins.out, ReadPair(h, ins.in1))
     ELSE Write(h, ins.out, Read(h, ins.in1, size))
VectorMoved(h, op, source, loads, value, pair) ==
  CASE op \in {"mova", "movu"} -> ReadPair(h, source)
    [] op = "movss" /\ loads /\ source.k = "xmm" ->
         <<WithPart(pair[1], 0, 4, value % Modulus(4)), pair[2]>>
    [] op \in {"movd", "movss"} -> <<value % Modulus(4), 0>>
    [] op \in {"movq", "movsd", "movq2dq"} -> <<value, 0>>
    [] op = "movlps" -> <<value, pair[2]>>
    [] op \in {"movhps", "movlhps"} /\ loads -> <<pair[1], value>>
    [] op = "movhps" -> <<h.xmm[source.r][2], 0>>
    [] op = "movhlps" -> <<h.xmm[source.r][2], pair[2]>>
    [] OTHER -> <<value, value>>  \* movddup
WriteVector(h, o, pair) ==
  IF o.k = "xmm" \/ (IsMemory(o) /\ o.z = 16) THEN WritePair(h, o, pair) ELSE Write(h, o, pair[1])
VectorMove(h, ins) ==
  LET source == IF ins.in2.k = "void" THEN ins.in1 ELSE ins.in2
      loads  == ins.out.k = "xmm"
      size   == IF IsMemory(source) \/ source.k = "reg" THEN source.z ELSE 8
  IN WriteVector(h, ins.out,
                 VectorMoved(h, ins.op, source, loads, Read(h, source, size),
                             IF loads THEN h.xmm[ins.out.r] ELSE <<0, 0>>))
VectorMoves == {"mova", "movu", "movd", "movss", "movq", "movsd", "movq2dq", "movlps",
                "movhps", "movhlps", "movlhps", "movddup"}

(* Immediates and third operands select among results. *)
Selector(h, ins) ==
  CASE ins.in2.k = "imm" -> ins.in2.n
    [] ins.in3.k = "imm" -> ins.in3.n
    [] ins.in3.k = "xmm" -> Fold(h.xmm[ins.in3.r]) % 89
    [] OTHER -> 0
VectorNumberOf(op, z, imm, a, b) ==
  CASE op = "cvttsd2si" -> Mix(op, 0, 0, b[1]) % Modulus(z)
    [] op = "pmovmskb" -> Mix(op, 0, Fold(a), 0) % 256
    [] op = "pextrw" -> Mix(op, imm, Fold(b), 0) % 16
    [] op \in {"pextrd", "pextrq"} -> Mix(op, imm, Fold(a), 0) % Modulus(z)
    [] OTHER -> Mix(op, imm, a[1], b[1])
VectorOn(h, ins, op, imm, a, b) ==
  CASE op \in {"ptest", "comiss", "comisd", "ucomisd"} ->
         [h EXCEPT !.flags = (IF op = "ptest" THEN Fold(MixPair(op, 0, a, b))
                              ELSE MixLow(op, 0, a, b)) % 16]
    [] ins.out.k # "xmm" -> Write(h, ins.out, VectorNumberOf(op, ins.out.z, imm, a, b))
    [] op \notin OneOperand -> WritePair(h, ins.out, MixVector(op, imm, a, b))
    [] OTHER -> WritePair(h, ins.out,
                          MixVector(op, imm, IF ins.in2.k \in {"imm", "void"} THEN a ELSE b,
                                    <<0, 0>>))
Vector(h, ins) ==
  VectorOn(h, ins, ins.op, Selector(h, ins), ReadPair(h, ins.in1),
           CASE ins.in2.k \in {"imm", "void"} -> <<0, 0>>
             [] ins.op = "pinsrw" -> <<Read(h, ins.in2, 2), 0>>
             [] OTHER -> ReadPair(h, ins.in2))

-----------------------------------------------------------------------------
(* One instruction, and a whole list from its first one.  A state that has *)
(* read outside its regions is bad; fuel bounds the loops.                 *)
Products == {"mul", "imul", "div", "idiv"}
Step(h, ins, labels) ==
  LET op == ins.op
      ok == op = "lea" \/ \A o \in {ins.in1, ins.in2} : Readable(h, o)
  IN CASE ~ok -> Fail(h)
       [] op = "mov" -> Move(h, ins)
       [] op = "lea" -> LoadAddress(h, ins)
       [] op \in {"push", "pop", "pushf", "popf"} -> Stack(h, ins)
       [] op \in {"jcc", "jmp", "ret", "call", "jmpind"} -> Transfer(h, ins, labels)
       [] op \in {"nops", "uds"} -> h
       [] op \in Products /\ "rax" \in ins.impacted /\ ins.in2.r = "rax"
          /\ ins.in3.k = "void" -> WideArithmetic(h, ins)
       [] op \in {"bsf", "bsr", "tzcnt"} -> Scan(h, ins)
       [] op = "xchg" -> Exchange(h, ins)
       [] op \in {"cmpxchg", "lockcmpxchg"} -> CompareExchange(h, ins)
       [] op = "lockxadd" -> ExchangeAdd(h, ins)
       [] op \in {"movzx", "movsx", "cwde", "cdqe", "cdq", "cqo"} -> Widen(h, ins)
       [] op = "set" -> Write(h, ins.out, IF Holds(ins.cond, h.flags) THEN 1 ELSE 0)
       [] op = "cmov" ->
            Write(h, ins.out, Read(h, IF Holds(ins.cond, h.flags) THEN ins.in1 ELSE ins.out,
                                   ins.out.z))
       [] op = "repstos" -> Repeat(h, ins.in1.z, FALSE)
       [] op = "repmovs" -> Repeat(h, ins.in1.z, TRUE)
       [] op \in VectorMoves -> VectorMove(h, ins)
       [] op \in DOMAIN VectorNumber -> Vector(h, ins)
       [] OTHER -> Arithmetic(h, ins)

RECURSIVE RunFrom(_, _, _)
RunFrom(h, ir, fuel) ==
  IF h.goto >= Len(ir.instructions) \/ h.bad \/ h.left # "no" THEN h
  ELSE IF fuel = 0 THEN Fail(h)
  ELSE RunFrom(Step([h EXCEPT !.goto = @ + 1], ir.instructions[h.goto + 1], ir.labels),
               ir, fuel - 1)
Run(h, ir) == RunFrom([h EXCEPT !.goto = 0], ir, 400)
RunCode(h, code) == Run(h, [EmptyIr EXCEPT !.instructions = code])
=============================================================================
