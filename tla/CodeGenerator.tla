---------------------------- MODULE CodeGenerator ---------------------------
(* Which intermediate instructions there is machine code for                *)
(* (codegenerator.cpp): the forms each case of CodeGenerator::tryGenerate   *)
(* accepts, by the kinds and sizes of the destination and of the last       *)
(* operand that is read.  Any other form fails a verify, which takes the    *)
(* emulator down.                                                           *)
EXTENDS Ir

R(z) == <<"reg", z>>
M(z) == <<"mem", z>>
I(z) == <<"imm", z>>
MMX == <<"mmx", 8>>
XMM == <<"xmm", 16>>
Nothing == <<"void", 0>>
Form(o) == <<o.k, o.z>>
ToForm(ins) == Form(IF ins.out.k = "void" THEN ins.in1 ELSE ins.out)
FromForm(ins) == Form(IF ins.in2.k = "void" THEN ins.in1 ELSE ins.in2)

(* Families of operations, as functions from operations to sets of forms.  *)
All(ops, forms) == [op \in ops |-> forms]
Sizes == {1, 2, 4, 8}
Same(sizes) == {<<R(z), R(z)>> : z \in sizes}
Counts(sizes) == {<<R(z), R(1)>> : z \in sizes} \cup {<<R(z), I(1)>> : z \in sizes}
(* Immediates have at most 32 bits. *)
WithImmediates(sizes) ==
  Same(sizes) \cup {<<R(z), I(IF z = 8 THEN 4 ELSE z)>> : z \in sizes}

-----------------------------------------------------------------------------
(* General instructions, in the order of the cases. *)
MovForms ==
  {<<R(z), R(z)>> : z \in Sizes} \cup {<<M(z), R(z)>> : z \in Sizes}
    \cup {<<R(z), M(z)>> : z \in Sizes}
    \cup {<<M(8), I(4)>>, <<R(1), I(1)>>, <<R(2), I(2)>>, <<R(8), I(4)>>, <<R(8), I(8)>>,
          <<R(4), MMX>>, <<MMX, R(4)>>, <<MMX, M(4)>>, <<M(4), MMX>>, <<MMX, M(8)>>,
          <<M(8), MMX>>, <<XMM, XMM>>}
Moves == "mov" :> MovForms
ExtendForms_Same ==  \* Faulty: no 32 to 64 bits for movsx
  All({"movzx", "movsx"},
      {<<R(2), R(1)>>, <<R(4), R(1)>>, <<R(4), R(2)>>, <<R(8), R(1)>>, <<R(8), R(2)>>})
ExtendForms ==
  LET narrow == {<<R(2), R(1)>>, <<R(4), R(1)>>, <<R(4), R(2)>>, <<R(8), R(1)>>, <<R(8), R(2)>>}
  IN ("movzx" :> narrow) @@ ("movsx" :> narrow \cup {<<R(8), R(4)>>})
Sums == ("add" :> WithImmediates(Sizes)) @@ ("adc" :> WithImmediates({4}))
Differences == ("sub" :> WithImmediates(Sizes)) @@ ("sbb" :> WithImmediates({1, 4, 8}))
                 @@ ("cmp" :> WithImmediates(Sizes))
ShiftForms == ("shl" :> Counts({4, 8})) @@ ("shr" :> Counts(Sizes)) @@ ("sar" :> Counts({2, 4, 8}))
RotateForms == ("rol" :> Counts({2, 4, 8})) @@ ("ror" :> Counts({4, 8}))
Products == All({"mul", "div", "idiv"}, Same({4, 8})) @@ ("imul" :> WithImmediates({2, 4, 8}))
TestForms == "test" :> WithImmediates(Sizes)
Logicals == All({"and", "or", "xor"}, WithImmediates(Sizes))
Unaries == All({"not", "inc"}, Same({4, 8})) @@ All({"neg", "dec"}, Same(Sizes))
Exchanges ==
  ("xchg" :> Same(Sizes)) @@ ("cmpxchg" :> Same({4, 8}))
    @@ ("lockcmpxchg" :> {<<M(4), R(4)>>, <<M(8), R(8)>>}) @@ ("lockxadd" :> {<<M(4), R(4)>>})
Widenings == ("cwde" :> {<<R(4), R(2)>>}) @@ ("cdqe" :> {<<R(8), R(4)>>})
               @@ ("cdq" :> {<<R(4), R(4)>>}) @@ ("cqo" :> {<<R(8), R(8)>>})
LeaForms == "lea" :> {<<R(4), M(4)>>, <<R(4), M(8)>>, <<R(8), M(8)>>}
StackForms ==
  ("push" :> {<<M(8), R(8)>>, <<M(8), M(8)>>}) @@ ("pop" :> {<<R(8), M(8)>>, <<M(8), M(8)>>})
    @@ All({"pushf", "popf"}, {<<M(8), Nothing>>, <<M(8), M(8)>>})
Scans == ("bsf" :> Same({4, 8})) @@ All({"bsr", "tzcnt"}, Same({4}))
Conditionals == ("set" :> Same({1})) @@ All({"cmov", "bswap"}, Same({4, 8}))
Bits == ("bt" :> Same({4, 8})) @@ All({"btr", "bts"}, {<<R(8), R(8)>>, <<R(8), I(1)>>})

-----------------------------------------------------------------------------
(* Vectors: moves of them and of parts of them. *)
OnXmm == {<<XMM, XMM>>}
OnMmx == {<<MMX, MMX>>}
OnBoth == OnXmm \cup OnMmx
VectorMoves ==
  All({"mova", "movu"}, {<<XMM, M(16)>>, <<M(16), XMM>>})
    @@ ("movd" :> {<<XMM, R(4)>>, <<R(4), XMM>>, <<XMM, M(4)>>, <<M(4), XMM>>})
    @@ ("movss" :> {<<XMM, XMM>>, <<XMM, M(4)>>, <<M(4), XMM>>})
    @@ All({"movsd", "movlps", "movhps"}, {<<XMM, M(8)>>, <<M(8), XMM>>})
    @@ ("movq" :> {<<XMM, R(8)>>, <<R(8), XMM>>}) @@ All({"movhlps", "movlhps"}, OnXmm)
Masks == ("pmovmskb" :> {<<R(4), MMX>>, <<R(4), XMM>>}) @@ ("movq2dq" :> {<<XMM, MMX>>})

(* Operations on two vectors. *)
VectorLogicals == All({"pand", "por", "pxor"}, OnBoth) @@ ("pandn" :> OnXmm)
VectorSums ==
  All({"paddb", "paddw", "paddd", "paddq", "paddsb", "paddsw", "paddusb", "paddusw"}, OnBoth)
VectorDifferences ==
  All({"psubb", "psubw", "psubd", "psubsb", "psubsw", "psubusb", "psubusw"}, OnBoth)
VectorProducts == All({"pmaddwd", "pmulhw", "pmullw"}, OnBoth) @@ ("psadbw" :> OnMmx)
                    @@ All({"pmulhuw", "pmuludq"}, OnXmm)
VectorBounds == All({"pavgb", "pavgw", "pmaxub", "pminub"}, OnBoth) @@ ("ptest" :> OnXmm)
VectorCompares == All({"pcmpeqb", "pcmpeqw", "pcmpeqd"}, OnBoth)
                    @@ All({"pcmpgtb", "pcmpgtw", "pcmpgtd"}, OnXmm)
(* Counts are immediates; some shifts take them from a register. *)
ByImmediate == {<<MMX, I(1)>>, <<XMM, I(1)>>}
LeftShifts == ("psllw" :> ByImmediate) @@ All({"pslld", "psllq"}, ByImmediate \cup OnXmm)
                @@ ("pslldq" :> {<<XMM, I(1)>>})
RightShifts ==
  All({"psrlw", "psrlq"}, ByImmediate) @@ All({"psrld", "psrad"}, ByImmediate \cup OnXmm)
    @@ ("psraw" :> ByImmediate \cup OnBoth) @@ ("psrldq" :> {<<XMM, I(1)>>})
Shuffles == ("pshufb" :> OnBoth) @@ ("pshufw" :> {<<MMX, I(1)>>})
              @@ All({"pshufd", "pshuflw", "pshufhw"}, {<<XMM, I(1)>>})
Words == ("pinsrw" :> {<<XMM, R(4)>>}) @@ ("pextrw" :> {<<R(4), XMM>>})
Unpacks ==
  All({"punpcklbw", "punpcklwd", "punpckldq", "punpckhbw", "punpckhwd", "punpckhdq"}, OnBoth)
    @@ All({"punpcklqdq", "punpckhqdq"}, OnXmm)
Packs == All({"packsswb", "packssdw", "packuswb"}, OnBoth) @@ ("packusdw" :> OnXmm)

(* Numbers. *)
FromInteger == {<<XMM, R(4)>>, <<XMM, R(8)>>}
SingleForms == All(Singles \cup {"cvtss2sd"}, OnXmm) @@ ("cvtsi2ss" :> FromInteger)
DoubleForms == All(Doubles \cup {"cvtsd2ss"}, OnXmm)
Integers == ("cvtsi2sd" :> FromInteger) @@ ("cvttsd2si" :> {<<R(4), XMM>>, <<R(8), XMM>>})
PackedSingles ==
  All({"addps", "subps", "mulps", "divps", "maxps", "minps", "maxpd", "minpd"}, OnXmm)
PackedConversions == All({"cmpps", "cvtps2dq", "cvttps2dq", "cvttpd2dq", "cvtdq2ps"}, OnXmm)
PackedDoubles ==
  All({"addpd", "subpd", "mulpd", "divpd", "andpd", "andnpd", "orpd", "xorpd"}, OnXmm)
PackedShuffles == All({"shufps", "shufpd", "unpckhps", "unpckhpd", "unpcklps", "unpcklpd",
                       "movddup"}, OnXmm)

(* The later extensions. *)
Horizontal == All({"palignr", "phaddw", "phaddd", "pmaddubsw", "pmulhrsw"}, OnBoth)
Extremes == All({"pmaxsd", "pminsd", "pmovzxbw", "pmulld"}, OnXmm)
              @@ All({"roundps", "roundpd"}, {<<XMM, I(1)>>})
Elements == ("pextrd" :> {<<R(4), I(1)>>}) @@ ("pextrq" :> {<<R(8), I(1)>>})
              @@ ("pinsrd" :> {<<XMM, R(4)>>})
BlendForms == All({"blendvps", "pblendvb"}, OnXmm)

-----------------------------------------------------------------------------
(* Transfers, and the places that are patched later, always have code. *)
Always == {"jcc", "jmp", "jmpind", "call", "ret", "nops", "uds", "repstos", "repmovs"}
Forms ==
  Moves @@ ExtendForms @@ Sums @@ Differences @@ ShiftForms @@ RotateForms @@ Products
    @@ TestForms @@ Logicals @@ Unaries @@ Exchanges @@ Widenings @@ LeaForms @@ StackForms
    @@ Scans @@ Conditionals @@ Bits @@ VectorMoves @@ Masks @@ VectorLogicals @@ VectorSums
    @@ VectorDifferences @@ VectorProducts @@ VectorBounds @@ VectorCompares @@ LeftShifts
    @@ RightShifts @@ Shuffles @@ Words @@ Unpacks @@ Packs @@ SingleForms @@ DoubleForms
    @@ Integers @@ PackedSingles @@ PackedConversions @@ PackedDoubles @@ PackedShuffles
    @@ Horizontal @@ Extremes @@ Elements @@ BlendForms
Generates(ins) == ins.op \in Always \/ <<ToForm(ins), FromForm(ins)>> \in Forms[ins.op]
=============================================================================
