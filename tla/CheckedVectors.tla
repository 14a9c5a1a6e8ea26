--------------------------- MODULE CheckedVectors ---------------------------
(***************************************************************************)
(* The checked vector instructions (x64/checkedcpuimpl.cpp): the code of   *)
(* the emulator and the instruction of the host run on the same registers  *)
(* and must agree.  The machine has two vector registers, of the MMX or of *)
(* the XMM unit; the second is only loaded, the first takes every result.  *)
(* Instructions that answer in an integer register, in the flags or in     *)
(* sums wider than a lane (pmovmskb, pextr, ptest, pcmpistri, pcmpestri,   *)
(* psadbw) change neither, and are compared in every state.                *)
(***************************************************************************)
EXTENDS VectorImpl, NativeVectors

CONSTANTS
  XmmLanes,     \* the lanes of an XMM register; an MMX register has half
  Patterns,     \* what is loaded: functions from numbers to words
  Orders,       \* the immediates of shuffles: functions from lanes to lanes
  MaxSteps      \* bound: the instructions between two loads of the first register

(* Registers are halved twice, what is loaded are words, immediates name   *)
(* lanes: what the code says of the constants.                             *)
ConstantsFit ==
  /\ XmmLanes \in Nat \ {0} /\ XmmLanes % 4 = 0 /\ MaxSteps \in Nat
  /\ \A p \in Patterns, i \in 0..XmmLanes - 1 : p[i] \in Word
  /\ Orders \subseteq [0..XmmLanes - 1 -> 0..XmmLanes - 1]

VARIABLES vdst, vsrc, steps

vectors == <<vdst, vsrc, steps>>

MmxLanes == XmmLanes \div 2
IsXmm == Lanes(vdst) = XmmLanes
Operand(n, p) == [i \in 0..n - 1 |-> p[i]]
VectorsOK ==
  /\ \E n \in {MmxLanes, XmmLanes} : vdst \in Register(n) /\ vsrc \in Register(n)
  /\ steps \in 0..MaxSteps

ShiftCounts == 0..Width - 1
LaneCounts == 1..XmmLanes + 1
Alignments == 0..2 * XmmLanes + 1
Masks == SUBSET (0..Lanes(vdst) - 1)
HalfOrder(order) == [i \in DOMAIN order |-> order[i] % (XmmLanes \div 2)]

-----------------------------------------------------------------------------
(* What the machine executes, in the order of the checked functions.       *)

Unpacked == {Punpckl(vdst, vsrc), Punpckh(vdst, vsrc)}
Shuffled ==
  {Shufps(vdst, vsrc, o) : o \in Orders} \cup {Pshufd(vsrc, o) : o \in Orders}
  \cup {Pshuflw(vsrc, HalfOrder(o)) : o \in Orders}
  \cup {Pshufhw(vsrc, HalfOrder(o)) : o \in Orders} \cup {Pshufb(vdst, vsrc)}
Matched == {Pcmpeq(vdst, vsrc), Pcmpgt(vdst, vsrc)}
Added == {Padd(vdst, vsrc), Padds(vdst, vsrc), Paddus(vdst, vsrc),
          Psub(vdst, vsrc), Psubs(vdst, vsrc), Psubus(vdst, vsrc)}
Multiplied == {Pmulhuw(vdst, vsrc), Pmulhw(vdst, vsrc), Pmullw(vdst, vsrc), Pmuludq(vdst, vsrc),
               Pmaddwd(vdst, vsrc)}
Averaged == {Pavg(vdst, vsrc)}
Bounded == {Pmaxs(vdst, vsrc), Pmins(vdst, vsrc), Pmaxu(vdst, vsrc), Pminu(vdst, vsrc)}
LanesShifted == {Psll(vdst, n) : n \in ShiftCounts} \cup {Psrl(vdst, n) : n \in ShiftCounts}
           \cup {Psra(vdst, n) : n \in ShiftCounts}
Moved == {Pslldq(vdst, n) : n \in LaneCounts} \cup {Psrldq(vdst, n) : n \in LaneCounts}
Packed == {Packss(vdst, vsrc), Packus(vdst, vsrc)}
Duplicated == {Movshdup(vsrc), Movddup(vsrc)}
Aligned == {IF IsXmm THEN Palignr128(vdst, vsrc, imm) ELSE Palignr64(vdst, vsrc, imm) :
              imm \in Alignments}
Combined == {Phadd(vdst, vsrc), Pmaddubsw(vdst, vsrc), Pmulhrsw(vdst, vsrc)}
SignsChanged == {Pabs(vsrc), Psign(vdst, vsrc)}
Widened == {Pmovzx(vsrc), Pmovsx(vsrc)}
Inserted == {Pinsr(vdst, Pextr(vsrc, at), at) : at \in 0..XmmLanes}
            \cup {Insertps(vdst, vsrc, 1, 0, {})}
Blended == {Blend(vdst, vsrc, m) : m \in Masks} \cup {Pblendv(vdst, vsrc, vsrc)}

Becomes(R) == /\ steps < MaxSteps /\ steps' = steps + 1
              /\ vdst' \in R /\ UNCHANGED vsrc
Unpack == Becomes(Unpacked)
Shuffle == IsXmm /\ Becomes(Shuffled)
Match == Becomes(Matched)
AddLanes == Becomes(Added)
MultiplyLanes == Becomes(Multiplied)
Average == Becomes(Averaged)
Bound == Becomes(Bounded)
ShiftLanes == Becomes(LanesShifted)
MoveLanes == IsXmm /\ Becomes(Moved)
PackLanes == Becomes(Packed)
Duplicate == IsXmm /\ Becomes(Duplicated)
Align == Becomes(Aligned)
CombineLanes == Becomes(Combined)
ChangeSigns == Becomes(SignsChanged)
Widen == IsXmm /\ Becomes(Widened)
Insert == IsXmm /\ Becomes(Inserted)
BlendLanes == IsXmm /\ Becomes(Blended)

(* a load of either register from memory                                   *)
LoadVector ==
  \E p \in Patterns : LET v == Operand(Lanes(vdst), p) IN
    \/ vdst' = v /\ steps' = 0 /\ UNCHANGED vsrc
    \/ steps = 0 /\ vsrc' = v /\ UNCHANGED <<vdst, steps>>

InitVectors == \E n \in {MmxLanes, XmmLanes} :
  vdst = Zeros(n) /\ vsrc = Zeros(n) /\ steps = 0
NextVectors ==
  \/ LoadVector \/ Unpack \/ Shuffle \/ Match \/ AddLanes \/ MultiplyLanes
  \/ Average \/ Bound \/ ShiftLanes \/ MoveLanes \/ PackLanes \/ Duplicate
  \/ Align \/ CombineLanes \/ ChangeSigns \/ Widen \/ Insert \/ BlendLanes
SpecVectors == InitVectors /\ [][NextVectors]_vectors

-----------------------------------------------------------------------------
(* Packed sums wrap or saturate in each lane, and nothing passes from a    *)
(* lane to the next; distances and sums of neighbours stay with their      *)
(* register.                                                               *)
PackedSumsAgree ==
  /\ NativePadd(vdst, vsrc) = Padd(vdst, vsrc) /\ NativePsub(vdst, vsrc) = Psub(vdst, vsrc)
  /\ NativePadds(vdst, vsrc) = Padds(vdst, vsrc) /\ NativePsubs(vdst, vsrc) = Psubs(vdst, vsrc)
  /\ NativePaddus(vdst, vsrc) = Paddus(vdst, vsrc)
  /\ NativePsubus(vdst, vsrc) = Psubus(vdst, vsrc)
  /\ NativePavg(vdst, vsrc) = Pavg(vdst, vsrc) /\ NativePhadd(vdst, vsrc) = Phadd(vdst, vsrc)
  /\ NativePsadbw(vdst, vsrc, MmxLanes) = Psadbw(vdst, vsrc, MmxLanes)

(* Packed products keep the half of the exact product they name, or round  *)
(* it; sums of products wrap or saturate as double words.                  *)
PackedProductsAgree ==
  /\ NativePmulhuw(vdst, vsrc) = Pmulhuw(vdst, vsrc)
  /\ NativePmulhw(vdst, vsrc) = Pmulhw(vdst, vsrc)
  /\ NativePmull(vdst, vsrc) = Pmullw(vdst, vsrc)
  /\ NativePmuludq(vdst, vsrc) = Pmuludq(vdst, vsrc)
  /\ NativePmaddwd(vdst, vsrc) = Pmaddwd(vdst, vsrc)
  /\ NativePmaddubsw(vdst, vsrc) = Pmaddubsw(vdst, vsrc)
  /\ NativePmulhrsw(vdst, vsrc) = Pmulhrsw(vdst, vsrc)

(* Comparisons, extremes and signs agree, also on the word that has no     *)
(* opposite and on zero.                                                   *)
PackedSignsAgree ==
  /\ NativePcmpeq(vdst, vsrc) = Pcmpeq(vdst, vsrc) /\ NativePcmpgt(vdst, vsrc) = Pcmpgt(vdst, vsrc)
  /\ NativePmaxs(vdst, vsrc) = Pmaxs(vdst, vsrc) /\ NativePmins(vdst, vsrc) = Pmins(vdst, vsrc)
  /\ NativePmaxu(vdst, vsrc) = Pmaxu(vdst, vsrc) /\ NativePminu(vdst, vsrc) = Pminu(vdst, vsrc)
  /\ NativePabs(vsrc) = Pabs(vsrc) /\ NativePsign(vdst, vsrc) = Psign(vdst, vsrc)
  /\ NativeMovmsk(vsrc) = Movmsk(vsrc) /\ NativePtest(vdst, vsrc) = Ptest(vdst, vsrc)

(* A register that is shifted as two u64, for any number of lanes, is the  *)
(* window of the lanes it names (palignr, pslldq, psrldq); a shift of      *)
(* lanes moves bits within each.                                           *)
WindowsAgree ==
  /\ \A n \in ShiftCounts :
       /\ NativePsll(vdst, n) = Psll(vdst, n) /\ NativePsrl(vdst, n) = Psrl(vdst, n)
       /\ NativePsra(vdst, n) = Psra(vdst, n)
  /\ IsXmm => \A n \in LaneCounts :
       NativePslldq(vdst, n) = Pslldq(vdst, n) /\ NativePsrldq(vdst, n) = Psrldq(vdst, n)
  /\ \A imm \in Alignments :
       NativePalignr(vdst, vsrc, imm) =
         IF IsXmm THEN Palignr128(vdst, vsrc, imm) ELSE Palignr64(vdst, vsrc, imm)

(* A shuffle takes each lane from where its immediate says; a pack         *)
(* saturates double words of vdst, then of vsrc; blends by immediates and  *)
(* by bytes follow the mask (blendvps is left to BlendvAgrees).            *)
ShufflesAgree ==
  /\ NativePunpckl(vdst, vsrc) = Punpckl(vdst, vsrc)
  /\ NativePunpckh(vdst, vsrc) = Punpckh(vdst, vsrc)
  /\ NativePackss(vdst, vsrc) = Packss(vdst, vsrc) /\ NativePackus(vdst, vsrc) = Packus(vdst, vsrc)
  /\ \A at \in 0..2 * Lanes(vdst) :
       /\ NativePinsr(vdst, 0, at) = Pinsr(vdst, 0, at)
       /\ NativePextr(vsrc, at) = Pextr(vsrc, at)
  /\ Selects(vdst, vsrc, XmmLanes) => NativePshufb(vdst, vsrc) = Pshufb(vdst, vsrc)
  /\ IsXmm =>
       /\ \A o \in Orders :
            /\ NativeShufps(vdst, vsrc, o) = Shufps(vdst, vsrc, o)
            /\ NativePshufd(vsrc, o) = Pshufd(vsrc, o)
            /\ NativePshuflw(vsrc, HalfOrder(o)) = Pshuflw(vsrc, HalfOrder(o))
            /\ NativePshufhw(vsrc, HalfOrder(o)) = Pshufhw(vsrc, HalfOrder(o))
            /\ NativeInsertps(vdst, vsrc, o[0], o[1], {o[2]}) =
                 Insertps(vdst, vsrc, o[0], o[1], {o[2]})
       /\ NativeMovshdup(vsrc) = Movshdup(vsrc) /\ NativeMovddup(vsrc) = Movddup(vsrc)
       /\ NativePmovzx(vsrc) = Pmovzx(vsrc) /\ NativePmovsx(vsrc) = Pmovsx(vsrc)
       /\ \A m \in Masks : NativeBlend(vdst, vsrc, m) = Blend(vdst, vsrc, m)
       /\ NativeBlendv(vdst, vsrc, vdst) = Pblendv(vdst, vsrc, vdst)

(* The lane, and the flags, by which a string comparison answers: for each *)
(* operation, polarity and output, with either string empty, full, or      *)
(* ending before the other.                                                *)
StringsAgree ==
  IsXmm => \A c \in Controls :
    /\ NativePcmpistri(vdst, vsrc, c) = Pcmpistri(vdst, vsrc, c)
    /\ \A length \in {-1, MmxLanes, XmmLanes + 1} :
         NativePcmpestri(vdst, length, vsrc, -length, c) = Pcmpestri(vdst, length, vsrc, -length, c)

(* The packed instructions are those of the processor, and their results   *)
(* are registers of words.                                                 *)
VectorsAgree ==
  /\ VectorsOK
  /\ PackedSumsAgree /\ PackedProductsAgree /\ PackedSignsAgree
  /\ WindowsAgree /\ ShufflesAgree /\ StringsAgree

(* What the check of blendvps and blendvpd asserts: the lanes of vsrc are  *)
(* those whose mask has its sign bit (checkedcpuimpl.cpp:1682).            *)
BlendvAgrees == IsXmm => NativeBlendv(vdst, vsrc, vsrc) = Blendv(vdst, vsrc, vsrc)
=============================================================================
