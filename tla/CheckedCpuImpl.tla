--------------------------- MODULE CheckedCpuImpl ---------------------------
(***************************************************************************)
(* The checked instructions (x64/checkedcpuimpl.cpp): each runs the code   *)
(* of the emulator and the instruction of the host on the same operands    *)
(* and asserts that results and flags agree, but for the flags that the    *)
(* architecture leaves undefined.  A small machine with two registers and  *)
(* the flags executes them in any order; the assertions are its            *)
(* invariants.  shld and shrd run with their check commented out.          *)
(***************************************************************************)
EXTENDS CpuImpl, NativeCpuImpl

VARIABLES
  dst,    \* the register an instruction reads and writes
  src,    \* its second operand
  flags

vars == <<dst, src, flags>>

TypeOK == dst \in Word /\ src \in Word /\ flags \in Flags

-----------------------------------------------------------------------------
(* The comparisons of flags, of the host and of the emulator.              *)

SameFlags(a, b) == a = b
SameCarryOverflow(a, b) == a.carry = b.carry /\ a.overflow = b.overflow
SameCarryZero(a, b) == a.carry = b.carry /\ a.zero = b.zero
SameCarry(a, b) == a.carry = b.carry
SameZero(a, b) == a.zero = b.zero

(* a shift: a shift by nothing is not compared, overflow only for one bit  *)
SameFlagsShift(a, b, count) ==
  \/ count % 64 = 0
  \/ /\ a.carry = b.carry /\ a.parity = b.parity
     /\ a.sign = b.sign /\ a.zero = b.zero
     /\ count = 1 => a.overflow = b.overflow

SameFlagsRotate(a, b, count) ==
  count # 0 => a.carry = b.carry /\ (count = 1 => a.overflow = b.overflow)

(* checkCallWithFlags and checkCallShift *)
Agree(native, emulated, Same(_, _)) ==
  native.res = emulated.res /\ Same(native.flags, emulated.flags)
AgreeBy(native, emulated, Same(_, _, _), count) ==
  native.res = emulated.res /\ Same(native.flags, emulated.flags, count)

-----------------------------------------------------------------------------
(* The instructions the machine executes, as their checked functions.      *)

(* the counts of u32 and u64 are masked to less than the width; those of   *)
(* u8 and u16 may reach it, where shl and shr look for the carry at a      *)
(* place that is not in the word                                           *)
ShiftCount == src % Counts < Width

Sums == {Add(dst, src, flags), Adc(dst, src, flags), Sub(dst, src, flags),
         Sbb(dst, src, flags), Neg(dst, flags), Inc(dst, flags), Dec(dst, flags)}
Logicals == {And_(dst, src, flags), Or_(dst, src, flags), Xor_(dst, src, flags)}
Tests == {Cmp(dst, src, flags), Test(dst, src, flags), Cmpxchg(dst, src, flags),
          Bt(dst, src, flags)}
Products == {Mul(dst, src, flags), MulHalves(dst, src, flags),
             Imul(dst, src, flags), ImulHalves(dst, src, flags)}
Shifts == {Shl(dst, src, flags), Shr(dst, src, flags), Sar(dst, src, flags)}
DoubleShifts == {Shld(dst, src, n, flags) : n \in Places}
                \cup {Shrd(dst, src, n, flags) : n \in Places}
Rotations == {Rol(dst, src, flags), Ror(dst, src, flags),
              Rcl(dst, src, flags), Rcr(dst, src, flags)}
Scans == {Tzcnt(src, flags), Bsr(src, flags), Bsf(src, flags), Popcnt(src, flags)}
Changes == {Btr(dst, src, flags), Bts(dst, src, flags), Btc(dst, src, flags)}

Answers(r) == dst' = r.res /\ flags' = r.flags /\ UNCHANGED src
AddOrSubtract == \E r \in Sums : Answers(r)
Combine == \E r \in Logicals : Answers(r)
Compare == \E f \in Tests : flags' = f /\ UNCHANGED <<dst, src>>
Multiply == \E p \in Products : dst' = p.lower /\ src' = p.upper /\ flags' = p.flags
Divide ==
  \E upper \in Word :
    /\ Divides(upper, src)
    /\ LET q == Div(upper, dst, src) IN dst' = q[1] /\ src' = q[2]
    /\ UNCHANGED flags
Shift == ShiftCount /\ \E r \in Shifts \cup DoubleShifts : Answers(r)
Rotate == \E r \in Rotations : Answers(r)
Scan == \E r \in Scans : Answers(r)
Change == \E r \in Changes : Answers(r)
Reverse == dst' = Bswap(dst) /\ UNCHANGED <<src, flags>>
Checksum == dst' = Crc32(dst, src, Width \div ByteBits) /\ UNCHANGED <<src, flags>>

(* mov of a constant to either register *)
Load == /\ \/ dst' \in Word /\ UNCHANGED src
           \/ src' \in Word /\ UNCHANGED dst
        /\ UNCHANGED flags

Init == dst = 0 /\ src = 0 /\ flags = [i \in {"carry", "zero", "sign", "overflow", "parity"} |-> FALSE]

Next ==
  \/ Load \/ AddOrSubtract \/ Combine \/ Compare \/ Multiply \/ Divide
  \/ Shift \/ Rotate \/ Scan \/ Change \/ Reverse \/ Checksum

Spec == Init /\ [][Next]_vars

-----------------------------------------------------------------------------
(* Carry, overflow and the flags of the result are those of the exact sum  *)
(* of two words and a carry (add, adc, sub, sbb, neg, inc, dec, cmp).      *)
SumsAgree ==
  /\ Agree(NativeAdd(dst, src, flags), Add(dst, src, flags), SameFlags)
  /\ Agree(NativeAdc(dst, src, flags), Adc(dst, src, flags), SameFlags)
  /\ Agree(NativeSub(dst, src, flags), Sub(dst, src, flags), SameFlags)
  /\ Agree(NativeSbb(dst, src, flags), Sbb(dst, src, flags), SameFlags)
  /\ Agree(NativeNeg(dst, flags), Neg(dst, flags), SameFlags)
  /\ Agree(NativeInc(dst, flags), Inc(dst, flags), SameFlags)
  /\ Agree(NativeDec(dst, flags), Dec(dst, flags), SameFlags)
  /\ SameFlags(NativeCmp(dst, src, flags), Cmp(dst, src, flags))
  /\ SameFlags(NativeCmpxchg(dst, src, flags), Cmpxchg(dst, src, flags))

(* A product has the two words of the exact product, also where it is put  *)
(* together from the products of half words, with carry and overflow when  *)
(* one word would not do; a quotient and its remainder make the dividend.  *)
ProductsAgree ==
  LET same(native, emulated) ==
        /\ native.upper = emulated.upper /\ native.lower = emulated.lower
        /\ SameCarryOverflow(native.flags, emulated.flags)
  IN  /\ same(NativeMul(dst, src, flags), Mul(dst, src, flags))
      /\ same(NativeMul(dst, src, flags), MulHalves(dst, src, flags))
      /\ same(NativeImul(dst, src, flags), Imul(dst, src, flags))
      /\ same(NativeImul(dst, src, flags), ImulHalves(dst, src, flags))
      /\ \A upper \in Word : Divides(upper, src) =>
           NativeDiv(upper, dst, src) = Div(upper, dst, src)

(* A shift moves the bits of the word, keeps its sign when it is           *)
(* arithmetic, and leaves in the carry the last bit that went out.         *)
ShiftsAgree ==
  ShiftCount =>
    /\ AgreeBy(NativeShl(dst, src, flags), Shl(dst, src, flags), SameFlagsShift, src)
    /\ AgreeBy(NativeShr(dst, src, flags), Shr(dst, src, flags), SameFlagsShift, src)
    /\ AgreeBy(NativeSar(dst, src, flags), Sar(dst, src, flags), SameFlagsShift, src)

(* A rotation turns the word, or the word and the carry, as a ring.  The   *)
(* overflow of rcr is left to RcrAgrees.                                   *)
RotationsAgree ==
  /\ ShiftCount =>
       /\ AgreeBy(NativeRol(dst, src, flags), Rol(dst, src, flags), SameFlagsRotate, src)
       /\ AgreeBy(NativeRor(dst, src, flags), Ror(dst, src, flags), SameFlagsRotate, src)
  /\ AgreeBy(NativeRcl(dst, src, flags), Rcl(dst, src, flags), SameFlagsRotate, src)
  /\ Agree(NativeRcr(dst, src, flags), Rcr(dst, src, flags), SameCarry)

(* What the check of rcr asserts: after a rotation by one, the overflow    *)
(* too is that of the processor (sameFlagsRotate).                         *)
RcrAgrees ==
  AgreeBy(NativeRcr(dst, src, flags), Rcr(dst, src, flags), SameFlagsRotate, src)

(* Bitwise logic.                                                          *)
LogicAgrees ==
  /\ Agree(NativeAnd(dst, src, flags), And_(dst, src, flags), SameFlags)
  /\ Agree(NativeOr(dst, src, flags), Or_(dst, src, flags), SameFlags)
  /\ Agree(NativeXor(dst, src, flags), Xor_(dst, src, flags), SameFlags)
  /\ SameFlags(NativeTest(dst, src, flags), Test(dst, src, flags))

(* The scans from either end, which agree on every word but the 0 they     *)
(* have no answer for, and the count of the bits.                          *)
ScansAgree ==
  /\ Agree(NativeTzcnt(src, flags), Tzcnt(src, flags), SameCarryZero)
  /\ Agree(NativePopcnt(src, flags), Popcnt(src, flags), SameFlags)
  /\ src # 0 => /\ Agree(NativeBsr(src, flags), Bsr(src, flags), SameZero)
                /\ Agree(NativeBsf(src, flags), Bsf(src, flags), SameZero)
  /\ SameZero(NativeBsr(src, flags).flags, Bsr(src, flags).flags)
  /\ SameZero(NativeBsf(src, flags).flags, Bsf(src, flags).flags)

(* The test and the changes of one bit.                                    *)
PlacesAgree ==
  /\ SameCarry(NativeBt(dst, src, flags), Bt(dst, src, flags))
  /\ Agree(NativeBtr(dst, src, flags), Btr(dst, src, flags), SameCarry)
  /\ Agree(NativeBts(dst, src, flags), Bts(dst, src, flags), SameCarry)
  /\ Agree(NativeBtc(dst, src, flags), Btc(dst, src, flags), SameCarry)

(* The order of bytes.                                                     *)
BytesAgree == NativeBswap(dst) = Bswap(dst)

(* crc32 as a division of polynomials.                                     *)
ChecksumsAgree ==
  \A n \in 1..Width \div ByteBits :
    NativeCrc32(dst, src, n, Poly) = Crc32(dst, src, n)

BitsAgree == LogicAgrees /\ ScansAgree /\ PlacesAgree /\ BytesAgree /\ ChecksumsAgree

(* The integer instructions are those of the processor, and their results  *)
(* are words and flags: nothing is carried past the width.                 *)
IntegersAgree ==
  TypeOK /\ SumsAgree /\ ProductsAgree /\ ShiftsAgree /\ RotationsAgree /\ BitsAgree
=============================================================================
