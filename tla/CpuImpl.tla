------------------------------- MODULE CpuImpl ------------------------------
(***************************************************************************)
(* How the emulator computes the instructions on integers in portable C++  *)
(* (x64/cpuimpl.cpp): each operator gives the result of an instruction and *)
(* the flags after it, from its operands and the flags f before it.        *)
(***************************************************************************)
EXTENDS Words

CONSTANT Poly   \* the polynomial of crc32, its highest coefficients in the low bits

Of(res, f) == [res |-> res, flags |-> f]

(* zero, sign and parity of a result *)
Marked(f, res) == [f EXCEPT !.zero = (res = 0), !.sign = Negative(res),
                            !.parity = EvenBits(res)]

-----------------------------------------------------------------------------
(* Sums.                                                                   *)

Add(dst, src, f) ==
  LET res == Wrap(dst + src) IN
  Of(res, [Marked(f, res) EXCEPT
    !.carry = dst > (Size - 1) - src,
    !.overflow = \/ ~Negative(dst) /\ ~Negative(src) /\ Negative(res)
                 \/ Negative(dst) /\ Negative(src) /\ ~Negative(res)])

Carried(f) == IF f.carry THEN 1 ELSE 0

Adc(dst, src, f) ==
  LET c == Carried(f)
      res == Wrap(dst + src + c)
  IN  Of(res, [Marked(f, res) EXCEPT
        !.carry = \/ c = 1 /\ src = Size - 1
                  \/ dst > (Size - 1) - Wrap(src + c),
        !.overflow = \/ ~Negative(dst) /\ ~Negative(src) /\ Negative(res)
                     \/ Negative(dst) /\ Negative(src) /\ ~Negative(res)])

Sub(dst, src, f) ==
  LET res == Wrap(dst - src) IN
  Of(res, [Marked(f, res) EXCEPT
    !.carry = dst < src,
    !.overflow = \/ ~Negative(dst) /\ Negative(src) /\ Negative(res)
                 \/ Negative(dst) /\ ~Negative(src) /\ ~Negative(res)])

(* src + c wraps in u32 and u64, where the first case covers it; u8 and    *)
(* u16 are added as int                                                    *)
Sbb(dst, src, f) ==
  LET c == Carried(f)
      res == Wrap(dst - Wrap(src + c))
  IN  Of(res, [Marked(f, res) EXCEPT
        !.carry = (c = 1 /\ src = Size - 1) \/ dst < Wrap(src + c),
        !.overflow = \/ ~Negative(dst) /\ Negative(src) /\ Negative(res)
                     \/ Negative(dst) /\ ~Negative(src) /\ ~Negative(res)])

Cmp(dst, src, f) == Sub(dst, src, f).flags
Neg(dst, f) == Sub(0, dst, f)

Inc(x, f) == LET res == Wrap(x + 1) IN
  Of(res, [Marked(f, res) EXCEPT !.overflow = (x = Half - 1)])
Dec(x, f) == LET res == Wrap(x - 1) IN
  Of(res, [Marked(f, res) EXCEPT !.overflow = (x = Half)])

Cmpxchg(al, dest, f) == [Cmp(al, dest, f) EXCEPT !.zero = (al = dest)]

-----------------------------------------------------------------------------
(* Products and quotients: results are pairs of words.                     *)

Pair(upper, lower, f, over) ==
  [upper |-> upper, lower |-> lower,
   flags |-> [f EXCEPT !.carry = over, !.overflow = over]]

(* mul8 to mul32 compute in a wider type *)
Mul(x, y, f) ==
  Pair((x * y) \div Size, Wrap(x * y), f, (x * y) \div Size # 0)

(* mul64 has no wider type: it multiplies halves of words *)
MulHalves(x, y, f) ==
  LET h == 2^(Width \div 2)
      a == x \div h  b == x % h  c == y \div h  d == y % h
      middle == Wrap(a * d + b * c)
      middleCarry == IF a * d > (Size - 1) - b * c THEN h ELSE 0
      lowerCarry == IF b * d > (Size - 1) - Wrap(middle * h) THEN 1 ELSE 0
      upper == Wrap(a * c + middle \div h + middleCarry + lowerCarry)
  IN  Pair(upper, Wrap(b * d + middle * h), f, upper # 0)

(* imul16 and imul32 *)
Imul(x, y, f) ==
  LET product == Signed(x) * Signed(y) IN
  Pair(Wrap(product \div Size), Wrap(product), f,
       product # Signed(Wrap(product)))

(* imul64 gives a sign to the product of the absolute values *)
ImulHalves(x, y, f) ==
  LET absolute(z) == IF Negative(z) THEN Wrap(-z) ELSE z
      p == MulHalves(absolute(x), absolute(y), f)
      opposite == Negative(x) # Negative(y)
      upper == IF opposite THEN Wrap(Not(p.upper) + IF p.lower = 0 THEN 1 ELSE 0)
               ELSE p.upper
      lower == IF opposite THEN Wrap(-p.lower) ELSE p.lower
      differs == \/ Negative(lower) /\ upper # Size - 1
                 \/ ~Negative(lower) /\ upper # 0
  IN  IF x = 0 \/ y = 0 THEN Pair(0, 0, f, FALSE) ELSE Pair(upper, lower, f, differs)

(* div, when the divisor is not zero and the quotient is a word: it        *)
(* asserts both                                                            *)
Divides(upper, y) == y # 0 /\ upper < y
Div(upper, lower, y) ==
  LET dividend == upper * Size + lower IN <<dividend \div y, dividend % y>>

-----------------------------------------------------------------------------
(* Logic.                                                                  *)

Logic(f, res) == [Marked(f, res) EXCEPT !.overflow = FALSE, !.carry = FALSE]
And_(dst, src, f) == LET res == And(dst, src) IN Of(res, Logic(f, res))
Or_(dst, src, f) == LET res == Or(dst, src) IN Of(res, Logic(f, res))
Xor_(dst, src, f) == LET res == Xor(dst, src) IN Of(res, Logic(f, res))
Test(x, y, f) == Logic(f, And(x, y))

-----------------------------------------------------------------------------
(* Shifts, when the masked count is below the width.                       *)

Masked(count) == count % Counts
IsSet(x, i) == i \in Bits(x)

Shl(dst, src, f) ==
  LET n == Masked(src)
      res == Wrap(dst * 2^n)
      carry == IsSet(dst, Width - n)
  IN  Of(res, IF n = 0 THEN f ELSE
        [Marked(f, res) EXCEPT !.carry = carry,
           !.overflow = IF n = 1 THEN Exclusive(Negative(res), carry) ELSE @])

Shr(dst, src, f) ==
  LET n == Masked(src)
      res == dst \div 2^n
  IN  Of(res, IF n = 0 THEN f ELSE
        [Marked(f, res) EXCEPT !.carry = IsSet(dst, n - 1),
           !.overflow = IF n = 1 THEN Negative(dst) ELSE @])

Sar(dst, src, f) ==
  LET n == Masked(src)
      res == Wrap(Signed(dst) \div 2^n)
  IN  Of(res, IF n = 0 THEN f ELSE
        [Marked(f, res) EXCEPT !.carry = IsSet(dst, n - 1),
           !.overflow = IF n = 1 THEN FALSE ELSE @])

(* the carry of shld and shrd is dst & (size - count) and dst & (count - 1) *)
ShiftedIn(f, dst, res, n, mask) ==
  IF n = 0 THEN f
  ELSE [Marked(f, res) EXCEPT !.carry = And(dst, mask) # 0,
          !.overflow = IF n = 1 THEN Exclusive(Negative(dst), Negative(res)) ELSE @]
Shld(dst, src, count, f) ==
  LET n == count % Width
      res == Or(Wrap(dst * 2^n), src \div 2^(Width - n))
  IN  Of(IF n = 0 THEN dst ELSE res, ShiftedIn(f, dst, res, n, Width - n))
Shrd(dst, src, count, f) ==
  LET n == count % Width
      res == Or(dst \div 2^n, Wrap(src * 2^(Width - n)))
  IN  Of(IF n = 0 THEN dst ELSE res, ShiftedIn(f, dst, res, n, n - 1))

-----------------------------------------------------------------------------
(* Rotations.                                                              *)

(* n times a step that moves a bit through the carry *)
Through(Step(_), val, f, n) ==
  LET at[k \in 0..n] ==
        IF k = 0 THEN [res |-> val, carry |-> f.carry] ELSE Step(at[k - 1])
  IN  at[n]

(* Faulty: the carry is not one of the bits that turn. *)
Steps_Width(count) == Masked(count) % Width

Steps(count) == Masked(count) % (Width + 1)

OneLeft(s) == [res |-> Wrap(2 * s.res + IF s.carry THEN 1 ELSE 0),
               carry |-> Negative(s.res)]
OneRight(s) == [res |-> s.res \div 2 + (IF s.carry THEN Half ELSE 0),
                carry |-> s.res % 2 = 1]

Rcl(val, count, f) ==
  LET s == Through(OneLeft, val, f, Steps(count)) IN
  Of(s.res, [f EXCEPT !.carry = s.carry,
    !.overflow = IF count = 1 THEN Exclusive(Negative(s.res), s.carry) ELSE @])

(* the sign bit of val, in its place, ^ the carry: 0 only if both are      *)
Rcr(val, count, f) ==
  LET s == Through(OneRight, val, f, Steps(count)) IN
  Of(s.res, [f EXCEPT !.carry = s.carry,
    !.overflow = IF count = 1 THEN Negative(val) \/ f.carry ELSE @])

Rol(val, count, f) ==
  LET n == Masked(count) % Width
      res == IF n = 0 THEN val ELSE Or(Wrap(val * 2^n), val \div 2^(Width - n))
      carry == res % 2 = 1
  IN  Of(res, IF n = 0 THEN f ELSE [f EXCEPT !.carry = carry,
        !.overflow = IF n = 1 THEN Exclusive(Negative(res), carry) ELSE @])

Ror(val, count, f) ==
  LET n == Masked(count) % Width
      res == IF n = 0 THEN val ELSE Or(val \div 2^n, Wrap(val * 2^(Width - n)))
  IN  Of(res, IF n = 0 THEN f ELSE [f EXCEPT !.carry = Negative(res),
        !.overflow = IF n = 1
                     THEN Exclusive(Negative(res), IsSet(res, Width - 2)) ELSE @])

-----------------------------------------------------------------------------
(* Bits and bytes.                                                         *)

(* the first place of P, in the order of the loop that looks for it *)
Lowest(P) == CHOOSE i \in P : \A j \in P : i <= j
Highest(P) == CHOOSE i \in P : \A j \in P : j <= i

Tzcnt(x, f) ==
  LET res == Lowest(Bits(x) \cup {Width}) IN
  Of(res, [f EXCEPT !.carry = (res = Width), !.zero = (res = 0)])

Bsr(x, f) == Of(IF x = 0 THEN Size - 1 ELSE Highest(Bits(x)), [f EXCEPT !.zero = (x = 0)])

Bsf(x, f) == Of(IF x = 0 THEN Size - 1 ELSE Lowest(Bits(x)), [f EXCEPT !.zero = (x = 0)])

Popcnt(x, f) ==
  Of(Cardinality(Bits(x)), [f EXCEPT !.overflow = FALSE, !.sign = FALSE,
       !.zero = (x = 0), !.parity = FALSE, !.carry = FALSE])

Bt(base, index, f) == [f EXCEPT !.carry = IsSet(base, index % Width)]
Btr(base, index, f) ==
  Of(And(base, Not(2^(index % Width))), Bt(base, index, f))
Bts(base, index, f) ==
  LET mask == 2^(index % Width) IN
  Of(Or(And(base, Not(mask)), mask), Bt(base, index, f))

Btc(base, index, f) ==
  LET mask == 2^(index % Width) IN
  Of(Or(And(base, Not(mask)), And(Not(base), mask)), Bt(base, index, f))

(* each byte of x is put in the place that mirrors its own *)
Bswap(x) ==
  LET n == Width \div ByteBits
      byte(k) == {i \in 0..ByteBits - 1 : IsSet(x, k * ByteBits + i)}
  IN  WordOf(UNION {{(n - (k + 1)) * ByteBits + i : i \in byte(k)} : k \in 0..n - 1})

(* crc32 of src into dst: a division of reversed polynomials, bit by bit,  *)
(* by the bits of POLY (its top bit set)                                   *)
CrcStep(x) == IF x % 2 = 1 THEN Xor(x \div 2, Poly) ELSE x \div 2
Crc32(dst, src, bytes) ==
  LET byte(k) == (src \div 2^(k * ByteBits)) % 2^ByteBits
      crc[k \in 0..bytes * ByteBits] ==
        IF k = 0 THEN dst
        ELSE CrcStep(IF (k - 1) % ByteBits = 0
                     THEN Xor(crc[k - 1], byte((k - 1) \div ByteBits))
                     ELSE crc[k - 1])
  IN  crc[bytes * ByteBits]
=============================================================================
