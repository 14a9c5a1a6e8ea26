---------------------------- MODULE NativeCpuImpl ---------------------------
(***************************************************************************)
(* What the processor of the host computes for the same instructions       *)
(* (x64/nativecpuimpl.cpp runs each of them in inline assembly): the       *)
(* meaning of the instruction as arithmetic on integers.  Flags that an    *)
(* instruction leaves undefined keep their value here and are not compared *)
(* (module CheckedCpuImpl).                                                *)
(***************************************************************************)
EXTENDS Words

Ends(res, f) == [res |-> res, flags |-> f]
Seen(f, res) == [f EXCEPT !.zero = (res = 0), !.sign = Negative(res),
                          !.parity = EvenBits(res)]

(* the flags of a sum: what does not fit in a word, and what does not fit  *)
(* in a signed word                                                        *)
Summed(f, exact, signed) ==
  Ends(Wrap(exact), [Seen(f, Wrap(exact)) EXCEPT
    !.carry = exact \notin Word, !.overflow = signed \notin (-Half)..(Half - 1)])
In(f) == IF f.carry THEN 1 ELSE 0

NativeAdd(x, y, f) == Summed(f, x + y, Signed(x) + Signed(y))
NativeAdc(x, y, f) == Summed(f, x + y + In(f), Signed(x) + Signed(y) + In(f))
NativeSub(x, y, f) == Summed(f, x - y, Signed(x) - Signed(y))
NativeSbb(x, y, f) == Summed(f, x - y - In(f), Signed(x) - Signed(y) - In(f))
NativeCmp(x, y, f) == NativeSub(x, y, f).flags
NativeNeg(x, f) == Summed(f, -x, -Signed(x))

(* inc and dec leave the carry alone *)
KeepsCarry(r, f) == [r EXCEPT !.flags.carry = f.carry]
NativeInc(x, f) == KeepsCarry(NativeAdd(x, 1, f), f)
NativeDec(x, f) == KeepsCarry(NativeSub(x, 1, f), f)

(* the accumulator is compared with the destination *)
NativeCmpxchg(al, dest, f) == NativeCmp(al, dest, f)

(* products in two words, with the flags set if one would not do *)
Product(exact, f, fits) ==
  [upper |-> Wrap(exact \div Size), lower |-> Wrap(exact),
   flags |-> [f EXCEPT !.carry = ~fits, !.overflow = ~fits]]
NativeMul(x, y, f) == Product(x * y, f, x * y \in Word)
NativeImul(x, y, f) ==
  LET exact == Signed(x) * Signed(y) IN
  Product(exact, f, exact \in (-Half)..(Half - 1))

(* the quotient and remainder of two words, the division fault excepted *)
NativeDiv(upper, lower, y) ==
  LET q == CHOOSE q \in Word : \E r \in 0..y - 1 : upper * Size + lower = q * y + r
  IN  <<q, upper * Size + lower - q * y>>

Bitwise(f, res) == Ends(res, [Seen(f, res) EXCEPT !.carry = FALSE, !.overflow = FALSE])
NativeAnd(x, y, f) == Bitwise(f, WordOf({i \in Places : Bit(x, i) = 1 /\ Bit(y, i) = 1}))
NativeOr(x, y, f) == Bitwise(f, WordOf({i \in Places : Bit(x, i) = 1 \/ Bit(y, i) = 1}))
NativeXor(x, y, f) == Bitwise(f, WordOf({i \in Places : Bit(x, i) # Bit(y, i)}))
NativeTest(x, y, f) == NativeAnd(x, y, f).flags

-----------------------------------------------------------------------------
(* Shifts by the masked count; a shift by nothing leaves the flags alone.  *)

Shifted(f, count, res, carry, over) ==
  IF count % Counts = 0 THEN Ends(res, f)
  ELSE Ends(res, [Seen(f, res) EXCEPT !.carry = carry, !.overflow = over])

NativeShl(x, count, f) ==
  LET exact == x * 2^(count % Counts) IN
  Shifted(f, count, Wrap(exact), Bit(exact, Width) = 1,
          Negative(Wrap(exact)) # (Bit(exact, Width) = 1))
NativeShr(x, count, f) ==
  LET n == count % Counts IN
  Shifted(f, count, x \div 2^n, n > 0 /\ Bit(x, n - 1) = 1, Negative(x))
NativeSar(x, count, f) ==
  LET n == count % Counts IN
  Shifted(f, count, Wrap(Signed(x) \div 2^n),
          n > 0 /\ (Signed(x) \div 2^(n - 1)) % 2 = 1, FALSE)

(* rotations of m bits by n places *)
Turned(x, m, n) == ((x * 2^n) % 2^m) + ((x * 2^n) \div 2^m)

Rotated(f, count, x, carry, over) ==
  IF count % Counts = 0 THEN Ends(x, f)
  ELSE Ends(x, [f EXCEPT !.carry = carry, !.overflow = over])

NativeRol(x, count, f) ==
  LET res == Turned(x, Width, (count % Counts) % Width)
      carry == Bit(res, 0) = 1
  IN  Rotated(f, count, res, carry, Negative(res) # carry)
NativeRor(x, count, f) ==
  LET res == Turned(x, Width, (Width - ((count % Counts) % Width)) % Width) IN
  Rotated(f, count, res, Negative(res), Negative(res) # (Bit(res, Width - 2) = 1))

(* the carry is the highest of the bits that turn *)
WithCarry(x, f) == x + Size * In(f)
NativeRcl(x, count, f) ==
  LET all == Turned(WithCarry(x, f), Width + 1, (count % Counts) % (Width + 1)) IN
  Rotated(f, count, all % Size, all >= Size, Negative(all % Size) # (all >= Size))
NativeRcr(x, count, f) ==
  LET all == Turned(WithCarry(x, f), Width + 1,
                    (Width + 1 - ((count % Counts) % (Width + 1))) % (Width + 1)) IN
  Rotated(f, count, all % Size, all >= Size, Negative(x) # f.carry)

-----------------------------------------------------------------------------
(* Bits and bytes.                                                         *)

(* the number of trailing zeros is the power of two that divides x *)
Trailing(x) == CHOOSE n \in Places : x % 2^n = 0 /\ (x \div 2^n) % 2 = 1
NativeTzcnt(x, f) ==
  LET res == IF x = 0 THEN Width ELSE Trailing(x) IN
  Ends(res, [f EXCEPT !.carry = (x = 0), !.zero = (x % 2 = 1)])

(* the results of bsr and bsf are undefined for 0 *)
NativeBsr(x, f) ==
  Ends(CHOOSE n \in Places : x = 0 \/ (2^n <= x /\ x < 2^(n + 1)), [f EXCEPT !.zero = (x = 0)])
NativeBsf(x, f) ==
  Ends(IF x = 0 THEN 0 ELSE Trailing(x), [f EXCEPT !.zero = (x = 0)])

NativePopcnt(x, f) ==
  Ends(Cardinality({i \in Places : Bit(x, i) = 1}),
       [carry |-> FALSE, zero |-> x = 0, sign |-> FALSE, overflow |-> FALSE,
        parity |-> FALSE])

Tested(x, index, f) == [f EXCEPT !.carry = (Bit(x, index % Width) = 1)]
NativeBt(x, index, f) == Tested(x, index, f)
NativeBtr(x, index, f) ==
  Ends(x - Bit(x, index % Width) * 2^(index % Width), Tested(x, index, f))
NativeBts(x, index, f) ==
  Ends(x + (1 - Bit(x, index % Width)) * 2^(index % Width), Tested(x, index, f))
NativeBtc(x, index, f) ==
  Ends(x + (1 - 2 * Bit(x, index % Width)) * 2^(index % Width), Tested(x, index, f))

(* the digits of x, in base 2^ByteBits, in the other order *)
NativeBswap(x) ==
  LET n == Width \div ByteBits
      digit(k) == (x \div 2^(ByteBits * k)) % 2^ByteBits
      sum[k \in 0..n] == IF k = 0 THEN 0 ELSE (sum[k - 1] * 2^ByteBits) + digit(k - 1)
  IN  sum[n]

(* The remainder of a polynomial over two elements, a set of exponents, by *)
(* the generator of crc32; a word has its highest coefficient in bit 0.    *)
Toggled(S, T) == (S \cup T) \ (S \cap T)
Remainder(generator) ==
  LET rest[T \in SUBSET (0..2 * Width - 1)] ==
        LET high == {e \in T : e >= Width}
            top == CHOOSE e \in high : \A g \in high : g <= e
        IN  IF high = {} THEN T
            ELSE rest[Toggled(T, {top - Width + g : g \in generator})]
  IN  rest
NativeCrc32(dst, src, bytes, poly) ==
  LET n == bytes * ByteBits
      generator == {Width} \cup {Width - 1 - i : i \in Bits(poly)}
      message == Toggled({Width - 1 - i + n : i \in Bits(dst)},
                         {n - 1 - i + Width : i \in {j \in Bits(src) : j < n}})
  IN  WordOf({Width - 1 - e : e \in Remainder(generator)[message]})
=============================================================================
