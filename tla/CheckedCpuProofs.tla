--------------------------- MODULE CheckedCpuProofs -------------------------
(* The integer instructions of the emulator are those of the processor for *)
(* words of every even width, where the run compares words of four bits.   *)
(* What recurses over the bits of a word (WordOf, the rings of rcl and     *)
(* rcr, the division of crc32) is known by its steps: a function that takes *)
(* them exists (Recursion), and what it computes is an invariant of them.  *)
EXTENDS CheckedCpuImpl, WordsProofs

-----------------------------------------------------------------------------
(* Sums.                                                                   *)

(* The flags of a sum are told by what does not fit.                       *)
LEMMA SameSum ==
  ASSUME NEW f, NEW exact, NEW signed, NEW carry, NEW over,
         carry = (exact \notin Word), over = (signed \notin (-Half)..(Half - 1))
  PROVE  Summed(f, exact, signed) =
           Of(Wrap(exact), [Marked(f, Wrap(exact)) EXCEPT !.carry = carry, !.overflow = over])
BY DEF Summed, Ends, Seen, Of, Marked

(* A sum of the words and a carry overflows when its sign is neither's.    *)
LEMMA SumOverflows ==
  ASSUME NEW x \in Word, NEW y \in Word, NEW c \in {0, 1}, NEW res,
         res = Wrap((x + y) + c)
  PROVE  (Signed(x) + Signed(y)) + c \notin (-Half)..(Half - 1)
           <=> \/ ~Negative(x) /\ ~Negative(y) /\ Negative(res)
               \/ Negative(x) /\ Negative(y) /\ ~Negative(res)
<1>1. /\ res \in Word
      /\ \/ res = (x + y) + c /\ (x + y) + c < 2 * Half
         \/ res = ((x + y) + c) - 2 * Half /\ (x + y) + c >= 2 * Half
  BY WordFacts, SumFacts
<1>2. /\ x \in Int /\ 0 <= x /\ x < 2 * Half /\ y \in Int /\ 0 <= y /\ y < 2 * Half
      /\ res \in Int /\ 0 <= res /\ res < 2 * Half /\ Half \in Int
  BY <1>1, WordFacts
<1>3. /\ Signed(x) = (IF x >= Half THEN x - 2 * Half ELSE x) /\ (Negative(x) <=> x >= Half)
      /\ Signed(y) = (IF y >= Half THEN y - 2 * Half ELSE y) /\ (Negative(y) <=> y >= Half)
      /\ Negative(res) <=> res >= Half
  BY <1>1, WordFacts
<1> QED BY <1>1, <1>2, <1>3

(* add: a carry is an operand above what is left above the other.        *)
LEMMA AddAgrees ==
  ASSUME NEW x \in Word, NEW y \in Word, NEW f
  PROVE  NativeAdd(x, y, f) = Add(x, y, f)
<1> DEFINE res == Wrap(x + y)
           carry == x > (Size - 1) - y
           over == \/ ~Negative(x) /\ ~Negative(y) /\ Negative(res)
                   \/ Negative(x) /\ Negative(y) /\ ~Negative(res)
<1>1. carry = (x + y \notin Word)
  BY WidthFacts
<1>2. over = (Signed(x) + Signed(y) \notin (-Half)..(Half - 1))
  <2>1. x + y = (x + y) + 0 /\ Signed(x) + Signed(y) = (Signed(x) + Signed(y)) + 0
    BY WordFacts
  <2>2. (Signed(x) + Signed(y)) + 0 \notin (-Half)..(Half - 1) <=> over
    BY <2>1, SumOverflows
  <2>3. over \in BOOLEAN
    OBVIOUS
  <2> HIDE DEF over
  <2> QED BY <2>1, <2>2, <2>3
<1> HIDE DEF carry, over
<1>3. Summed(f, x + y, Signed(x) + Signed(y)) =
        Of(res, [Marked(f, res) EXCEPT !.carry = carry, !.overflow = over])
  BY <1>1, <1>2 DEF Summed, Ends, Seen, Of, Marked
<1> QED BY <1>3 DEF NativeAdd, Add, carry, over

(* adc: the carry that comes in counts in the comparison.                *)
LEMMA AdcAgrees ==
  ASSUME NEW x \in Word, NEW y \in Word, NEW f
  PROVE  NativeAdc(x, y, f) = Adc(x, y, f)
<1> DEFINE c == Carried(f)
           exact == x + y + c
           res == Wrap(exact)
           carry == \/ c = 1 /\ y = Size - 1
                    \/ x > (Size - 1) - Wrap(y + c)
           over == \/ ~Negative(x) /\ ~Negative(y) /\ Negative(res)
                   \/ Negative(x) /\ Negative(y) /\ ~Negative(res)
<1>1. c \in {0, 1} /\ In(f) = c
  BY DEF Carried, In
<1> HIDE DEF c
<1>2. carry = (exact \notin Word)
  <2>1. \/ Wrap(y + c) = y + c /\ y + c < 2 * Half
        \/ Wrap(y + c) = 0 /\ y + c = 2 * Half
    BY <1>1, WordFacts, SumFacts
  <2>2. x \in Int /\ 0 <= x /\ x < 2 * Half /\ y \in Int /\ 0 <= y /\ y < 2 * Half
        /\ Half \in Int /\ Size = 2 * Half /\ Word = 0..2 * Half - 1
    BY WordFacts, WidthFacts
  <2>3. carry <=> x + y + c >= 2 * Half
    BY <1>1, <2>1, <2>2
  <2>4. exact \notin Word <=> x + y + c >= 2 * Half
    BY <1>1, <2>2
  <2>5. carry \in BOOLEAN
    OBVIOUS
  <2> HIDE DEF carry, exact
  <2> QED BY <2>3, <2>4, <2>5
<1>3. over = (Signed(x) + Signed(y) + c \notin (-Half)..(Half - 1))
  <2>1. Signed(x) + Signed(y) + c \notin (-Half)..(Half - 1) <=> over
    BY <1>1, SumOverflows
  <2>2. over \in BOOLEAN
    OBVIOUS
  <2> HIDE DEF over
  <2> QED BY <2>1, <2>2
<1> HIDE DEF carry, over, exact
<1>4. Summed(f, exact, Signed(x) + Signed(y) + c) =
        Of(res, [Marked(f, res) EXCEPT !.carry = carry, !.overflow = over])
  BY <1>2, <1>3 DEF Summed, Ends, Seen, Of, Marked
<1> QED BY <1>1, <1>4 DEF NativeAdc, Adc, carry, over, exact, c

(* A difference overflows when its sign is that of the subtrahend only.    *)
LEMMA DifferenceOverflows ==
  ASSUME NEW x \in Word, NEW y \in Word, NEW c \in {0, 1}, NEW res,
         res = Wrap((x - y) - c)
  PROVE  (Signed(x) - Signed(y)) - c \notin (-Half)..(Half - 1)
           <=> \/ ~Negative(x) /\ Negative(y) /\ Negative(res)
               \/ Negative(x) /\ ~Negative(y) /\ ~Negative(res)
<1>1. /\ res \in Word
      /\ \/ res = (x - y) - c /\ (x - y) - c >= 0
         \/ res = ((x - y) - c) + 2 * Half /\ (x - y) - c < 0
  BY WordFacts, SumFacts
<1>2. /\ x \in Int /\ 0 <= x /\ x < 2 * Half /\ y \in Int /\ 0 <= y /\ y < 2 * Half
      /\ res \in Int /\ 0 <= res /\ res < 2 * Half /\ Half \in Int
  BY <1>1, WordFacts
<1>3. /\ Signed(x) = (IF x >= Half THEN x - 2 * Half ELSE x) /\ (Negative(x) <=> x >= Half)
      /\ Signed(y) = (IF y >= Half THEN y - 2 * Half ELSE y) /\ (Negative(y) <=> y >= Half)
      /\ Negative(res) <=> res >= Half
  BY <1>1, WordFacts
<1> QED BY <1>1, <1>2, <1>3

(* sub: a borrow is a subtrahend above the minuend.                      *)
LEMMA SubAgrees ==
  ASSUME NEW x \in Word, NEW y \in Word, NEW f
  PROVE  NativeSub(x, y, f) = Sub(x, y, f)
<1> DEFINE res == Wrap(x - y)
           carry == x < y
           over == \/ ~Negative(x) /\ Negative(y) /\ Negative(res)
                   \/ Negative(x) /\ ~Negative(y) /\ ~Negative(res)
<1>1. carry = (x - y \notin Word)
  BY WidthFacts
<1>2. over = (Signed(x) - Signed(y) \notin (-Half)..(Half - 1))
  <2>1. x - y = (x - y) - 0 /\ Signed(x) - Signed(y) = (Signed(x) - Signed(y)) - 0
    BY WordFacts
  <2>2. (Signed(x) - Signed(y)) - 0 \notin (-Half)..(Half - 1) <=> over
    BY <2>1, DifferenceOverflows
  <2>3. over \in BOOLEAN
    OBVIOUS
  <2> HIDE DEF over
  <2> QED BY <2>1, <2>2, <2>3
<1> HIDE DEF carry, over
<1>3. Summed(f, x - y, Signed(x) - Signed(y)) =
        Of(res, [Marked(f, res) EXCEPT !.carry = carry, !.overflow = over])
  BY <1>1, <1>2 DEF Summed, Ends, Seen, Of, Marked
<1> QED BY <1>3 DEF NativeSub, Sub, carry, over

(* sbb: the borrow that comes in counts as well.                         *)
LEMMA SbbAgrees ==
  ASSUME NEW x \in Word, NEW y \in Word, NEW f
  PROVE  NativeSbb(x, y, f) = Sbb(x, y, f)
<1> DEFINE c == Carried(f)
           exact == x - y - c
           res == Wrap(x - Wrap(y + c))
           carry == (c = 1 /\ y = Size - 1) \/ x < Wrap(y + c)
           over == \/ ~Negative(x) /\ Negative(y) /\ Negative(res)
                   \/ Negative(x) /\ ~Negative(y) /\ ~Negative(res)
<1>1. c \in {0, 1} /\ In(f) = c
  BY DEF Carried, In
<1> HIDE DEF c
<1>2. \/ Wrap(y + c) = y + c /\ y + c < 2 * Half
      \/ Wrap(y + c) = 0 /\ y + c = 2 * Half
  BY <1>1, WordFacts, SumFacts
<1>3. carry = (exact \notin Word)
  BY <1>1, <1>2, WordFacts, WidthFacts
<1>4. res = Wrap(exact)
  <2>1. CASE Wrap(y + c) = y + c
    <3>1. x - Wrap(y + c) = exact
      BY <1>1, <2>1, WordFacts
    <3> QED BY <3>1
  <2>2. CASE Wrap(y + c) = 0 /\ y + c = 2 * Half
    <3>1. res = Wrap(x) /\ Wrap(x) = x
      BY <2>2, WordFacts, SumFacts
    <3>2. exact = x - 2 * Half /\ Wrap(x - 2 * Half) = x
      BY <1>1, <2>2, WordFacts, SumFacts
    <3> QED BY <3>1, <3>2
  <2> QED BY <1>2, <2>1, <2>2
<1>5. over = (Signed(x) - Signed(y) - c \notin (-Half)..(Half - 1))
  <2>1. Signed(x) - Signed(y) - c \notin (-Half)..(Half - 1) <=> over
    BY <1>1, <1>4, DifferenceOverflows
  <2>2. over \in BOOLEAN
    OBVIOUS
  <2> HIDE DEF over
  <2> QED BY <2>1, <2>2
<1> HIDE DEF carry, over, exact, res
<1>6. Summed(f, exact, Signed(x) - Signed(y) - c) =
        Of(res, [Marked(f, res) EXCEPT !.carry = carry, !.overflow = over])
  BY <1>3, <1>4, <1>5 DEF Summed, Ends, Seen, Of, Marked
<1> QED BY <1>1, <1>6 DEF NativeSbb, Sbb, carry, over, exact, res, c

(* neg is a difference from 0.                                           *)
LEMMA NegAgrees ==
  ASSUME NEW x \in Word, NEW f
  PROVE  NativeNeg(x, f) = Neg(x, f)
<1>1. 0 \in Word /\ Signed(0) = 0
  BY WidthFacts DEF Signed, Negative
<1>2. -x = 0 - x /\ -Signed(x) = Signed(0) - Signed(x)
  BY <1>1, WordFacts
<1>3. NativeNeg(x, f) = NativeSub(0, x, f)
  BY <1>2 DEF NativeNeg, NativeSub
<1> QED BY <1>1, <1>3, SubAgrees DEF Neg

(* Only the overflow of inc and dec is set by hand.                        *)
LEMMA KeptCarry ==
  ASSUME NEW f \in Flags, NEW exact, NEW signed, NEW over, over \in BOOLEAN,
         over = (signed \notin (-Half)..(Half - 1))
  PROVE  KeepsCarry(Summed(f, exact, signed), f) =
           Of(Wrap(exact), [Marked(f, Wrap(exact)) EXCEPT !.overflow = over])
<1> DEFINE carry == exact \notin Word
           z == Wrap(exact) = 0
           s == Negative(Wrap(exact))
           p == EvenBits(Wrap(exact))
           g == Marked(f, Wrap(exact))
<1>1. Summed(f, exact, signed) =
        Of(Wrap(exact), [g EXCEPT !.carry = carry, !.overflow = over])
  BY DEF Summed, Ends, Seen, Of, Marked
<1>2. f = [carry |-> f.carry, zero |-> f.zero, sign |-> f.sign,
           overflow |-> f.overflow, parity |-> f.parity]
  BY DEF Flags
<1>3. g = [f EXCEPT !.zero = z, !.sign = s, !.parity = p]
  BY DEF Marked
<1> HIDE DEF g, carry, z, s, p
<1>4. g = [carry |-> f.carry, zero |-> z, sign |-> s, overflow |-> f.overflow, parity |-> p]
  BY <1>2, <1>3
<1>5. [g EXCEPT !.carry = carry, !.overflow = over] =
        [carry |-> carry, zero |-> z, sign |-> s, overflow |-> over, parity |-> p]
  <2> DEFINE h == [g EXCEPT !.carry = carry]
  <2>1. h = [carry |-> carry, zero |-> z, sign |-> s, overflow |-> f.overflow, parity |-> p]
    BY <1>4
  <2>2. [g EXCEPT !.carry = carry, !.overflow = over] = [h EXCEPT !.overflow = over]
    OBVIOUS
  <2> HIDE DEF h
  <2>3. [h EXCEPT !.overflow = over] =
          [carry |-> carry, zero |-> z, sign |-> s, overflow |-> over, parity |-> p]
    BY <2>1
  <2> QED BY <2>2, <2>3
<1>6. [g EXCEPT !.overflow = over] =
        [carry |-> f.carry, zero |-> z, sign |-> s, overflow |-> over, parity |-> p]
  BY <1>4
<1>7. KeepsCarry(Summed(f, exact, signed), f) =
        Of(Wrap(exact), [[g EXCEPT !.carry = carry, !.overflow = over] EXCEPT !.carry = f.carry])
  BY <1>1 DEF KeepsCarry, Of
<1>8. [[g EXCEPT !.carry = carry, !.overflow = over] EXCEPT !.carry = f.carry] =
        [g EXCEPT !.overflow = over]
  BY <1>5, <1>6
<1> QED BY <1>7, <1>8 DEF g

(* inc and dec are a sum and a difference that keep the carry.           *)
LEMMA IncDecAgree ==
  ASSUME NEW x \in Word, NEW f \in Flags
  PROVE  NativeInc(x, f) = Inc(x, f) /\ NativeDec(x, f) = Dec(x, f)
<1>1. Signed(1) = 1 /\ 1 \in Word
  BY WidthFacts DEF Signed, Negative
<1>2. (x = Half - 1) = (Signed(x) + Signed(1) \notin (-Half)..(Half - 1))
  BY <1>1, WordFacts
<1>3. (x = Half) = (Signed(x) - Signed(1) \notin (-Half)..(Half - 1))
  BY <1>1, WordFacts
<1>4. NativeInc(x, f) = Of(Wrap(x + 1), [Marked(f, Wrap(x + 1)) EXCEPT !.overflow = (x = Half - 1)])
  BY <1>2, KeptCarry DEF NativeInc, NativeAdd
<1>5. NativeDec(x, f) = Of(Wrap(x - 1), [Marked(f, Wrap(x - 1)) EXCEPT !.overflow = (x = Half)])
  BY <1>3, KeptCarry DEF NativeDec, NativeSub
<1> QED BY <1>4, <1>5 DEF Inc, Dec

(* cmp and cmpxchg keep the flags of a difference.                       *)
LEMMA CmpAgrees ==
  ASSUME NEW x \in Word, NEW y \in Word, NEW f \in Flags
  PROVE  NativeCmp(x, y, f) = Cmp(x, y, f) /\ NativeCmpxchg(x, y, f) = Cmpxchg(x, y, f)
<1>1. NativeCmp(x, y, f) = Cmp(x, y, f)
  BY SubAgrees DEF NativeCmp, Cmp
<1>2. (Wrap(x - y) = 0) = (x = y)
  BY WordFacts, SumFacts
<1>3. Cmp(x, y, f) = [Cmp(x, y, f) EXCEPT !.zero = (x = y)]
  BY <1>2 DEF Cmp, Sub, Of, Marked, Flags
<1> QED BY <1>1, <1>3 DEF NativeCmpxchg, Cmpxchg

(* add, adc, sub, sbb, neg, inc, dec, cmp and cmpxchg of the emulator give *)
(* what the processor gives, in every flag, for every even width, all      *)
(* operands and all flags before them.                                     *)
THEOREM SumsAlwaysAgree == TypeOK => SumsAgree
BY AddAgrees, AdcAgrees, SubAgrees, SbbAgrees, NegAgrees, IncDecAgree, CmpAgrees
   DEF TypeOK, SumsAgree, Agree, SameFlags

-----------------------------------------------------------------------------
(* Products and quotients.                                                 *)

(* The flags of a product.                                                 *)
LEMMA FlagsOfProduct ==
  ASSUME NEW f \in Flags, NEW over
  PROVE  /\ [f EXCEPT !.carry = over, !.overflow = over].carry = over
         /\ [f EXCEPT !.carry = over, !.overflow = over].overflow = over
BY DEF Flags

SameProduct(native, emulated) ==
  /\ native.upper = emulated.upper /\ native.lower = emulated.lower
  /\ SameCarryOverflow(native.flags, emulated.flags)

(* A pair of the right words with the right overflow is the product.     *)
LEMMA SamePair ==
  ASSUME NEW f \in Flags, NEW exact, NEW fits, NEW over, over \in BOOLEAN, over <=> ~fits,
         NEW upper, upper = Wrap(exact \div Size), NEW lower, lower = Wrap(exact)
  PROVE  SameProduct(Product(exact, f, fits), Pair(upper, lower, f, over))
<1>1. Product(exact, f, fits) = Pair(upper, lower, f, ~fits)
  BY DEF Product, Pair
<1>2. (~fits) = over
  OBVIOUS
<1> QED BY <1>1, <1>2 DEF SameProduct, SameCarryOverflow

(* mul, with the operands multiplied as a wider word.                    *)
LEMMA MulAgrees ==
  ASSUME NEW x \in Word, NEW y \in Word, NEW f \in Flags
  PROVE  SameProduct(NativeMul(x, y, f), Mul(x, y, f))
<1>1. (x * y) \div Size # 0 <=> ~(x * y \in Word)
  BY UnsignedProduct
<1>2. (x * y) \div Size = Wrap((x * y) \div Size)
  BY UnsignedProduct
<1> QED BY <1>1, <1>2, SamePair DEF NativeMul, Mul

HalfWord == 2^(Width \div 2)

(* A word is two half words.                                             *)
LEMMA HalfWordFacts == HalfWord \in Nat /\ HalfWord >= 2 /\ HalfWord * HalfWord = Size
<1> DEFINE m == Width \div 2
<1>1. m \in Nat /\ m >= 1 /\ m + m = Width
  BY WidthFacts, WidthAssumption
<1> HIDE DEF m
<1>2. 2^(m + m) = 2^m * 2^m
  BY <1>1, PowersMultiply
<1>3. 2^m = 2 * 2^(m - 1) /\ 2^(m - 1) \in Nat \ {0}
  <2>1. m - 1 \in Nat /\ (m - 1) + 1 = m
    BY <1>1
  <2> QED BY <2>1, TwoPower
<1> QED BY <1>1, <1>2, <1>3, WidthAssumption DEF HalfWord, Size, m

(* The products of the halves of two words make the two words of the exact *)
(* product.                                                                *)
LEMMA HalvesMultiply ==
  ASSUME NEW x \in Word, NEW y \in Word, NEW f
  PROVE  /\ MulHalves(x, y, f) =
              Pair((x * y) \div Size, Wrap(x * y), f, (x * y) \div Size # 0)
<1> DEFINE h == HalfWord
           a == x \div h
           b == x % h
           c == y \div h
           d == y % h
           middle == Wrap(a * d + b * c)
           middleCarry == IF a * d > (Size - 1) - b * c THEN h ELSE 0
           lowerCarry == IF b * d > (Size - 1) - Wrap(middle * h) THEN 1 ELSE 0
           sum == a * c + middle \div h + middleCarry + lowerCarry
           upper == Wrap(sum)
           lower == Wrap(b * d + middle * h)
<1>0. MulHalves(x, y, f) = Pair(upper, lower, f, upper # 0)
  BY DEF MulHalves, HalfWord
<1>1. h \in Nat /\ h >= 2 /\ h * h = Size
  BY HalfWordFacts
<1>2. \A z \in Word : z \div h \in 0..h - 1 /\ z % h \in 0..h - 1 /\ z = (z \div h) * h + (z % h)
  <2> SUFFICES ASSUME NEW z \in Word
               PROVE  z \div h \in 0..h - 1 /\ z % h \in 0..h - 1 /\ z = (z \div h) * h + (z % h)
    OBVIOUS
  <2> HIDE DEF h
  <2>1. z \in Nat /\ z < h * h
    BY <1>1, WidthFacts
  <2> QED BY <1>1, <2>1
<1>3. /\ a \in 0..h - 1 /\ b \in 0..h - 1 /\ x = a * h + b
      /\ c \in 0..h - 1 /\ d \in 0..h - 1 /\ y = c * h + d
  BY <1>2
<1> HIDE DEF h, a, b, c, d
<1>4. /\ a * d \in Nat /\ b * c \in Nat /\ a * c \in Nat /\ b * d \in Nat
      /\ a * d <= (h - 1) * (h - 1) /\ b * c <= (h - 1) * (h - 1)
      /\ b * d <= (h - 1) * (h - 1)
      /\ (h - 1) * (h - 1) = (Size - 2 * h) + 1
  <2>1. h - 1 \in Nat
    BY <1>1
  <2>2. (h - 1) * (h - 1) = (h * h - 2 * h) + 1
    BY <1>1
  <2> QED BY <1>1, <1>3, <2>1, <2>2, BoundedProduct
(* the products of the middle, in one word and a carry *)
<1> DEFINE o == IF a * d > (Size - 1) - b * c THEN 1 ELSE 0
<1>5. /\ middle \in Word /\ o \in {0, 1} /\ a * d + b * c = middle + o * Size
      /\ middleCarry = o * h
  <2> DEFINE n == a * d + b * c
  <2>1. n \in Nat /\ n < 2 * Size
    BY <1>1, <1>4, WidthFacts
  <2>2. CASE n < Size
    <3>1. Wrap(n) = n
      BY <2>1, <2>2, OneWord
    <3>2. o = 0
      BY <1>4, <2>2, WidthFacts
    <3> QED BY <1>1, <1>4, <2>1, <2>2, <3>1, <3>2, WidthFacts
  <2>3. CASE n >= Size
    <3>1. Wrap(n) = n - Size
      BY <2>1, <2>3, OneWord
    <3>2. o = 1
      BY <1>4, <2>3, WidthFacts
    <3> QED BY <1>1, <1>4, <2>1, <2>3, <3>1, <3>2, WidthFacts
  <2> QED BY <2>1, <2>2, <2>3, WidthFacts
<1> HIDE DEF o, middle, middleCarry
(* the middle is cut in two *)
<1> DEFINE q == middle \div h
           r == middle % h
<1>6. q \in 0..h - 1 /\ r \in 0..h - 1 /\ middle = q * h + r
  BY <1>2, <1>5
<1> HIDE DEF q, r
<1>7. r * h \in Nat /\ r * h <= Size - h /\ middle * h = q * Size + r * h
  <2>1. r * h <= (h - 1) * h /\ (h - 1) * h = h * h - h
    BY <1>1, <1>6
  <2>2. (q * h + r) * h = q * (h * h) + r * h
    BY <1>1, <1>6
  <2> QED BY <1>1, <1>6, <2>1, <2>2
<1>8. Wrap(middle * h) = r * h
  <2>1. r * h \in Word
    BY <1>1, <1>7, WidthFacts
  <2> QED BY <1>6, <1>7, <2>1, WordsOf
(* the low words are added *)
<1>9. /\ lowerCarry \in {0, 1}
      /\ b * d + r * h - lowerCarry * Size \in Word
  <2>1. b * d + r * h < 2 * Size
    BY <1>1, <1>4, <1>7, WidthFacts
  <2>2. lowerCarry = IF b * d + r * h >= Size THEN 1 ELSE 0
    BY <1>4, <1>7, <1>8, WidthFacts
  <2> QED BY <1>4, <1>7, <2>1, <2>2, WidthFacts
<1> HIDE DEF lowerCarry
<1> DEFINE low == b * d + r * h - lowerCarry * Size
           up == ((a * c + q) + o * h) + lowerCarry
<1>10. up \in Int /\ low \in Word
  BY <1>1, <1>4, <1>5, <1>6, <1>9
<1>11. b * d + middle * h = (q + lowerCarry) * Size + low
  <2>1. (q + lowerCarry) * Size = q * Size + lowerCarry * Size
    BY <1>6, <1>9, WidthFacts
  <2>2. q * Size \in Int /\ lowerCarry * Size \in Int
    BY <1>6, <1>9, WidthFacts
  <2> QED BY <1>4, <1>7, <2>1, <2>2
<1>12. lower = low
  <2>1. q + lowerCarry \in Int
    BY <1>6, <1>9
  <2> QED BY <1>10, <1>11, <2>1, WordsOf
<1>13. x * y = up * Size + low
  <2>1. x * y = (a * c) * (h * h) + (a * d + b * c) * h + b * d
    BY <1>1, <1>3
  <2>2. (a * d + b * c) * h = middle * h + (o * h) * Size
    BY <1>1, <1>5, WidthFacts
  <2>3. x * y = (a * c) * Size + (middle * h + (o * h) * Size) + b * d
    BY <1>1, <2>1, <2>2
  <2>4. middle * h + b * d = (q + lowerCarry) * Size + low
    <3>1. middle * h \in Int /\ b * d \in Int
      BY <1>1, <1>4, <1>5, WidthFacts
    <3> HIDE DEF low
    <3> QED BY <1>11, <3>1
  <2>5. /\ a * c \in Int /\ q \in Int /\ o * h \in Int /\ lowerCarry \in Int /\ Size \in Int
        /\ middle * h \in Int /\ b * d \in Int
    BY <1>1, <1>4, <1>5, <1>6, <1>9, WidthFacts
  <2>6. up * Size = (((a * c) * Size + q * Size) + (o * h) * Size) + lowerCarry * Size
        /\ (q + lowerCarry) * Size = q * Size + lowerCarry * Size
    BY <2>5
  <2>7. /\ up * Size \in Int /\ (a * c) * Size \in Int /\ q * Size \in Int
        /\ (o * h) * Size \in Int /\ lowerCarry * Size \in Int
    BY <1>10, <2>5
  <2> HIDE DEF up, low
  <2> DEFINE e == x * y
             A == (a * c) * Size
             Q == q * Size
             O == (o * h) * Size
             L == lowerCarry * Size
             M == middle * h
             B == b * d
             U == up * Size
             K == (q + lowerCarry) * Size
  <2>8. low \in Int
    BY <1>10, WidthFacts
  <2> SUFFICES e = U + low
    OBVIOUS
  <2>9. e = A + (M + O) + B /\ M + B = K + low /\ U = ((A + Q) + O) + L /\ K = Q + L
    BY <2>3, <2>4, <2>6
  <2>10. A \in Int /\ Q \in Int /\ O \in Int /\ L \in Int /\ M \in Int /\ B \in Int
         /\ U \in Int /\ low \in Int
    BY <2>5, <2>7, <2>8
  <2> HIDE DEF e, A, Q, O, L, M, B, U, K
  <2> QED BY <2>9, <2>10
<1>14. (x * y) \div Size = up /\ Wrap(x * y) = low
  BY <1>10, <1>13, WordsOf
<1>15. sum = up
  BY <1>4, <1>5, <1>6, <1>9 DEF q
<1>16. upper = (x * y) \div Size
  BY <1>14, <1>15, UnsignedProduct
<1> HIDE DEF upper, lower, low, up, sum
<1> QED BY <1>0, <1>12, <1>14, <1>16

(* mul of u64, where there is no wider word.                             *)
LEMMA MulHalvesAgrees ==
  ASSUME NEW x \in Word, NEW y \in Word, NEW f \in Flags
  PROVE  SameProduct(NativeMul(x, y, f), MulHalves(x, y, f))
<1>1. MulHalves(x, y, f) = Mul(x, y, f)
  BY HalvesMultiply DEF Mul
<1> QED BY <1>1, MulAgrees

(* imul, with the operands extended to a wider word.                     *)
LEMMA ImulAgrees ==
  ASSUME NEW x \in Word, NEW y \in Word, NEW f \in Flags
  PROVE  SameProduct(NativeImul(x, y, f), Imul(x, y, f))
<1> DEFINE e == Signed(x) * Signed(y)
<1>1. e \in Int
  BY SignedFacts, WidthFacts
<1> HIDE DEF e
<1>2. e # Signed(Wrap(e)) <=> ~(e \in (-Half)..(Half - 1))
  BY <1>1, Fits
<1>3. SameProduct(Product(e, f, e \in (-Half)..(Half - 1)),
                  Pair(Wrap(e \div Size), Wrap(e), f, e # Signed(Wrap(e))))
  BY <1>2, SamePair
<1> QED BY <1>3 DEF NativeImul, Imul, e

(* the absolute value, as a word *)
Magnitude(z) == IF Negative(z) THEN Wrap(-z) ELSE z

(* It is at most the half, also for the least number.                    *)
LEMMA MagnitudeFacts ==
  ASSUME NEW z \in Word
  PROVE  /\ Magnitude(z) \in Word /\ Magnitude(z) \in 0..Half
         /\ Magnitude(z) = IF Signed(z) < 0 THEN -Signed(z) ELSE Signed(z)
<1>1. z \in Int /\ 0 <= z /\ z < 2 * Half /\ Half \in Int /\ Half >= 2
      /\ Signed(z) = (IF z >= Half THEN z - 2 * Half ELSE z) /\ (Negative(z) <=> z >= Half)
  BY WordFacts
<1>2. z >= Half => Wrap(-z) = (-z) + 2 * Half
  BY <1>1, SumFacts
<1> QED BY <1>1, <1>2, WidthFacts DEF Magnitude

(* The opposite of a number of two words.                                  *)
LEMMA Opposite ==
  ASSUME NEW u \in Word, NEW l \in Word, u < Half, NEW n, n = u * Size + l
  PROVE  /\ -n \in Int
         /\ (-n) \div Size = IF l = 0 THEN -u ELSE -u - 1
         /\ Wrap(-n) = Wrap(-l)
         /\ Wrap((-n) \div Size) = Wrap(Not(u) + IF l = 0 THEN 1 ELSE 0)
<1>0. u \in Int /\ 0 <= u /\ l \in Int /\ 0 <= l /\ l < Size /\ Size \in Int /\ Size = 2 * Half
      /\ Half \in Int /\ Half >= 2 /\ u * Size \in Int /\ n \in Int /\ 0 \in Word
  BY WidthFacts
<1>1. CASE l = 0
  <2>1. -n = (-u) * Size + 0
    BY <1>0, <1>1
  <2>2. (-n) \div Size = -u /\ Wrap(-n) = 0
    <3>1. -u \in Int /\ 0 \in Word
      BY <1>0
    <3> DEFINE v == -u
    <3>2. v \in Int /\ -n = v * Size + 0
      BY <2>1, <3>1
    <3> HIDE DEF v
    <3>3. (-n) \div Size = v /\ Wrap(-n) = 0
      BY <3>1, <3>2, WordsOf
    <3> QED BY <3>3 DEF v
  <2>3. Wrap(-l) = 0
    BY <1>0, <1>1, WidthFacts, WrapFacts
  <2>4. Wrap(-u) = Wrap(Size - u)
    <3>1. u = 0 => Wrap(-u) = 0 /\ Wrap(Size - u) = 0
      BY <1>0, SumFacts
    <3>2. u > 0 => Wrap(-u) = (-u) + 2 * Half /\ Wrap(Size - u) = Size - u
      BY <1>0, SumFacts
    <3> QED BY <1>0, <3>1, <3>2
  <2>5. Not(u) + 1 = Size - u
    BY <1>0 DEF Not
  <2> QED BY <1>0, <1>1, <2>2, <2>3, <2>4, <2>5
<1>2. CASE l # 0
  <2>1. -n = (-u - 1) * Size + (Size - l) /\ Size - l \in Word /\ -u - 1 \in Int
    <3>1. (-u - 1) * Size = -(u * Size) - Size
      BY <1>0
    <3> QED BY <1>0, <1>2, <3>1, WidthFacts
  <2>2. (-n) \div Size = -u - 1 /\ Wrap(-n) = Size - l
    BY <2>1, WordsOf
  <2>3. Wrap(-l) = Size - l
    BY <1>0, <1>2, SumFacts
  <2>4. Wrap(-u - 1) = Not(u) + 0 /\ Wrap(Not(u) + 0) = Not(u) + 0
    BY <1>0, SumFacts DEF Not
  <2> QED BY <1>0, <1>2, <2>2, <2>3, <2>4
<1> QED BY <1>1, <1>2

(* Whether one word would do is told by the two.                           *)
LEMMA OneWordDoes ==
  ASSUME NEW n \in Int, -Half <= n \div Size, n \div Size < Half
  PROVE  n \in (-Half)..(Half - 1)
           <=> ~ \/ Negative(Wrap(n)) /\ Wrap(n \div Size) # Size - 1
                 \/ ~Negative(Wrap(n)) /\ Wrap(n \div Size) # 0
<1> DEFINE u == n \div Size
           l == Wrap(n)
<1>1. u \in Int /\ l \in Word /\ n = u * Size + l
  BY TwoWords
<1>2. -Half <= u /\ u < Half
  OBVIOUS
<1> HIDE DEF u, l
<1>3. l \in Int /\ 0 <= l /\ l < 2 * Half /\ Half \in Int /\ Half >= 2 /\ Size = 2 * Half
      /\ (Negative(l) <=> l >= Half) /\ u * Size \in Int
  BY <1>1, WordFacts, WidthFacts
<1>4. /\ Wrap(u) = 0 <=> u = 0
      /\ Wrap(u) = Size - 1 <=> u = -1
  BY <1>1, <1>2, <1>3, SumFacts
<1>5. /\ u = 0 => n = l
      /\ u = -1 => n = l - Size
      /\ u >= 1 => n >= Size
      /\ u <= -2 => n < -Size
  <2>1. u >= 1 => u * Size >= Size
    BY <1>1, <1>3
  <2>2. u <= -2 => u * Size <= -2 * Size
    BY <1>1, <1>3
  <2> QED BY <1>1, <1>3, <2>1, <2>2
<1>6. n \in (-Half)..(Half - 1) <=> (u = 0 /\ l < Half) \/ (u = -1 /\ l >= Half)
  BY <1>1, <1>2, <1>3, <1>5
<1>7. ~ ((Negative(l) /\ Wrap(u) # Size - 1) \/ (~Negative(l) /\ Wrap(u) # 0))
        <=> (u = 0 /\ l < Half) \/ (u = -1 /\ l >= Half)
  BY <1>1, <1>3, <1>4
<1> QED BY <1>6, <1>7 DEF u, l

(* imul of u64: the product of the absolute values, negated at need.     *)
LEMMA ImulHalvesAgrees ==
  ASSUME NEW x \in Word, NEW y \in Word, NEW f \in Flags
  PROVE  SameProduct(NativeImul(x, y, f), ImulHalves(x, y, f))
<1> DEFINE e == Signed(x) * Signed(y)
           X == Magnitude(x)
           Y == Magnitude(y)
           p == MulHalves(X, Y, f)
           opposite == Negative(x) # Negative(y)
           upper == IF opposite THEN Wrap(Not(p.upper) + IF p.lower = 0 THEN 1 ELSE 0)
                    ELSE p.upper
           lower == IF opposite THEN Wrap(-p.lower) ELSE p.lower
           differs == \/ Negative(lower) /\ upper # Size - 1
                      \/ ~Negative(lower) /\ upper # 0
<1>1. ImulHalves(x, y, f) = IF x = 0 \/ y = 0 THEN Pair(0, 0, f, FALSE)
                            ELSE Pair(upper, lower, f, differs)
  BY DEF ImulHalves, Magnitude
<1>2. /\ Signed(x) \in Int /\ Signed(y) \in Int /\ X \in Word /\ Y \in Word
      /\ X = (IF Signed(x) < 0 THEN -Signed(x) ELSE Signed(x)) /\ X \in 0..Half
      /\ Y = (IF Signed(y) < 0 THEN -Signed(y) ELSE Signed(y)) /\ Y \in 0..Half
      /\ (Negative(x) <=> Signed(x) < 0) /\ (Negative(y) <=> Signed(y) < 0)
  <2>1. ASSUME NEW z \in Word
        PROVE  /\ Signed(z) \in Int /\ Magnitude(z) \in Word /\ Magnitude(z) \in 0..Half
               /\ Magnitude(z) = (IF Signed(z) < 0 THEN -Signed(z) ELSE Signed(z))
               /\ (Negative(z) <=> Signed(z) < 0)
    <3>1. Signed(z) \in (-Half)..(Half - 1) /\ (Negative(z) <=> Signed(z) < 0)
      BY SignedFacts
    <3>2. Signed(z) \in Int
      BY <3>1, WidthFacts
    <3> QED BY <3>1, <3>2, MagnitudeFacts
  <2> QED BY <2>1
<1>3. CASE x = 0 \/ y = 0
  <2>1. e = 0 /\ 0 \in Word
    BY <1>2, <1>3, WordFacts, WidthFacts
  <2>2. 0 \div Size = 0 /\ Wrap(0) = 0
    <3>1. 0 = 0 * Size + 0
      BY WidthFacts
    <3> QED BY <2>1, <3>1, WordsOf
  <2>3. SameProduct(Product(e, f, e \in (-Half)..(Half - 1)), Pair(0, 0, f, FALSE))
    <3>1. FALSE <=> ~(e \in (-Half)..(Half - 1))
      BY <2>1, WidthFacts
    <3> HIDE DEF e
    <3> QED BY <2>1, <2>2, <3>1, SamePair
  <2> QED BY <1>1, <1>3, <2>3 DEF NativeImul
<1>4. CASE x # 0 /\ y # 0
  <2> DEFINE m == X * Y
  <2>1. m \in Nat /\ m <= Half * Half /\ e = IF opposite THEN -m ELSE m
    <3>1. m \in Nat /\ m <= Half * Half
      BY <1>2, WidthFacts, BoundedProduct
    <3>2. e = IF (Signed(x) < 0) # (Signed(y) < 0) THEN -m ELSE m
      <4> DEFINE a == Signed(x)
                 b == Signed(y)
      <4>1. /\ a \in Int /\ b \in Int
            /\ X = (IF a < 0 THEN -a ELSE a) /\ Y = (IF b < 0 THEN -b ELSE b)
        <5> HIDE DEF X, Y
        <5> QED BY <1>2
      <4> HIDE DEF a, b, X, Y
      <4>2. /\ (-a) * b = -(a * b) /\ a * (-b) = -(a * b)
            /\ (-a) * (-b) = a * b /\ a * b \in Int
        BY <4>1
      <4>3. a * b = IF (a < 0) # (b < 0) THEN -(X * Y) ELSE X * Y
        BY <4>1, <4>2
      <4> QED BY <4>3 DEF a, b
    <3>3. opposite <=> (Signed(x) < 0) # (Signed(y) < 0)
      BY <1>2 DEF Negative
    <3> QED BY <3>1, <3>2, <3>3
  <2>2. p.upper = m \div Size /\ p.lower = Wrap(m)
    <3>1. p = Pair(m \div Size, Wrap(m), f, m \div Size # 0)
      BY <1>2, HalvesMultiply
    <3> HIDE DEF p, m
    <3> QED BY <3>1 DEF Pair
  <2>3. m \div Size \in Word /\ Wrap(m \div Size) = m \div Size
    BY <1>2, UnsignedProduct
  <2> HIDE DEF m, e, X, Y, p, opposite
  <2> DEFINE U == m \div Size
             L == Wrap(m)
  <2>4. U \in Word /\ L \in Word /\ m = U * Size + L /\ Wrap(U) = U /\ U \in Int /\ U >= 0
    <3>1. m \in Int
      BY <2>1
    <3>2. L \in Word /\ m = U * Size + L
      BY <3>1, TwoWords
    <3>3. U \in Word /\ Wrap(U) = U
      BY <2>3
    <3> HIDE DEF U, L
    <3> QED BY <3>2, <3>3, WidthFacts
  <2>5. m \div Size = U /\ Wrap(m) = L
    OBVIOUS
  <2> HIDE DEF U, L
  <2>6. 2 * U <= Half
    <3>1. U * Size <= Half * Half
      <4>1. U * Size \in Int /\ L \in Int /\ 0 <= L /\ m \in Int /\ Half * Half \in Int
        BY <2>1, <2>4, WidthFacts
      <4> QED BY <2>1, <2>4, <4>1
    <3>2. CASE 2 * U > Half
      <4>1. (2 * U) * Half > Half * Half
        BY <2>4, <3>2, WidthFacts
      <4>2. U * Size = (2 * U) * Half
        BY <2>4, WidthFacts
      <4> QED BY <3>1, <4>1, <4>2, <2>4, WidthFacts
    <3> QED BY <2>4, <3>2, WidthFacts
  <2>7. U < Half
    BY <2>4, <2>6, WidthFacts
  <2>8. /\ e \in Int /\ upper = Wrap(e \div Size) /\ lower = Wrap(e)
        /\ -Half <= e \div Size /\ e \div Size < Half
    <3>1. CASE opposite
      <4>1. /\ -m \in Int /\ (-m) \div Size = (IF L = 0 THEN -U ELSE -U - 1)
            /\ Wrap(-m) = Wrap(-L)
            /\ Wrap((-m) \div Size) = Wrap(Not(U) + IF L = 0 THEN 1 ELSE 0)
        BY <2>4, <2>7, Opposite
      <4> QED BY <2>1, <2>2, <2>4, <2>5, <2>7, <3>1, <4>1, WidthFacts
    <3>2. CASE ~opposite
      BY <2>1, <2>2, <2>4, <2>5, <2>7, <3>2, WidthFacts
    <3> QED BY <3>1, <3>2
  <2>9. differs <=> ~(e \in (-Half)..(Half - 1))
    <3> HIDE DEF upper, lower
    <3> QED BY <2>8, OneWordDoes
  <2>10. differs \in BOOLEAN
    OBVIOUS
  <2> HIDE DEF differs, upper, lower
  <2>11. SameProduct(Product(e, f, e \in (-Half)..(Half - 1)), Pair(upper, lower, f, differs))
    BY <2>8, <2>9, <2>10, SamePair
  <2> QED BY <1>1, <1>4, <2>11 DEF NativeImul, e
<1> QED BY <1>3, <1>4

(* div gives the one quotient with a remainder below the divisor.        *)
LEMMA DivAgrees ==
  ASSUME NEW upper \in Word, NEW lower \in Word, NEW y \in Word, Divides(upper, y)
  PROVE  /\ NativeDiv(upper, lower, y) = Div(upper, lower, y)
         /\ Div(upper, lower, y)[1] \in Word /\ Div(upper, lower, y)[2] \in Word
<1> DEFINE n == upper * Size + lower
           w == n \div y
<1>1. y \in Nat \ {0} /\ y < Size /\ n \in Nat /\ upper \in Nat /\ upper + 1 <= y
      /\ n < (upper + 1) * Size
  BY WidthFacts DEF Divides
<1>2. n < y * Size
  <2>1. (upper + 1) * Size <= y * Size
    BY <1>1, WidthFacts
  <2>2. (upper + 1) * Size \in Int /\ y * Size \in Int
    BY <1>1, WidthFacts
  <2> HIDE DEF n
  <2> QED BY <1>1, <2>1, <2>2
<1> HIDE DEF n
<1>3. w \in Nat /\ n % y \in 0..y - 1 /\ n = w * y + (n % y)
  BY <1>1
<1> HIDE DEF w
<1>4. w \in Word
  <2>1. CASE w >= Size
    <3>1. w * y >= Size * y
      BY <1>1, <1>3, <2>1, WidthFacts
    <3> QED BY <1>1, <1>2, <1>3, <3>1, WidthFacts
  <2> QED BY <1>3, <2>1, WidthFacts
<1>5. ASSUME NEW k \in Word, \E r \in 0..y - 1 : n = k * y + r
      PROVE  k = w
  <2>1. PICK r \in 0..y - 1 : n = k * y + r
    BY <1>5
  <2>2. k \in Int
    BY WidthFacts
  <2>3. n \div y = k
    BY <1>1, <2>1, <2>2, Parts
  <2> QED BY <2>3 DEF w
<1>6. \E r \in 0..y - 1 : n = w * y + r
  BY <1>3
<1>7. (CHOOSE q \in Word : \E r \in 0..y - 1 : upper * Size + lower = q * y + r) = w
  BY <1>4, <1>5, <1>6 DEF n
<1>8. NativeDiv(upper, lower, y) = <<w, upper * Size + lower - w * y>>
  BY <1>7 DEF NativeDiv
<1>9. upper * Size + lower - w * y = n % y
  <2>1. n - w * y = n % y
    BY <1>1, <1>3
  <2>2. upper * Size + lower - w * y = n - w * y
    <3>1. upper * Size \in Int /\ lower \in Int /\ w * y \in Int
      BY <1>1, <1>3, WidthFacts
    <3> QED BY <3>1 DEF n
  <2> QED BY <2>1, <2>2
<1>10. Div(upper, lower, y) = <<w, n % y>>
  BY DEF Div, n, w
<1>11. n % y \in Word
  BY <1>1, <1>3, WidthFacts
<1> QED BY <1>4, <1>8, <1>9, <1>10, <1>11

(* mul and imul of the emulator, also those that multiply halves of words, *)
(* and div give the exact product and quotient, with carry and overflow    *)
(* when one word would not do, for every even width and all operands.      *)
THEOREM ProductsAlwaysAgree == TypeOK => ProductsAgree
BY MulAgrees, MulHalvesAgrees, ImulAgrees, ImulHalvesAgrees, DivAgrees
   DEF TypeOK, ProductsAgree, SameProduct

-----------------------------------------------------------------------------
(* Shifts.                                                                 *)

SameShift(native, emulated, count) ==
  /\ native.res = emulated.res
  /\ SameFlagsShift(native.flags, emulated.flags, count)

LEMMA Unshifted ==
  ASSUME NEW f, NEW res, NEW count
  PROVE  SameShift(Ends(res, f), Of(res, f), count)
BY DEF SameShift, SameFlagsShift, Ends, Of

FlagsAfter(f, res, c, o) == [Seen(f, res) EXCEPT !.carry = c, !.overflow = o]

(* The overflow is compared after a shift by one only.                     *)
LEMMA ShiftedFlags ==
  ASSUME NEW f \in Flags, NEW res, NEW count, NEW c, NEW o, NEW p, count = 1 => o = p
  PROVE  SameShift(Ends(res, FlagsAfter(f, res, c, o)), Of(res, FlagsAfter(f, res, c, p)), count)
<1> DEFINE z == res = 0
           s == Negative(res)
           e == EvenBits(res)
           g == [f EXCEPT !.zero = z, !.sign = s, !.parity = e]
           a == [g EXCEPT !.carry = c, !.overflow = o]
           b == [g EXCEPT !.carry = c, !.overflow = p]
<1>1. FlagsAfter(f, res, c, o) = a /\ FlagsAfter(f, res, c, p) = b
  BY DEF Seen, FlagsAfter
<1>2. f = [carry |-> f.carry, zero |-> f.zero, sign |-> f.sign,
           overflow |-> f.overflow, parity |-> f.parity]
  BY DEF Flags
<1> HIDE DEF z, s, e
<1>8. g = [f EXCEPT !.zero = z, !.sign = s, !.parity = e]
  OBVIOUS
<1> HIDE DEF g
<1>3. g = [carry |-> f.carry, zero |-> z, sign |-> s, overflow |-> f.overflow, parity |-> e]
  BY <1>2, <1>8
<1>4. /\ a.carry = c /\ a.zero = z /\ a.sign = s /\ a.parity = e /\ a.overflow = o
      /\ b.carry = c /\ b.zero = z /\ b.sign = s /\ b.parity = e /\ b.overflow = p
  BY <1>3
<1> HIDE DEF a, b
<1>5. SameFlagsShift(a, b, count)
  BY <1>4 DEF SameFlagsShift
<1>6. Ends(res, a).res = res /\ Ends(res, a).flags = a /\ Of(res, b).res = res /\ Of(res, b).flags = b
  BY DEF Ends, Of
<1>7. SameShift(Ends(res, a), Of(res, b), count)
  BY <1>5, <1>6 DEF SameShift
<1> QED BY <1>1, <1>7

(* The counts of shifts and rotations.                                     *)
LEMMA CountFacts ==
  ASSUME NEW count \in Word
  PROVE  /\ count \in Nat /\ count % Counts \in Nat /\ Masked(count) = count % Counts
         /\ 0 \in Places /\ Width - 1 \in Places /\ Places = 0..Width - 1
BY WidthFacts, CountsAssumption DEF Masked, Places

(* shl: what goes out last is the bit above the word.                      *)
LEMMA ShlAgrees ==
  ASSUME NEW x \in Word, NEW count \in Word, NEW f \in Flags, count % Counts < Width
  PROVE  SameShift(NativeShl(x, count, f), Shl(x, count, f), count)
<1> DEFINE n == count % Counts
           exact == x * 2^n
           res == Wrap(exact)
<1>1. n \in Nat /\ Masked(count) = n /\ n < Width /\ x \in Nat /\ Width \in Nat
  BY CountFacts, WidthFacts
<1>2. NativeShl(x, count, f) = Shifted(f, count, res, Bit(exact, Width) = 1,
                                       Negative(res) # (Bit(exact, Width) = 1))
  BY DEF NativeShl
<1>3. Shl(x, count, f) =
        Of(res, IF n = 0 THEN f ELSE
           [Marked(f, res) EXCEPT !.carry = IsSet(x, Width - n),
              !.overflow = IF n = 1 THEN Exclusive(Negative(res), IsSet(x, Width - n)) ELSE @])
  BY <1>1 DEF Shl
<1>4. CASE n = 0
  <2>1. NativeShl(x, count, f) = Ends(res, f)
    BY <1>2, <1>4 DEF Shifted
  <2>2. Shl(x, count, f) = Of(res, f)
    BY <1>3, <1>4
  <2> HIDE DEF res
  <2> QED BY <2>1, <2>2, Unshifted
<1>5. CASE n # 0
  <2> DEFINE c == Bit(exact, Width) = 1
             over == Exclusive(Negative(res), c)
             p == IF n = 1 THEN over ELSE Marked(f, res).overflow
  <2>1. Width - n \in Places /\ Width - n \in Nat
    BY <1>1, <1>5 DEF Places
  <2>2. Bit(exact, Width) = Bit(x, Width - n)
    <3>1. 2^Width = 2^(Width - n) * 2^n /\ 2^n \in Nat \ {0} /\ 2^(Width - n) \in Nat \ {0}
      <4> HIDE DEF n
      <4> QED BY <1>1, PowerSplit
    <3>2. (x * 2^n) \div (2^(Width - n) * 2^n) = x \div 2^(Width - n)
      BY <1>1, <3>1, DivCancels
    <3> QED BY <3>1, <3>2 DEF Bit
  <2>3. IsSet(x, Width - n) = c
    BY <2>1, <2>2 DEF IsSet, Bits
  <2>4. NativeShl(x, count, f) = Ends(res, FlagsAfter(f, res, c, over))
    BY <1>2, <1>5 DEF Shifted, Exclusive, FlagsAfter
  <2>5. Shl(x, count, f) = Of(res, FlagsAfter(f, res, c, p))
    BY <1>3, <1>5, <2>3 DEF Marked, Seen, FlagsAfter
  <2>6. count = 1 => over = p
    <3>1. count = 1 => n = 0 \/ n = 1
      BY CountsAssumption
    <3> HIDE DEF n, over
    <3> QED BY <1>5, <3>1
  <2> HIDE DEF c, over, p, res
  <2> QED BY <2>4, <2>5, <2>6, ShiftedFlags
<1> QED BY <1>4, <1>5

(* shr: the carry is the highest of the bits that go out.                  *)
LEMMA ShrAgrees ==
  ASSUME NEW x \in Word, NEW count \in Word, NEW f \in Flags, count % Counts < Width
  PROVE  SameShift(NativeShr(x, count, f), Shr(x, count, f), count)
<1> DEFINE n == count % Counts
           res == x \div 2^n
<1>1. n \in Nat /\ Masked(count) = n /\ n < Width /\ Width \in Nat
  BY CountFacts, WidthFacts
<1>2. NativeShr(x, count, f) = Shifted(f, count, res, n > 0 /\ Bit(x, n - 1) = 1, Negative(x))
  BY DEF NativeShr
<1>3. Shr(x, count, f) =
        Of(res, IF n = 0 THEN f ELSE
           [Marked(f, res) EXCEPT !.carry = IsSet(x, n - 1),
              !.overflow = IF n = 1 THEN Negative(x) ELSE @])
  BY <1>1 DEF Shr
<1>4. CASE n = 0
  <2>1. NativeShr(x, count, f) = Ends(res, f)
    BY <1>2, <1>4 DEF Shifted
  <2>2. Shr(x, count, f) = Of(res, f)
    BY <1>3, <1>4
  <2> HIDE DEF res
  <2> QED BY <2>1, <2>2, Unshifted
<1>5. CASE n # 0
  <2> DEFINE c == n > 0 /\ Bit(x, n - 1) = 1
             over == Negative(x)
             p == IF n = 1 THEN over ELSE Marked(f, res).overflow
  <2>1. IsSet(x, n - 1) = c
    <3>1. n - 1 \in Places /\ n > 0
      BY <1>1, <1>5 DEF Places
    <3> QED BY <3>1 DEF IsSet, Bits
  <2>2. NativeShr(x, count, f) = Ends(res, FlagsAfter(f, res, c, over))
    BY <1>2, <1>5 DEF Shifted, FlagsAfter
  <2>3. Shr(x, count, f) = Of(res, FlagsAfter(f, res, c, p))
    BY <1>3, <1>5, <2>1 DEF Marked, Seen, FlagsAfter
  <2>4. count = 1 => over = p
    <3>1. count = 1 => n = 0 \/ n = 1
      BY CountsAssumption
    <3> HIDE DEF n, over
    <3> QED BY <1>5, <3>1
  <2> HIDE DEF c, over, p, res
  <2> QED BY <2>2, <2>3, <2>4, ShiftedFlags
<1> QED BY <1>4, <1>5

(* sar: the sign goes in, so the carry is a bit of the word as before.     *)
LEMMA SarAgrees ==
  ASSUME NEW x \in Word, NEW count \in Word, NEW f \in Flags, count % Counts < Width
  PROVE  SameShift(NativeSar(x, count, f), Sar(x, count, f), count)
<1> DEFINE n == count % Counts
           res == Wrap(Signed(x) \div 2^n)
<1>1. n \in Nat /\ Masked(count) = n /\ n < Width /\ Width \in Nat
  BY CountFacts, WidthFacts
<1>2. NativeSar(x, count, f) =
        Shifted(f, count, res, n > 0 /\ (Signed(x) \div 2^(n - 1)) % 2 = 1, FALSE)
  BY DEF NativeSar
<1>3. Sar(x, count, f) =
        Of(res, IF n = 0 THEN f ELSE
           [Marked(f, res) EXCEPT !.carry = IsSet(x, n - 1),
              !.overflow = IF n = 1 THEN FALSE ELSE @])
  BY <1>1 DEF Sar
<1>4. CASE n = 0
  <2>1. NativeSar(x, count, f) = Ends(res, f)
    BY <1>2, <1>4 DEF Shifted
  <2>2. Sar(x, count, f) = Of(res, f)
    BY <1>3, <1>4
  <2> HIDE DEF res
  <2> QED BY <2>1, <2>2, Unshifted
<1>5. CASE n # 0
  <2> DEFINE c == n > 0 /\ (Signed(x) \div 2^(n - 1)) % 2 = 1
             p == IF n = 1 THEN FALSE ELSE Marked(f, res).overflow
  <2>1. IsSet(x, n - 1) = c
    <3>1. n - 1 \in Places /\ n > 0
      BY <1>1, <1>5 DEF Places
    <3>2. (Signed(x) \div 2^(n - 1)) % 2 = Bit(x, n - 1)
      BY <3>1, SignedBit
    <3> QED BY <3>1, <3>2 DEF IsSet, Bits
  <2>2. NativeSar(x, count, f) = Ends(res, FlagsAfter(f, res, c, FALSE))
    BY <1>2, <1>5 DEF Shifted, FlagsAfter
  <2>3. Sar(x, count, f) = Of(res, FlagsAfter(f, res, c, p))
    BY <1>3, <1>5, <2>1 DEF Marked, Seen, FlagsAfter
  <2>4. count = 1 => FALSE = p
    <3>1. count = 1 => n = 0 \/ n = 1
      BY CountsAssumption
    <3> HIDE DEF n
    <3> QED BY <1>5, <3>1
  <2> HIDE DEF c, p, res
  <2> QED BY <2>2, <2>3, <2>4, ShiftedFlags
<1> QED BY <1>4, <1>5

(* shl, shr and sar of the emulator give what the processor gives, for     *)
(* every width, all operands and flags, in every flag that is compared.    *)
THEOREM ShiftsAlwaysAgree == TypeOK => ShiftsAgree
<1> SUFFICES ASSUME TypeOK, ShiftCount PROVE ShiftsAgree
  BY DEF ShiftsAgree
<1>1. dst \in Word /\ src \in Word /\ flags \in Flags /\ src % Counts < Width
  BY DEF TypeOK, ShiftCount
<1>2. /\ SameShift(NativeShl(dst, src, flags), Shl(dst, src, flags), src)
      /\ SameShift(NativeShr(dst, src, flags), Shr(dst, src, flags), src)
      /\ SameShift(NativeSar(dst, src, flags), Sar(dst, src, flags), src)
  BY <1>1, ShlAgrees, ShrAgrees, SarAgrees
<1> QED BY <1>2 DEF ShiftsAgree, AgreeBy, SameShift

-----------------------------------------------------------------------------
(* Logic and single bits.                                                  *)

(* The logical instructions set the flags in another order.                *)
LEMMA LogicFlags ==
  ASSUME NEW f \in Flags, NEW res
  PROVE  Bitwise(f, res) = Of(res, Logic(f, res))
<1> DEFINE z == res = 0
           s == Negative(res)
           e == EvenBits(res)
           g == [f EXCEPT !.zero = z, !.sign = s, !.parity = e]
           a == [g EXCEPT !.carry = FALSE, !.overflow = FALSE]
           b == [g EXCEPT !.overflow = FALSE, !.carry = FALSE]
<1>1. Bitwise(f, res) = Ends(res, a) /\ Of(res, Logic(f, res)) = Of(res, b)
  BY DEF Bitwise, Seen, Logic, Marked
<1>2. f = [carry |-> f.carry, zero |-> f.zero, sign |-> f.sign,
           overflow |-> f.overflow, parity |-> f.parity]
  BY DEF Flags
<1> HIDE DEF z, s, e
<1>3. g = [f EXCEPT !.zero = z, !.sign = s, !.parity = e]
  OBVIOUS
<1> HIDE DEF g
<1>4. g = [carry |-> f.carry, zero |-> z, sign |-> s, overflow |-> f.overflow, parity |-> e]
  BY <1>2, <1>3
<1>5. a = b
  BY <1>4
<1> HIDE DEF a, b
<1> QED BY <1>1, <1>5 DEF Ends, Of

LEMMA AllLogicAgrees ==
  ASSUME NEW x \in Word, NEW y \in Word, NEW f \in Flags
  PROVE  /\ NativeAnd(x, y, f) = And_(x, y, f)
         /\ NativeOr(x, y, f) = Or_(x, y, f)
         /\ NativeXor(x, y, f) = Xor_(x, y, f)
         /\ NativeTest(x, y, f) = Test(x, y, f)
<1>1. /\ {i \in Places : Bit(x, i) = 1 /\ Bit(y, i) = 1} = Bits(x) \cap Bits(y)
      /\ {i \in Places : Bit(x, i) = 1 \/ Bit(y, i) = 1} = Bits(x) \cup Bits(y)
  BY DEF Bits
<1>2. {i \in Places : Bit(x, i) # Bit(y, i)} = (Bits(x) \cup Bits(y)) \ (Bits(x) \cap Bits(y))
  <2>1. \A i \in Places : Bit(x, i) \in {0, 1} /\ Bit(y, i) \in {0, 1}
    BY WordBits
  <2> QED BY <2>1 DEF Bits
<1>3. /\ NativeAnd(x, y, f) = Bitwise(f, And(x, y))
      /\ NativeOr(x, y, f) = Bitwise(f, Or(x, y))
      /\ NativeXor(x, y, f) = Bitwise(f, Xor(x, y))
  BY <1>1, <1>2 DEF NativeAnd, NativeOr, NativeXor, And, Or, Xor
<1>4. /\ NativeAnd(x, y, f) = Of(And(x, y), Logic(f, And(x, y)))
      /\ NativeOr(x, y, f) = Of(Or(x, y), Logic(f, Or(x, y)))
      /\ NativeXor(x, y, f) = Of(Xor(x, y), Logic(f, Xor(x, y)))
  BY <1>3, LogicFlags
<1>5. NativeTest(x, y, f) = Test(x, y, f)
  BY <1>4 DEF NativeTest, Test, Of
<1> QED BY <1>4, <1>5 DEF And_, Or_, Xor_

(* and, or, xor and test of the emulator are those of the processor.       *)
THEOREM LogicAlwaysAgrees == TypeOK => LogicAgrees
<1> SUFFICES ASSUME TypeOK PROVE LogicAgrees
  OBVIOUS
<1>1. dst \in Word /\ src \in Word /\ flags \in Flags
  BY DEF TypeOK
<1>2. /\ NativeAnd(dst, src, flags) = And_(dst, src, flags)
      /\ NativeOr(dst, src, flags) = Or_(dst, src, flags)
      /\ NativeXor(dst, src, flags) = Xor_(dst, src, flags)
      /\ NativeTest(dst, src, flags) = Test(dst, src, flags)
  BY <1>1, AllLogicAgrees
<1> QED BY <1>2 DEF LogicAgrees, Agree, SameFlags

(* bt, btr, bts and btc of the emulator are those of the processor.        *)
THEOREM PlacesAlwaysAgree == TypeOK => PlacesAgree
<1> SUFFICES ASSUME TypeOK PROVE PlacesAgree
  OBVIOUS
<1> DEFINE k == src % Width
<1>1. dst \in Word /\ k \in Places
  BY WidthFacts DEF TypeOK, Places
<1>2. Tested(dst, src, flags) = Bt(dst, src, flags)
  <2>1. (Bit(dst, k) = 1) = IsSet(dst, k)
    BY <1>1 DEF IsSet, Bits
  <2> HIDE DEF k
  <2>2. [flags EXCEPT !.carry = (Bit(dst, k) = 1)] = [flags EXCEPT !.carry = IsSet(dst, k)]
    BY <2>1
  <2> QED BY <2>2 DEF Tested, Bt, k
<1>3. NativeBt(dst, src, flags) = Bt(dst, src, flags)
  BY <1>2 DEF NativeBt
<1>4. /\ NativeBtr(dst, src, flags) = Btr(dst, src, flags)
      /\ NativeBts(dst, src, flags) = Bts(dst, src, flags)
      /\ NativeBtc(dst, src, flags) = Btc(dst, src, flags)
  <2> HIDE DEF k
  <2>1. /\ dst - Bit(dst, k) * 2^k = And(dst, Not(2^k))
        /\ dst + (1 - Bit(dst, k)) * 2^k = Or(And(dst, Not(2^k)), 2^k)
        /\ dst + (1 - 2 * Bit(dst, k)) * 2^k = Or(And(dst, Not(2^k)), And(Not(dst), 2^k))
    BY <1>1, PlaceFacts
  <2> QED BY <1>2, <2>1 DEF NativeBtr, NativeBts, NativeBtc, Btr, Bts, Btc, Ends, Of, k
<1> QED BY <1>3, <1>4 DEF PlacesAgree, Agree, SameCarry

-----------------------------------------------------------------------------
(* Scans.                                                                  *)

(* Below its lowest bit a word is nothing.                                 *)
LEMMA NothingBelow ==
  ASSUME NEW x \in Word, NEW m \in Places
  PROVE  (\A j \in Bits(x) : m <= j) <=> x % 2^m = 0
<1>1. m \in Nat /\ x \in Nat /\ Places = 0..Width - 1 /\ Width \in Nat /\ m < Width
  BY WidthFacts DEF Places
<1>2. ASSUME \A j \in Bits(x) : m <= j PROVE x % 2^m = 0
  <2> DEFINE T == {k \in 0..m : x % 2^k = 0}
  <2>1. 0 \in T
    <3>1. 2^0 = 1 /\ x % 1 = 0
      BY <1>1, TwoPower
    <3> QED BY <1>1, <3>1
  <2>2. ASSUME NEW k \in 0..m - 1, k \in T PROVE k + 1 \in T
    <3>1. k \in Places /\ k \in Nat /\ k + 1 \in 0..m /\ ~(m <= k)
      BY <1>1
    <3>2. Bit(x, k) = 0
      BY <1>2, <3>1, WordBits
    <3>3. x % 2^(k + 1) = Bit(x, k) * 2^k + (x % 2^k)
      BY <1>1, <3>1, OneBitMore
    <3>4. x % 2^k = 0 /\ 2^k \in Nat
      BY <2>2, <3>1, TwoPower
    <3> QED BY <3>1, <3>2, <3>3, <3>4
  <2>3. \A k \in 0..m : k \in T
    <3> HIDE DEF T
    <3> QED BY <1>1, <2>1, <2>2, UpTo
  <2> QED BY <1>1, <2>3
<1>3. ASSUME x % 2^m = 0, NEW j \in Bits(x), ~(m <= j) PROVE FALSE
  <2>1. j \in Places /\ j \in Nat /\ j < m /\ Bit(x, j) = 1
    BY <1>1, <1>3 DEF Bits
  <2> DEFINE u == x \div 2^m
             z == 0
  <2>2. u \in Nat /\ Joins(x, u, m, z) /\ z \in Nat
    <3> DEFINE p == 2^m
    <3>1. p \in Nat \ {0}
      BY <1>1, TwoPower
    <3>2. x % p = 0
      BY <1>3
    <3> HIDE DEF p
    <3>3. x \div p \in Nat /\ x = (x \div p) * p + z
      BY <1>1, <3>1, <3>2, Dividing
    <3> QED BY <3>3 DEF Joins, p
  <2> HIDE DEF u, z
  <2>3. Bit(x, j) = Bit(z, j)
    BY <1>1, <2>1, <2>2, LowBit
  <2>4. Bit(z, j) = 0
    BY <2>1, ZeroBits DEF z
  <2> QED BY <2>1, <2>3, <2>4
<1> QED BY <1>2, <1>3

LEMMA LowestFacts ==
  ASSUME NEW P, P \subseteq Nat, P # {}
  PROVE  /\ Lowest(P) \in P /\ \A j \in P : Lowest(P) <= j
         /\ \A i \in P : (\A j \in P : i <= j) => i = Lowest(P)
<1>1. \E i \in P : \A j \in P : i <= j
  BY Least
<1>2. Lowest(P) \in P /\ \A j \in P : Lowest(P) <= j
  BY <1>1 DEF Lowest
<1>3. ASSUME NEW i \in P, \A j \in P : i <= j PROVE i = Lowest(P)
  <2>1. i <= Lowest(P) /\ Lowest(P) <= i /\ i \in Nat /\ Lowest(P) \in Nat
    BY <1>2, <1>3
  <2> QED BY <2>1
<1> QED BY <1>2, <1>3

(* The power of two that divides a word is that of its lowest bit.         *)
LEMMA TrailingIsLowest ==
  ASSUME NEW x \in Word, x # 0
  PROVE  Trailing(x) = Lowest(Bits(x)) /\ Trailing(x) \in Bits(x)
<1>1. Bits(x) # {} /\ Bits(x) \subseteq Nat /\ Bits(x) \subseteq Places
  BY SomeBit
<1> DEFINE m == Lowest(Bits(x))
           good(n) == x % 2^n = 0 /\ (x \div 2^n) % 2 = 1
<1>2. m \in Bits(x) /\ \A j \in Bits(x) : m <= j
  BY <1>1, LowestFacts
<1>3. \A n \in Places : good(n) <=> n \in Bits(x) /\ \A j \in Bits(x) : n <= j
  <2> SUFFICES ASSUME NEW n \in Places
               PROVE  good(n) <=> n \in Bits(x) /\ \A j \in Bits(x) : n <= j
    OBVIOUS
  <2>1. (x \div 2^n) % 2 = 1 <=> n \in Bits(x)
    BY DEF Bits, Bit
  <2>2. x % 2^n = 0 <=> \A j \in Bits(x) : n <= j
    BY NothingBelow
  <2> QED BY <2>1, <2>2
<1>4. Trailing(x) = CHOOSE n \in Places : good(n)
  BY DEF Trailing
<1> HIDE DEF good, m
<1>5. m \in Places /\ good(m)
  BY <1>1, <1>2, <1>3
<1>6. Trailing(x) \in Places /\ good(Trailing(x))
  BY <1>4, <1>5
<1>7. Trailing(x) \in Bits(x) /\ \A j \in Bits(x) : Trailing(x) <= j
  BY <1>3, <1>6
<1>8. Trailing(x) = m
  BY <1>1, <1>7, LowestFacts DEF m
<1> QED BY <1>7, <1>8 DEF m

(* Above its highest bit a word is nothing.                                *)
LEMMA NothingAbove ==
  ASSUME NEW x \in Word, NEW m \in Bits(x), \A j \in Bits(x) : j <= m
  PROVE  2^m <= x /\ x < 2^(m + 1)
<1>1. m \in Places /\ m \in Nat /\ x \in Nat /\ Places = 0..Width - 1 /\ Width \in Nat
      /\ m + 1 \in Nat /\ Bit(x, m) = 1
  BY WidthFacts DEF Places, Bits
<1>2. 2^m <= x
  <2> DEFINE p == 2^m
             q == x \div p
  <2>1. p \in Nat \ {0} /\ q % 2 = 1
    BY <1>1, TwoPower DEF Bit
  <2> HIDE DEF p
  <2>2. q \in Nat /\ x % p \in Nat /\ x = q * p + (x % p)
    BY <1>1, <2>1, Dividing
  <2> HIDE DEF q
  <2>3. q >= 1
    BY <2>1, <2>2
  <2>4. q * p >= p
    BY <2>1, <2>2, <2>3
  <2> QED BY <2>1, <2>2, <2>4 DEF p
<1> DEFINE n == Width - (m + 1)
           r == x % 2^(m + 1)
           T == {k \in 0..n : x % 2^(m + 1 + k) = r}
<1>3. n \in Nat /\ m + 1 + n = Width
  BY <1>1
<1>4. 0 \in T
  BY <1>1, <1>3
<1>5. ASSUME NEW k \in 0..n - 1, k \in T PROVE k + 1 \in T
  <2> DEFINE i == m + 1 + k
  <2>1. i \in Places /\ i \in Nat /\ k + 1 \in 0..n /\ ~(i <= m) /\ m + 1 + (k + 1) = i + 1
    BY <1>1, <1>3
  <2>2. x % 2^i = r
    BY <1>5
  <2> HIDE DEF i, r
  <2>3. Bit(x, i) = 0
    BY <2>1, WordBits
  <2>4. x % 2^(i + 1) = Bit(x, i) * 2^i + (x % 2^i)
    BY <1>1, <2>1, OneBitMore
  <2>5. 2^i \in Nat /\ x % 2^i \in Int
    BY <1>1, <2>1, TwoPower
  <2>6. x % 2^(i + 1) = r
    BY <2>2, <2>3, <2>4, <2>5
  <2> QED BY <2>1, <2>6
<1>6. n \in T
  <2> HIDE DEF T, n
  <2>1. \A k \in 0..n : k \in T
    BY <1>3, <1>4, <1>5, UpTo
  <2> QED BY <1>3, <2>1
<1>7. x % 2^Width = r
  BY <1>3, <1>6
<1>8. x % 2^Width = x
  <2> DEFINE s == Size
  <2>1. s \in Nat /\ x \in Nat /\ x < s
    BY WidthFacts
  <2> HIDE DEF s
  <2>2. x % s = x
    BY <2>1
  <2> QED BY <2>2, WordPower DEF s
<1>9. r \in 0..2^(m + 1) - 1
  BY <1>1, OneBitMore
<1>10. 2^(m + 1) \in Nat
  BY <1>1, TwoPower
<1> QED BY <1>2, <1>7, <1>8, <1>9, <1>10

(* A number is between one pair of powers only.                            *)
LEMMA BetweenPowers ==
  ASSUME NEW x \in Nat, NEW m \in Nat, NEW n \in Nat,
         2^m <= x, x < 2^(m + 1), 2^n <= x, x < 2^(n + 1)
  PROVE  m = n
<1>1. ASSUME NEW i \in Nat, NEW j \in Nat, 2^j <= x, x < 2^(i + 1), i < j PROVE FALSE
  <2>1. i + 1 \in Nat /\ i + 1 <= j
    BY <1>1
  <2>2. 2^(i + 1) <= 2^j
    <3>1. CASE i + 1 = j
      BY <2>1, <3>1, TwoPower
    <3>2. CASE i + 1 < j
      <4> DEFINE k == i + 1
      <4>1. k \in Nat /\ k < j /\ k <= j
        BY <2>1, <3>2
      <4> HIDE DEF k
      <4>2. 2^k < 2^j /\ 2^k \in Nat /\ 2^j \in Nat
        BY <4>1, PowerSplit
      <4> QED BY <4>2 DEF k
    <3> QED BY <2>1, <3>1, <3>2
  <2>3. 2^(i + 1) \in Nat /\ 2^j \in Nat
    BY <2>1, TwoPower
  <2> QED BY <1>1, <2>2, <2>3
<1> QED BY <1>1

LEMMA BsrIsHighest ==
  ASSUME NEW x \in Word, x # 0
  PROVE  /\ Highest(Bits(x)) \in Bits(x)
         /\ (CHOOSE n \in Places : x = 0 \/ (2^n <= x /\ x < 2^(n + 1))) = Highest(Bits(x))
<1>1. Bits(x) # {} /\ Bits(x) \subseteq Nat /\ Bits(x) \subseteq Places /\ Width \in Nat
      /\ Places = 0..Width - 1 /\ x \in Nat
  BY SomeBit, WidthFacts DEF Places
<1> DEFINE m == Highest(Bits(x))
           good(n) == x = 0 \/ (2^n <= x /\ x < 2^(n + 1))
           least == CHOOSE n \in Places : good(n)
<1>2. m \in Bits(x) /\ \A j \in Bits(x) : j <= m
  <2> DEFINE Q == {Width - i : i \in Bits(x)}
  <2>1. Q \subseteq Nat /\ Q # {}
    BY <1>1
  <2>2. PICK q \in Q : \A j \in Q : q <= j
    <3> HIDE DEF Q
    <3> QED BY <2>1, Least
  <2>3. PICK i \in Bits(x) : q = Width - i
    BY <2>2
  <2>4. ASSUME NEW j \in Bits(x) PROVE j <= i
    <3>1. Width - i <= Width - j
      BY <2>2, <2>3
    <3> QED BY <1>1, <3>1
  <2> QED BY <2>3, <2>4 DEF Highest
<1> HIDE DEF m
<1>3. m \in Places /\ m \in Nat /\ 2^m <= x /\ x < 2^(m + 1)
  BY <1>1, <1>2, NothingAbove
<1>4. good(m) /\ m \in Places
  BY <1>3
<1>5. least \in Places /\ good(least)
  <2> HIDE DEF good
  <2> QED BY <1>4
<1> HIDE DEF least
<1>6. least \in Nat /\ 2^least <= x /\ x < 2^(least + 1)
  BY <1>1, <1>5
<1>7. least = m
  BY <1>1, <1>3, <1>6, BetweenPowers
<1> QED BY <1>2, <1>7 DEF least, m

LEMMA TzcntAgrees ==
  ASSUME NEW x \in Word, NEW f \in Flags
  PROVE  Agree(NativeTzcnt(x, f), Tzcnt(x, f), SameCarryZero)
<1> DEFINE a == IF x = 0 THEN Width ELSE Trailing(x)
           b == Lowest(Bits(x) \cup {Width})
           v == [f EXCEPT !.carry = (x = 0), !.zero = (x % 2 = 1)]
           w == [f EXCEPT !.carry = (b = Width), !.zero = (b = 0)]
<1>0. Width \in Nat /\ Width >= 2 /\ Places = 0..Width - 1 /\ x \in Nat
  BY WidthFacts DEF Places
<1>1. NativeTzcnt(x, f) = Ends(a, v) /\ Tzcnt(x, f) = Of(b, w)
  BY DEF NativeTzcnt, Tzcnt
<1>2. a = b /\ (x = 0 <=> b = Width) /\ (x % 2 = 1 <=> b = 0)
  <2>1. CASE x = 0
    <3>1. Bits(x) \cup {Width} = {Width}
      BY <2>1, ZeroBits
    <3>2. b = Width
      BY <3>1 DEF Lowest
    <3> HIDE DEF b
    <3> QED BY <1>0, <2>1, <3>2
  <2>2. CASE x # 0
    <3> DEFINE m == Trailing(x)
               P == Bits(x) \cup {Width}
    <3>1. m = Lowest(Bits(x)) /\ m \in Bits(x)
      BY <2>2, TrailingIsLowest
    <3>2. Bits(x) \subseteq Nat /\ Bits(x) # {} /\ \A j \in Bits(x) : m <= j /\ j < Width
      BY <1>0, <2>2, <3>1, SomeBit, LowestFacts
    <3> HIDE DEF m
    <3>3. P \subseteq Nat /\ m \in P /\ \A j \in P : m <= j
      BY <1>0, <3>1, <3>2
    <3>4. m = Lowest(P)
      <4> HIDE DEF P
      <4> QED BY <3>3, LowestFacts
    <3>5. b = m /\ b # Width /\ b \in Bits(x)
      BY <1>0, <3>1, <3>2, <3>4
    <3> HIDE DEF b, P
    <3>6. 0 \in Bits(x) <=> x % 2 = 1
      <4>1. 2^0 = 1 /\ x \div 1 = x /\ 0 \in Places
        BY <1>0, TwoPower
      <4> QED BY <4>1 DEF Bits, Bit
    <3>7. 0 \in Bits(x) <=> b = 0
      BY <3>2, <3>5
    <3> QED BY <2>2, <3>5, <3>6, <3>7 DEF m
  <2> QED BY <2>1, <2>2
<1> HIDE DEF a, b
<1>3. v = w
  BY <1>2
<1> QED BY <1>1, <1>2, <1>3 DEF Agree, SameCarryZero, Ends, Of

LEMMA PopcntAgrees ==
  ASSUME NEW x \in Word, NEW f \in Flags
  PROVE  NativePopcnt(x, f) = Popcnt(x, f)
<1> DEFINE e == x = 0
           no == FALSE
           v == [carry |-> no, zero |-> e, sign |-> no, overflow |-> no, parity |-> no]
           w == [f EXCEPT !.overflow = no, !.sign = no, !.zero = e, !.parity = no, !.carry = no]
<1>1. f = [carry |-> f.carry, zero |-> f.zero, sign |-> f.sign,
           overflow |-> f.overflow, parity |-> f.parity]
  BY DEF Flags
<1>2. v = w
  <2> HIDE DEF e, no
  <2> DEFINE g == [f EXCEPT !.overflow = no, !.sign = no, !.zero = e]
  <2>1. g = [f EXCEPT !.overflow = no, !.sign = no, !.zero = e]
        /\ w = [g EXCEPT !.parity = no, !.carry = no]
    OBVIOUS
  <2> HIDE DEF g, v, w
  <2>2. g = [carry |-> f.carry, zero |-> e, sign |-> no, overflow |-> no, parity |-> f.parity]
    BY <1>1, <2>1
  <2>3. w = [carry |-> no, zero |-> e, sign |-> no, overflow |-> no, parity |-> no]
    BY <2>1, <2>2
  <2> QED BY <2>3 DEF v
<1>3. NativePopcnt(x, f) = Ends(Cardinality(Bits(x)), v) /\ Popcnt(x, f) = Of(Cardinality(Bits(x)), w)
  BY DEF NativePopcnt, Popcnt, Bits
<1> HIDE DEF v, w
<1> QED BY <1>2, <1>3 DEF Ends, Of

(* tzcnt, bsf, bsr and popcnt find the bits of a word.                     *)
THEOREM ScansAlwaysAgree == TypeOK => ScansAgree
<1> SUFFICES ASSUME TypeOK PROVE ScansAgree
  OBVIOUS
<1>1. src \in Word /\ flags \in Flags
  BY DEF TypeOK
<1>2. Agree(NativeTzcnt(src, flags), Tzcnt(src, flags), SameCarryZero)
  BY <1>1, TzcntAgrees
<1>3. Agree(NativePopcnt(src, flags), Popcnt(src, flags), SameFlags)
  BY <1>1, PopcntAgrees DEF Agree, SameFlags
<1>4. /\ NativeBsr(src, flags).flags = Bsr(src, flags).flags
      /\ NativeBsf(src, flags).flags = Bsf(src, flags).flags
  BY DEF NativeBsr, NativeBsf, Bsr, Bsf, Ends, Of
<1>5. src # 0 => /\ NativeBsr(src, flags).res = Bsr(src, flags).res
                 /\ NativeBsf(src, flags).res = Bsf(src, flags).res
  <2> SUFFICES ASSUME src # 0
               PROVE  /\ NativeBsr(src, flags).res = Bsr(src, flags).res
                      /\ NativeBsf(src, flags).res = Bsf(src, flags).res
    OBVIOUS
  <2>1. NativeBsf(src, flags).res = Bsf(src, flags).res
    <3>1. NativeBsf(src, flags).res = Trailing(src) /\ Bsf(src, flags).res = Lowest(Bits(src))
      BY DEF NativeBsf, Bsf, Ends, Of
    <3> QED BY <1>1, <3>1, TrailingIsLowest
  <2>2. NativeBsr(src, flags).res = Bsr(src, flags).res
    <3> DEFINE n == CHOOSE n \in Places : src = 0 \/ (2^n <= src /\ src < 2^(n + 1))
    <3>1. n = Highest(Bits(src))
      BY <1>1, BsrIsHighest
    <3>2. NativeBsr(src, flags).res = n
      BY DEF NativeBsr, Ends
    <3> HIDE DEF n
    <3>3. Bsr(src, flags).res = Highest(Bits(src))
      BY DEF Bsr, Of
    <3> QED BY <3>1, <3>2, <3>3
  <2> QED BY <2>1, <2>2
<1> QED BY <1>2, <1>3, <1>4, <1>5 DEF ScansAgree, Agree, SameZero

-----------------------------------------------------------------------------
(* Rotations.                                                              *)

(* What turns is what is above and what is below a place, exchanged.       *)
Halved(z, m, n, s, q) ==
  /\ s \in Nat /\ q \in Nat /\ s < 2^(m - n) /\ q < 2^n
  /\ s = z % 2^(m - n) /\ q = z \div 2^(m - n)
  /\ Turned(z, m, n) = s * 2^n + q

LEMMA TurnedParts ==
  ASSUME NEW m \in Nat, NEW n \in 0..m, NEW z \in 0..2^m - 1
  PROVE  \E s, q : /\ Halved(z, m, n, s, q)
                   /\ s * 2^n = (z * 2^n) % 2^m /\ q = (z * 2^n) \div 2^m
<1> DEFINE p == 2^n
           h == 2^(m - n)
           M == 2^m
           s == z % h
           q == z \div h
<1>1. n \in Nat /\ n <= m /\ m - n \in Nat
  OBVIOUS
<1>2. p \in Nat \ {0} /\ h \in Nat \ {0} /\ M = h * p /\ z \in Nat /\ z < M /\ M \in Nat
  <2>1. p \in Nat \ {0} /\ h \in Nat \ {0} /\ M = h * p /\ M \in Nat \ {0}
    BY <1>1, PowerSplit
  <2>2. z \in 0..M - 1
    OBVIOUS
  <2> HIDE DEF p, h, M
  <2> QED BY <2>1, <2>2
<1> HIDE DEF p, h, M
<1>3. s \in 0..h - 1 /\ s \in Nat /\ q \in Nat /\ z = q * h + s
  BY <1>2, Dividing
<1>4. (z * p) \div (h * p) = q /\ (z * p) % (h * p) = s * p
  BY <1>2, DivCancels
<1> HIDE DEF s, q
<1>5. q < p
  <2>1. CASE q >= p
    <3>1. q * h >= p * h /\ p * h = h * p
      BY <1>2, <1>3, <2>1
    <3> QED BY <1>2, <1>3, <3>1
  <2> QED BY <1>2, <1>3, <2>1
<1>6. Turned(z, m, n) = s * p + q
  BY <1>2, <1>4 DEF Turned, p, M
<1>7. Halved(z, m, n, s, q)
  BY <1>3, <1>5, <1>6 DEF Halved, p, h, s, q
<1> QED BY <1>2, <1>4, <1>7 DEF p, M

TurnOnce(v) == 2 * (v % Size) + (v \div Size)

(* A place more is one turn more.                                          *)
LEMMA TurnedStep ==
  ASSUME NEW z \in 0..2 * Size - 1, NEW k \in 0..Width
  PROVE  /\ Turned(z, Width + 1, k) \in 0..2 * Size - 1
         /\ Turned(z, Width + 1, k + 1) = TurnOnce(Turned(z, Width + 1, k))
<1> DEFINE m == Width + 1
           e == Width - k
           h == 2^e
           p == 2^k
           v == Turned(z, m, k)
<1>1. /\ Width \in Nat /\ Size \in Nat \ {0} /\ k \in Nat /\ e \in Nat /\ m \in Nat /\ k \in 0..m
      /\ k + 1 \in 0..m /\ m - k = e + 1 /\ m - (k + 1) = e /\ k <= Width /\ z \in Nat
  BY WidthFacts
<1>2. /\ h \in Nat \ {0} /\ p \in Nat \ {0} /\ 2^(e + 1) = 2 * h /\ 2^(k + 1) = 2 * p
      /\ Size = h * p /\ 2^m = 2 * Size
  <2>1. Size = h * p
    BY <1>1, PowerSplit, WordPower
  <2>2. 2^m = 2 * Size
    BY <1>1, TwoPower, WordPower
  <2> QED BY <1>1, <2>1, <2>2, TwoPower
<1>3. z \in 0..2^m - 1
  BY <1>2
<1>4. PICK s, q : Halved(z, m, k, s, q)
  <2> HIDE DEF m
  <2> QED BY <1>1, <1>3, TurnedParts
<1>5. PICK t, r : Halved(z, m, k + 1, t, r)
  <2> HIDE DEF m
  <2> QED BY <1>1, <1>3, TurnedParts
<1>6. /\ s \in Nat /\ q \in Nat /\ s < 2 * h /\ q < p /\ s = z % (2 * h) /\ q = z \div (2 * h)
      /\ v = s * p + q
  BY <1>1, <1>2, <1>4 DEF Halved
<1>7. /\ t \in Nat /\ r \in Nat /\ t < h /\ t = z % h /\ r = z \div h
      /\ Turned(z, m, k + 1) = t * (2 * p) + r
  BY <1>1, <1>2, <1>5 DEF Halved
<1> HIDE DEF h, p, v, m, e
<1> DEFINE b == s \div h
           u == s % h
<1>8. b \in {0, 1} /\ u \in Nat /\ u < h /\ s = b * h + u
  <2>1. b \in Nat /\ u \in 0..h - 1 /\ u \in Nat /\ s = b * h + u
    BY <1>2, <1>6, Dividing
  <2> HIDE DEF b, u
  <2>2. b < 2
    <3>1. CASE b >= 2
      <4>1. b * h >= 2 * h
        BY <1>2, <2>1, <3>1
      <4> QED BY <1>2, <1>6, <2>1, <4>1
    <3> QED BY <2>1, <3>1
  <2> QED BY <1>2, <2>1, <2>2
<1> HIDE DEF b, u
<1>9. r = 2 * q + b /\ t = u
  <2> DEFINE d == 2 * h
             n == 2 * q + b
  <2>1. d \in Nat \ {0} /\ d = 2 * h
    BY <1>2
  <2> HIDE DEF d
  <2>2. z = q * d + s
    <3>1. z \div d = q /\ z % d = s
      BY <1>6, <2>1
    <3>2. z = (z \div d) * d + (z % d)
      BY <1>1, <2>1, Dividing
    <3> QED BY <3>1, <3>2
  <2>3. z = n * h + u
    <3>1. n * h = q * (2 * h) + b * h
      BY <1>2, <1>6, <1>8
    <3> QED BY <1>1, <1>2, <1>6, <1>8, <2>1, <2>2, <3>1
  <2>4. n \in Int /\ u \in 0..h - 1
    BY <1>2, <1>6, <1>8
  <2> HIDE DEF n
  <2>5. z \div h = n /\ z % h = u
    BY <1>2, <2>3, <2>4, Parts
  <2> QED BY <1>7, <2>5 DEF n
<1> DEFINE l == u * p + q
<1>10. l \in 0..Size - 1 /\ v = b * Size + l
  <2>1. u * p <= (h - 1) * p /\ (h - 1) * p = h * p - p /\ u * p \in Nat
    BY <1>2, <1>8
  <2>2. s * p = b * (h * p) + u * p /\ b * (h * p) \in Nat
    BY <1>2, <1>8
  <2> QED BY <1>1, <1>2, <1>6, <1>8, <2>1, <2>2
<1>11. Turned(z, m, k + 1) = 2 * l + b
  <2>1. u * (2 * p) = 2 * (u * p) /\ u * p \in Nat
    BY <1>2, <1>8
  <2> QED BY <1>6, <1>7, <1>8, <1>9, <2>1
<1> HIDE DEF l
<1>12. v \div Size = b /\ v % Size = l
  <2> DEFINE S == Size
  <2>1. S \in Nat \ {0} /\ l \in 0..S - 1 /\ v = b * S + l /\ b \in Int
    BY <1>1, <1>8, <1>10
  <2> HIDE DEF S
  <2>2. v \div S = b /\ v % S = l
    BY <2>1, Parts
  <2> QED BY <2>2 DEF S
<1>13. v \in 0..2 * Size - 1
  BY <1>1, <1>8, <1>10
<1>14. Turned(z, m, k + 1) = TurnOnce(v)
  BY <1>11, <1>12 DEF TurnOnce
<1> QED BY <1>13, <1>14 DEF v, m

(* Nothing turns by no place, or by all of them.                           *)
LEMMA TurnedEnds ==
  ASSUME NEW m \in Nat, NEW z \in 0..2^m - 1
  PROVE  Turned(z, m, 0) = z /\ Turned(z, m, m) = z
<1> DEFINE M == 2^m
<1>1. M \in Nat \ {0} /\ 2^0 = 1 /\ z \in 0..M - 1
  BY TwoPower
<1>2. Turned(z, m, 0) = ((z * 1) % M) + ((z * 1) \div M)
  BY <1>1 DEF Turned
<1>3. Turned(z, m, m) = ((z * M) % M) + ((z * M) \div M)
  BY DEF Turned
<1> HIDE DEF M
<1>4. z \in Nat /\ z * 1 = z
  BY <1>1
<1> DEFINE o == 0
           n == z * M
<1>5. z = o * M + z /\ o \in Int
  BY <1>1
<1>6. n = z * M + o /\ o \in 0..M - 1 /\ z \in Int
  BY <1>1
<1> HIDE DEF o, n
<1>7. z \div M = o /\ z % M = z
  BY <1>1, <1>5, Parts
<1>8. n \div M = z /\ n % M = o
  BY <1>1, <1>6, Parts
<1> QED BY <1>2, <1>3, <1>4, <1>7, <1>8 DEF o, n

(* Two words without a common place: their union is their sum.             *)
LEMMA DisjointOr ==
  ASSUME NEW n \in Nat, n < Width, NEW s \in Nat, s < 2^(Width - n),
         NEW q \in Nat, q < 2^n, NEW a, Joins(a, s, n, 0), NEW m, Joins(m, s, n, q)
  PROVE  a \in Word /\ q \in Word /\ m \in Word /\ Or(a, q) = m /\ Or(q, a) = m
<1> DEFINE p == 2^n
           h == 2^(Width - n)
           z == 0
<1>1. /\ Width \in Nat /\ p \in Nat \ {0} /\ h \in Nat \ {0} /\ Size = h * p /\ Size \in Nat
      /\ Word = 0..Size - 1
  BY PowerSplit, WordPower, WidthFacts
<1>2. s * p <= h * p - p /\ s * p \in Nat /\ p <= h * p
  <2>0. s < h
    OBVIOUS
  <2> HIDE DEF p, h
  <2>1. s * p <= (h - 1) * p /\ (h - 1) * p = h * p - p /\ s * p \in Nat
    BY <1>1, <2>0
  <2>2. 1 * p <= h * p
    BY <1>1
  <2> QED BY <1>1, <2>1, <2>2
<1>3. a = s * p + z /\ m = s * p + q /\ q < p
  BY DEF Joins
<1>4. a \in Word /\ m \in Word /\ q \in Word
  <2> HIDE DEF p, h
  <2> QED BY <1>1, <1>2, <1>3
<1>5. ASSUME NEW i \in Places
      PROVE  Bit(m, i) = IF Bit(a, i) = 1 \/ Bit(q, i) = 1 THEN 1 ELSE 0
  <2>1. i \in Nat /\ Bit(m, i) \in {0, 1} /\ Bit(a, i) \in {0, 1} /\ Bit(q, i) \in {0, 1}
    BY <1>4, WordBits
  <2>2. z \in Nat /\ z \in 0..p - 1 /\ q \in 0..p - 1 /\ Joins(a, s, n, z)
    <3>1. 0 \in 0..p - 1 /\ q \in 0..p - 1
      <4> HIDE DEF p
      <4> QED BY <1>1, <1>3
    <3> QED BY <3>1
  <2> HIDE DEF z
  <2>3. CASE i < n
    <3>1. Bit(m, i) = Bit(q, i) /\ Bit(a, i) = Bit(z, i)
      BY <2>1, <2>2, <2>3, LowBit
    <3>2. Bit(z, i) = 0
      BY <2>1, ZeroBits DEF z
    <3> QED BY <2>1, <3>1, <3>2
  <2>4. CASE ~(i < n)
    <3>1. n <= i /\ i - n \in Nat
      BY <2>1, <2>4
    <3>2. Bit(m, i) = Bit(s, i - n) /\ Bit(a, i) = Bit(s, i - n)
      BY <2>1, <2>2, <3>1, HighBit DEF p
    <3>3. Bit(q, i) = 0
      <4>1. Joins(q, z, n, q)
        <5>1. z * p = 0
          BY <1>1 DEF z
        <5> QED BY <1>3, <5>1 DEF Joins
      <4>2. Bit(q, i) = Bit(z, i - n)
        BY <2>1, <2>2, <3>1, <4>1, HighBit DEF p
      <4> QED BY <3>1, <4>2, ZeroBits DEF z
    <3> QED BY <2>1, <3>2, <3>3
  <2> QED BY <2>3, <2>4
<1> HIDE DEF z, p, h
<1>6. Or(a, q) = m
  <2> DEFINE y == Or(a, q)
  <2>1. y \in Word /\ \A i \in Places : Bit(y, i) = IF Bit(a, i) = 1 \/ Bit(q, i) = 1 THEN 1 ELSE 0
    BY <1>4, LogicBits
  <2> HIDE DEF y
  <2>2. y = m
    BY <1>4, <1>5, <2>1, SameBits
  <2> QED BY <2>2 DEF y
<1>7. Or(q, a) = Or(a, q)
  <2>1. Bits(q) \cup Bits(a) = Bits(a) \cup Bits(q)
    OBVIOUS
  <2> QED BY <2>1 DEF Or
<1> QED BY <1>4, <1>6, <1>7

(* What the emulator puts together is the word that has turned.            *)
LEMMA TurnedWord ==
  ASSUME NEW x \in Word, NEW n \in 1..Width - 1
  PROVE  LET a == Wrap(x * 2^n)
             q == x \div 2^(Width - n)
         IN  /\ Or(a, q) = Turned(x, Width, n) /\ Or(q, a) = Turned(x, Width, n)
             /\ Turned(x, Width, n) \in Word
<1> DEFINE a == Wrap(x * 2^n)
           q == x \div 2^(Width - n)
           m == Turned(x, Width, n)
<1>1. /\ Width \in Nat /\ n \in 0..Width /\ n \in Nat /\ n < Width /\ x \in 0..2^Width - 1
      /\ Size = 2^Width
  BY WidthFacts, WordPower
<1>2. PICK s, r : /\ Halved(x, Width, n, s, r)
                  /\ s * 2^n = (x * 2^n) % 2^Width /\ r = (x * 2^n) \div 2^Width
  BY <1>1, TurnedParts
<1>3. /\ s \in Nat /\ r \in Nat /\ s < 2^(Width - n) /\ r < 2^n /\ r = q
      /\ m = s * 2^n + r
  BY <1>2 DEF Halved
<1>4. a = s * 2^n
  BY <1>1, <1>2 DEF Wrap
<1>5. s * 2^n \in Nat
  <2>1. 2^n \in Nat
    BY <1>1, TwoPower
  <2> QED BY <1>3, <2>1
<1> HIDE DEF a, q, m
<1>6. Joins(a, s, n, 0) /\ Joins(m, s, n, r)
  BY <1>3, <1>4, <1>5 DEF Joins
<1>7. Or(a, r) = m /\ Or(r, a) = m /\ m \in Word
  BY <1>1, <1>3, <1>6, DisjointOr
<1> QED BY <1>3, <1>7 DEF a, q, m

Turn(f, c, o) == [f EXCEPT !.carry = c, !.overflow = o]

LEMMA SameTurn ==
  ASSUME NEW f \in Flags, NEW res, NEW count, NEW c, NEW o, NEW p, count = 1 => o = p
  PROVE  AgreeBy(Ends(res, Turn(f, c, o)), Of(res, Turn(f, c, p)), SameFlagsRotate, count)
<1> DEFINE a == Turn(f, c, o)
           b == Turn(f, c, p)
<1>1. f = [carry |-> f.carry, zero |-> f.zero, sign |-> f.sign,
           overflow |-> f.overflow, parity |-> f.parity]
  BY DEF Flags
<1>2. a.carry = c /\ a.overflow = o /\ b.carry = c /\ b.overflow = p
  BY <1>1 DEF Turn
<1> HIDE DEF a, b
<1>3. AgreeBy(Ends(res, a), Of(res, b), SameFlagsRotate, count)
  BY <1>2 DEF AgreeBy, SameFlagsRotate, Ends, Of
<1> QED BY <1>3 DEF a, b

LEMMA Unturned ==
  ASSUME NEW f, NEW res, NEW count
  PROVE  AgreeBy(Ends(res, f), Of(res, f), SameFlagsRotate, count)
BY DEF AgreeBy, SameFlagsRotate, Ends, Of

LEMMA OverflowKept ==
  ASSUME NEW f \in Flags, NEW c
  PROVE  [f EXCEPT !.carry = c, !.overflow = f.overflow] = Turn(f, c, f.overflow)
BY DEF Turn

LEMMA ByteOfBit ==
  ASSUME NEW x \in Word
  PROVE  Bit(x, 0) = x % 2
<1>1. 2^0 = 1 /\ x \in Nat /\ x \div 1 = x
  BY TwoPower, WidthFacts
<1> QED BY <1>1 DEF Bit

(* rol and ror, when the count is below the width.                         *)
LEMMA RolAgrees ==
  ASSUME NEW x \in Word, NEW count \in Word, NEW f \in Flags, count % Counts < Width
  PROVE  AgreeBy(NativeRol(x, count, f), Rol(x, count, f), SameFlagsRotate, count)
<1> DEFINE k == count % Counts
           n == k % Width
           m == Turned(x, Width, n)
           res == IF n = 0 THEN x ELSE Or(Wrap(x * 2^n), x \div 2^(Width - n))
           c == Bit(m, 0) = 1
           d == res % 2 = 1
           over == Negative(m) # c
           p == IF n = 1 THEN Exclusive(Negative(res), d) ELSE f.overflow
<1>1. k \in Nat /\ Masked(count) = k /\ k < Width /\ Width \in Nat /\ Width >= 2
  BY CountFacts, WidthFacts
<1>2. n = k
  <2> HIDE DEF k
  <2> QED BY <1>1
<1>3. NativeRol(x, count, f) = IF k = 0 THEN Ends(m, f) ELSE Ends(m, Turn(f, c, over))
  BY DEF NativeRol, Rotated, Turn
<1>4. Rol(x, count, f) = Of(res, IF n = 0 THEN f ELSE Turn(f, d, p))
  BY <1>1 DEF Rol, Turn
<1>5. CASE k = 0
  <2>1. m = x
    <3>1. x \in 0..2^Width - 1
      BY WordPower, WidthFacts
    <3> QED BY <1>1, <1>2, <1>5, <3>1, TurnedEnds
  <2>2. NativeRol(x, count, f) = Ends(x, f) /\ Rol(x, count, f) = Of(x, f)
    BY <1>2, <1>3, <1>4, <1>5, <2>1
  <2> QED BY <2>2, Unturned
<1>6. CASE k # 0
  <2>1. n \in 1..Width - 1 /\ n # 0
    BY <1>1, <1>2, <1>6
  <2>2. res = m /\ m \in Word
    <3> HIDE DEF n
    <3> QED BY <2>1, TurnedWord
  <2>3. c = d
    <3> HIDE DEF m, res
    <3> QED BY <2>2, ByteOfBit
  <2>4. count = 1 => over = p
    <3>1. count = 1 => n = 0 \/ n = 1
      BY <1>2, CountsAssumption
    <3> HIDE DEF n, m, res
    <3> QED BY <2>1, <2>2, <2>3, <3>1 DEF Exclusive
  <2>5. NativeRol(x, count, f) = Ends(m, Turn(f, c, over)) /\ Rol(x, count, f) = Of(m, Turn(f, c, p))
    <3> HIDE DEF k, m, n, c, d, over, p, res
    <3> QED BY <1>2, <1>3, <1>4, <1>6, <2>2, <2>3
  <2> HIDE DEF m, c, over, p
  <2> QED BY <2>4, <2>5, SameTurn
<1> QED BY <1>5, <1>6

LEMMA RorAgrees ==
  ASSUME NEW x \in Word, NEW count \in Word, NEW f \in Flags, count % Counts < Width
  PROVE  AgreeBy(NativeRor(x, count, f), Ror(x, count, f), SameFlagsRotate, count)
<1> DEFINE k == count % Counts
           n == k % Width
           t == (Width - n) % Width
           m == Turned(x, Width, t)
           res == IF n = 0 THEN x ELSE Or(x \div 2^n, Wrap(x * 2^(Width - n)))
           c == Negative(m)
           d == Negative(res)
           over == Negative(m) # (Bit(m, Width - 2) = 1)
           p == IF n = 1 THEN Exclusive(Negative(res), IsSet(res, Width - 2)) ELSE f.overflow
<1>1. k \in Nat /\ Masked(count) = k /\ k < Width /\ Width \in Nat /\ Width >= 2
  BY CountFacts, WidthFacts
<1>2. n = k
  <2> HIDE DEF k
  <2> QED BY <1>1
<1>3. NativeRor(x, count, f) = IF k = 0 THEN Ends(m, f) ELSE Ends(m, Turn(f, c, over))
  BY DEF NativeRor, Rotated, Turn
<1>4. Ror(x, count, f) = Of(res, IF n = 0 THEN f ELSE Turn(f, d, p))
  BY <1>1 DEF Ror, Turn
<1>5. CASE k = 0
  <2>1. t = 0
    <3>1. Width % Width = 0
      <4> DEFINE w == Width
                 o == 0
                 i == 1
      <4>1. w \in Nat \ {0} /\ w = i * w + o /\ o \in 0..w - 1 /\ i \in Int
        BY <1>1
      <4> HIDE DEF w, o, i
      <4>2. w % w = o
        BY <4>1, Parts
      <4> QED BY <4>2 DEF w, o
    <3> HIDE DEF n
    <3> QED BY <1>1, <1>2, <1>5, <3>1
  <2>2. m = x
    <3>1. x \in 0..2^Width - 1
      BY WordPower, WidthFacts
    <3> HIDE DEF t
    <3> QED BY <1>1, <2>1, <3>1, TurnedEnds
  <2>3. NativeRor(x, count, f) = Ends(x, f) /\ Ror(x, count, f) = Of(x, f)
    <3> HIDE DEF m, c, over, d, p
    <3> QED BY <1>2, <1>3, <1>4, <1>5, <2>2
  <2> QED BY <2>3, Unturned
<1>6. CASE k # 0
  <2>1. n \in 1..Width - 1 /\ n # 0 /\ Width - n \in 1..Width - 1 /\ Width - (Width - n) = n
        /\ t = Width - n
    <3> HIDE DEF n
    <3>1. n \in 1..Width - 1 /\ n # 0 /\ Width - n \in 1..Width - 1 /\ Width - (Width - n) = n
      BY <1>1, <1>2, <1>6
    <3> DEFINE j == Width - n
    <3>2. j \in Nat /\ j < Width
      BY <1>1, <3>1
    <3> HIDE DEF j
    <3>3. j % Width = j
      BY <1>1, <3>2
    <3> QED BY <3>1, <3>3 DEF j
  <2>2. res = m /\ m \in Word
    <3> HIDE DEF n, t
    <3>1. /\ Or(x \div 2^n, Wrap(x * 2^(Width - n))) = Turned(x, Width, Width - n)
          /\ Turned(x, Width, Width - n) \in Word
      <4> DEFINE j == Width - n
      <4>1. j \in 1..Width - 1 /\ Width - j = n
        BY <2>1
      <4> HIDE DEF j
      <4>2. /\ Or(x \div 2^(Width - j), Wrap(x * 2^j)) = Turned(x, Width, j)
            /\ Turned(x, Width, j) \in Word
        BY <4>1, TurnedWord
      <4> QED BY <4>1, <4>2 DEF j
    <3> QED BY <2>1, <3>1
  <2>3. c = d /\ IsSet(m, Width - 2) = (Bit(m, Width - 2) = 1)
    <3>1. Width - 2 \in Places
      BY <1>1 DEF Places
    <3> HIDE DEF m, res
    <3> QED BY <2>2, <3>1 DEF IsSet, Bits
  <2>4. count = 1 => over = p
    <3>1. count = 1 => n = 0 \/ n = 1
      BY <1>2, CountsAssumption
    <3> HIDE DEF n, m, res
    <3> QED BY <2>1, <2>2, <2>3, <3>1 DEF Exclusive
  <2>5. NativeRor(x, count, f) = Ends(m, Turn(f, c, over)) /\ Ror(x, count, f) = Of(m, Turn(f, c, p))
    <3> HIDE DEF k, m, n, c, d, over, p, res
    <3> QED BY <1>2, <1>3, <1>4, <1>6, <2>2, <2>3
  <2> HIDE DEF m, c, over, p
  <2> QED BY <2>4, <2>5, SameTurn
<1> QED BY <1>5, <1>6

(* The word and the carry, as the ring they turn in.                       *)
Ring(v) == [res |-> v % Size, carry |-> v >= Size]

LEMMA RingFacts ==
  ASSUME NEW v \in 0..2 * Size - 1
  PROVE  \E c \in {0, 1}, r \in 0..Size - 1 :
           /\ v = c * Size + r /\ v % Size = r /\ v \div Size = c /\ (v >= Size) = (c = 1)
           /\ Ring(v) = [res |-> r, carry |-> c = 1]
<1> DEFINE S == Size
           c == v \div S
           r == v % S
<1>1. S \in Nat \ {0} /\ v \in Nat /\ v < 2 * S
  BY WidthFacts
<1> HIDE DEF S
<1>2. c \in Nat /\ r \in 0..S - 1 /\ v = c * S + r
  BY <1>1, Dividing
<1> HIDE DEF c, r
<1>3. c \in {0, 1}
  <2>1. CASE c >= 2
    <3>1. c * S >= 2 * S
      BY <1>1, <1>2, <2>1
    <3> QED BY <1>1, <1>2, <3>1
  <2> QED BY <1>2, <2>1
<1>4. (v >= S) = (c = 1)
  BY <1>1, <1>2, <1>3
<1> QED BY <1>2, <1>3, <1>4 DEF Ring, S, c, r

(* rcl steps forth, rcr back.                                              *)
LEMMA RingSteps ==
  ASSUME NEW v \in 0..2 * Size - 1, TurnOnce(v) \in 0..2 * Size - 1
  PROVE  /\ OneLeft(Ring(v)) = Ring(TurnOnce(v))
         /\ OneRight(Ring(TurnOnce(v))) = Ring(v)
<1>1. PICK c \in {0, 1}, r \in 0..Size - 1 :
        /\ v = c * Size + r /\ v % Size = r /\ v \div Size = c /\ (v >= Size) = (c = 1)
        /\ Ring(v) = [res |-> r, carry |-> c = 1]
  BY RingFacts
<1>2. Size = 2 * Half /\ Half \in Nat /\ Half >= 2 /\ r \in Nat /\ r < Size
  BY WidthFacts
<1> DEFINE t == TurnOnce(v)
<1>3. t = 2 * r + c
  BY <1>1 DEF TurnOnce
<1>4. OneLeft(Ring(v)) = Ring(t)
  <2>1. OneLeft(Ring(v)) = [res |-> Wrap(2 * r + c), carry |-> Negative(r)]
    <3> DEFINE s == [res |-> r, carry |-> c = 1]
    <3>1. s.res = r /\ (IF s.carry THEN 1 ELSE 0) = c
      BY <1>1
    <3> HIDE DEF s
    <3>2. OneLeft(s) = [res |-> Wrap(2 * r + c), carry |-> Negative(r)]
      BY <3>1 DEF OneLeft
    <3> QED BY <1>1, <3>2 DEF s
  <2>2. (t >= Size) = Negative(r)
    <3>1. t >= Size <=> r >= Half
      <4> HIDE DEF t
      <4> QED BY <1>1, <1>2, <1>3
    <3> HIDE DEF t
    <3> QED BY <3>1 DEF Negative
  <2> HIDE DEF t
  <2> QED BY <1>3, <2>1, <2>2 DEF Ring, Wrap
<1>5. OneRight(Ring(t)) = Ring(v)
  <2>0. t \in 0..2 * Size - 1
    OBVIOUS
  <2> HIDE DEF t
  <2>1. PICK d \in {0, 1}, l \in 0..Size - 1 :
          /\ t = d * Size + l /\ t % Size = l /\ t \div Size = d /\ (t >= Size) = (d = 1)
          /\ Ring(t) = [res |-> l, carry |-> d = 1]
    BY <2>0, RingFacts
  <2>2. OneRight(Ring(t)) = [res |-> l \div 2 + (IF d = 1 THEN Half ELSE 0), carry |-> l % 2 = 1]
    <3> DEFINE s == [res |-> l, carry |-> d = 1]
    <3>1. s.res = l /\ s.carry = (d = 1)
      OBVIOUS
    <3> HIDE DEF s
    <3>2. OneRight(s) = [res |-> l \div 2 + (IF d = 1 THEN Half ELSE 0), carry |-> l % 2 = 1]
      BY <3>1 DEF OneRight
    <3> QED BY <2>1, <3>2 DEF s
  <2>3. l \div 2 + (IF d = 1 THEN Half ELSE 0) = r /\ l % 2 = c
    <3>1. 2 * r + c = d * (2 * Half) + l /\ l \in Nat
      BY <1>1, <1>2, <1>3, <2>1
    <3>2. CASE d = 0
      BY <1>1, <1>2, <3>1, <3>2
    <3>3. CASE d = 1
      BY <1>1, <1>2, <3>1, <3>3
    <3> QED BY <2>1, <3>2, <3>3
  <2> QED BY <1>1, <2>2, <2>3
<1> QED BY <1>4, <1>5 DEF t

(* The states of the loops of rcl and rcr.                                 *)
LeftStates(x, f, n) ==
  CHOOSE at : at = [k \in 0..n |-> IF k = 0 THEN [res |-> x, carry |-> f.carry]
                                   ELSE OneLeft(at[k - 1])]
RightStates(x, f, n) ==
  CHOOSE at : at = [k \in 0..n |-> IF k = 0 THEN [res |-> x, carry |-> f.carry]
                                   ELSE OneRight(at[k - 1])]

LEMMA ThroughRings ==
  ASSUME NEW x \in Word, NEW f \in Flags, NEW n \in 0..Width + 1
  PROVE  LET z == WithCarry(x, f)
         IN  /\ z \in 0..2 * Size - 1 /\ Ring(z) = [res |-> x, carry |-> f.carry]
             /\ Turned(z, Width + 1, 0) = z /\ Turned(z, Width + 1, Width + 1) = z
             /\ Through(OneLeft, x, f, n) = Ring(Turned(z, Width + 1, n))
             /\ Through(OneRight, x, f, n) = Ring(Turned(z, Width + 1, Width + 1 - n))
<1> DEFINE z == WithCarry(x, f)
           left == [k \in 0..n |-> Ring(Turned(z, Width + 1, k))]
           right == [k \in 0..n |-> Ring(Turned(z, Width + 1, Width + 1 - k))]
           start == [res |-> x, carry |-> f.carry]
           c == In(f)
<1>1. /\ Width \in Nat /\ Size \in Nat \ {0} /\ x \in Nat /\ x \in 0..Size - 1 /\ n \in Nat /\ n <= Width + 1
      /\ f.carry \in BOOLEAN
  BY WidthFacts DEF Flags
<1>2. c \in {0, 1} /\ (c = 1) = f.carry /\ z = x + Size * c
  BY <1>1 DEF In, WithCarry
<1> HIDE DEF c, z
<1>3. z \in 0..2 * Size - 1 /\ Ring(z) = start
  <2> DEFINE S == Size
  <2>1. S \in Nat \ {0} /\ x \in 0..S - 1 /\ z = c * S + x
    BY <1>1, <1>2
  <2>2. c \in Int
    BY <1>2
  <2> HIDE DEF S
  <2>3. z % S = x
    BY <2>1, <2>2, Parts
  <2>4. z \in 0..2 * S - 1 /\ (z >= S) = (c = 1)
    BY <1>2, <2>1
  <2> QED BY <1>2, <2>3, <2>4 DEF S, Ring
<1> HIDE DEF start
<1>4. Turned(z, Width + 1, 0) = z /\ Turned(z, Width + 1, Width + 1) = z
  <2> DEFINE m == Width + 1
  <2>1. m \in Nat /\ 2^m = 2 * Size
    BY <1>1, TwoPower, WordPower
  <2>2. z \in 0..2^m - 1
    BY <1>3, <2>1
  <2> HIDE DEF m
  <2>3. Turned(z, m, 0) = z /\ Turned(z, m, m) = z
    BY <2>1, <2>2, TurnedEnds
  <2> QED BY <2>3 DEF m
<1>5. ASSUME NEW k \in 0..Width
      PROVE  /\ OneLeft(Ring(Turned(z, Width + 1, k))) = Ring(Turned(z, Width + 1, k + 1))
             /\ OneRight(Ring(Turned(z, Width + 1, k + 1))) = Ring(Turned(z, Width + 1, k))
  <2> DEFINE v == Turned(z, Width + 1, k)
             u == Turned(z, Width + 1, k + 1)
  <2>1. v \in 0..2 * Size - 1 /\ u = TurnOnce(v)
    BY <1>3, TurnedStep
  <2>2. u \in 0..2 * Size - 1
    <3>1. CASE k = Width
      <4>1. u = z
        BY <1>4, <3>1
      <4> QED BY <1>3, <4>1
    <3>2. CASE k # Width
      <4> DEFINE j == k + 1
      <4>1. j \in 0..Width
        BY <1>1, <3>2
      <4> HIDE DEF j
      <4>2. Turned(z, Width + 1, j) \in 0..2 * Size - 1
        BY <1>3, <4>1, TurnedStep
      <4> QED BY <4>2 DEF j
    <3> QED BY <3>1, <3>2
  <2> HIDE DEF v, u
  <2>3. OneLeft(Ring(v)) = Ring(u) /\ OneRight(Ring(u)) = Ring(v)
    BY <2>1, <2>2, RingSteps
  <2> QED BY <2>3 DEF v, u
<1>6. Through(OneLeft, x, f, n) = Ring(Turned(z, Width + 1, n))
  <2> DEFINE at == LeftStates(x, f, n)
  <2>1. left = [k \in 0..n |-> IF k = 0 THEN start ELSE OneLeft(left[k - 1])]
    <3>1. \A k \in 0..n : left[k] = IF k = 0 THEN start ELSE OneLeft(left[k - 1])
      <4> SUFFICES ASSUME NEW k \in 0..n
                   PROVE  left[k] = IF k = 0 THEN start ELSE OneLeft(left[k - 1])
        OBVIOUS
      <4>1. CASE k = 0
        <5>1. left[0] = Ring(Turned(z, Width + 1, 0))
          BY <1>1
        <5> HIDE DEF left
        <5> QED BY <1>3, <1>4, <4>1, <5>1
      <4>2. CASE k # 0
        <5> DEFINE j == k - 1
        <5>1. j \in 0..Width /\ j \in 0..n /\ j + 1 = k
          BY <1>1, <4>2
        <5> HIDE DEF j
        <5>2. left[k] = Ring(Turned(z, Width + 1, j + 1)) /\ left[j] = Ring(Turned(z, Width + 1, j))
          BY <5>1
        <5> HIDE DEF left
        <5>3. left[k] = OneLeft(left[j])
          BY <1>5, <5>1, <5>2
        <5> QED BY <4>2, <5>3 DEF j
      <4> QED BY <4>1, <4>2
    <3>2. left = [k \in 0..n |-> left[k]]
      OBVIOUS
    <3> HIDE DEF left
    <3>3. [k \in 0..n |-> left[k]] = [k \in 0..n |-> IF k = 0 THEN start ELSE OneLeft(left[k - 1])]
      BY <3>1
    <3> QED BY <3>2, <3>3
  <2> HIDE DEF left
  <2>2. at = [k \in 0..n |-> IF k = 0 THEN start ELSE OneLeft(at[k - 1])]
    BY <2>1 DEF LeftStates, start
  <2>3. Through(OneLeft, x, f, n) = at[n]
    BY DEF Through, LeftStates
  <2> HIDE DEF at
  <2> DEFINE T == {k \in 0..n : at[k] = left[k]}
  <2>4. 0 \in T
    <3>1. 0 \in 0..n
      BY <1>1
    <3>2. at[0] = start
      BY <2>2, <3>1
    <3>3. left[0] = start
      BY <2>1, <3>1
    <3> QED BY <3>1, <3>2, <3>3
  <2>5. ASSUME NEW k \in 0..n - 1, k \in T PROVE k + 1 \in T
    <3> DEFINE j == k + 1
    <3>1. j \in 0..n /\ j - 1 = k /\ j # 0
      BY <1>1
    <3>2. at[k] = left[k]
      BY <2>5
    <3> HIDE DEF j
    <3>3. at[j] = OneLeft(at[j - 1])
      BY <2>2, <3>1
    <3>4. left[j] = OneLeft(left[j - 1])
      BY <2>1, <3>1
    <3>5. at[j] = left[j]
      BY <3>1, <3>2, <3>3, <3>4
    <3> QED BY <3>1, <3>5 DEF j
  <2>6. at[n] = left[n]
    <3>1. \A k \in 0..n : k \in T
      <4> HIDE DEF T
      <4> QED BY <1>1, <2>4, <2>5, UpTo
    <3> QED BY <1>1, <3>1
  <2>7. left[n] = Ring(Turned(z, Width + 1, n))
    BY <1>1 DEF left
  <2> QED BY <2>3, <2>6, <2>7
<1>7. Through(OneRight, x, f, n) = Ring(Turned(z, Width + 1, Width + 1 - n))
  <2> DEFINE at == RightStates(x, f, n)
  <2>1. right = [k \in 0..n |-> IF k = 0 THEN start ELSE OneRight(right[k - 1])]
    <3>1. \A k \in 0..n : right[k] = IF k = 0 THEN start ELSE OneRight(right[k - 1])
      <4> SUFFICES ASSUME NEW k \in 0..n
                   PROVE  right[k] = IF k = 0 THEN start ELSE OneRight(right[k - 1])
        OBVIOUS
      <4>1. CASE k = 0
        <5>1. right[0] = Ring(Turned(z, Width + 1, Width + 1 - 0)) /\ Width + 1 - 0 = Width + 1
          BY <1>1
        <5> HIDE DEF right
        <5> QED BY <1>3, <1>4, <4>1, <5>1
      <4>2. CASE k # 0
        <5> DEFINE j == k - 1
                   i == Width + 1 - k
        <5>1. i \in 0..Width /\ j \in 0..n /\ Width + 1 - j = i + 1
          BY <1>1, <4>2
        <5>2. right[k] = Ring(Turned(z, Width + 1, i))
          OBVIOUS
        <5> HIDE DEF j, i
        <5>3. right[j] = Ring(Turned(z, Width + 1, i + 1))
          BY <5>1
        <5> HIDE DEF right
        <5>4. right[k] = OneRight(right[j])
          BY <1>5, <5>1, <5>2, <5>3
        <5> QED BY <4>2, <5>4 DEF j
      <4> QED BY <4>1, <4>2
    <3>2. right = [k \in 0..n |-> right[k]]
      OBVIOUS
    <3> HIDE DEF right
    <3>3. [k \in 0..n |-> right[k]] = [k \in 0..n |-> IF k = 0 THEN start ELSE OneRight(right[k - 1])]
      BY <3>1
    <3> QED BY <3>2, <3>3
  <2> HIDE DEF right
  <2>2. at = [k \in 0..n |-> IF k = 0 THEN start ELSE OneRight(at[k - 1])]
    BY <2>1 DEF RightStates, start
  <2>3. Through(OneRight, x, f, n) = at[n]
    BY DEF Through, RightStates
  <2> HIDE DEF at
  <2> DEFINE T == {k \in 0..n : at[k] = right[k]}
  <2>4. 0 \in T
    <3>1. 0 \in 0..n
      BY <1>1
    <3>2. at[0] = start
      BY <2>2, <3>1
    <3>3. right[0] = start
      BY <2>1, <3>1
    <3> QED BY <3>1, <3>2, <3>3
  <2>5. ASSUME NEW k \in 0..n - 1, k \in T PROVE k + 1 \in T
    <3> DEFINE j == k + 1
    <3>1. j \in 0..n /\ j - 1 = k /\ j # 0
      BY <1>1
    <3>2. at[k] = right[k]
      BY <2>5
    <3> HIDE DEF j
    <3>3. at[j] = OneRight(at[j - 1])
      BY <2>2, <3>1
    <3>4. right[j] = OneRight(right[j - 1])
      BY <2>1, <3>1
    <3>5. at[j] = right[j]
      BY <3>1, <3>2, <3>3, <3>4
    <3> QED BY <3>1, <3>5 DEF j
  <2>6. at[n] = right[n]
    <3>1. \A k \in 0..n : k \in T
      <4> HIDE DEF T
      <4> QED BY <1>1, <2>4, <2>5, UpTo
    <3> QED BY <1>1, <3>1
  <2>7. right[n] = Ring(Turned(z, Width + 1, Width + 1 - n))
    BY <1>1 DEF right
  <2> QED BY <2>3, <2>6, <2>7
<1> QED BY <1>3, <1>4, <1>6, <1>7 DEF z, start

LEMMA RclAgrees ==
  ASSUME NEW x \in Word, NEW count \in Word, NEW f \in Flags
  PROVE  AgreeBy(NativeRcl(x, count, f), Rcl(x, count, f), SameFlagsRotate, count)
<1> DEFINE k == count % Counts
           n == k % (Width + 1)
           z == WithCarry(x, f)
           all == Turned(z, Width + 1, n)
           r == all % Size
           c == all >= Size
           over == Negative(r) # c
           p == IF count = 1 THEN Exclusive(Negative(r), c) ELSE f.overflow
<1>1. k \in Nat /\ Masked(count) = k /\ Width \in Nat /\ n \in 0..Width + 1
      /\ (k = 0 => n = 0) /\ (count = 1 => k # 0)
  <2>1. k \in Nat /\ Masked(count) = k /\ Width \in Nat /\ count \in Nat
    BY CountFacts, WidthFacts
  <2>2. count = 1 => k # 0
    <3>1. Counts \in Nat /\ Counts >= 2
      BY CountsAssumption
    <3> QED BY <3>1
  <2> HIDE DEF k
  <2>3. n \in 0..Width + 1 /\ (k = 0 => n = 0)
    <3> DEFINE m == Width + 1
    <3>1. m \in Nat \ {0}
      BY <2>1
    <3> HIDE DEF m
    <3>2. k % m \in 0..m - 1 /\ (k = 0 => k % m = 0)
      <4>1. k % m \in 0..m - 1
        BY <2>1, <3>1, Dividing
      <4>2. ASSUME k = 0 PROVE k % m = 0
        <5> DEFINE o == 0
        <5>1. k = o * m + o /\ o \in Int /\ o \in 0..m - 1
          BY <3>1, <4>2
        <5> HIDE DEF o
        <5>2. k % m = o
          BY <3>1, <5>1, Parts
        <5> QED BY <5>2 DEF o
      <4> QED BY <4>1, <4>2
    <3>3. k % m \in 0..m
      BY <3>1, <3>2
    <3> QED BY <3>2, <3>3 DEF m
  <2> QED BY <2>1, <2>2, <2>3
<1> HIDE DEF k, n
<1>2. /\ z \in 0..2 * Size - 1 /\ Ring(z) = [res |-> x, carry |-> f.carry]
      /\ Turned(z, Width + 1, 0) = z
      /\ Through(OneLeft, x, f, n) = Ring(all)
  BY <1>1, ThroughRings
<1>3. NativeRcl(x, count, f) = IF k = 0 THEN Ends(r, f) ELSE Ends(r, Turn(f, c, over))
  BY DEF NativeRcl, Rotated, Turn, k, n
<1>4. Rcl(x, count, f) = Of(r, Turn(f, c, p))
  <2>1. Steps(count) = n
    BY <1>1 DEF Steps, n
  <2>2. Ring(all).res = r /\ Ring(all).carry = c
    BY DEF Ring
  <2> DEFINE s == Through(OneLeft, x, f, Steps(count))
  <2>3. s.res = r /\ s.carry = c
    BY <1>2, <2>1, <2>2
  <2>4. Rcl(x, count, f) =
          Of(s.res, [f EXCEPT !.carry = s.carry,
             !.overflow = IF count = 1 THEN Exclusive(Negative(s.res), s.carry) ELSE @])
    BY DEF Rcl
  <2> HIDE DEF s, r, c
  <2>5. Rcl(x, count, f) =
          Of(r, [f EXCEPT !.carry = c,
             !.overflow = IF count = 1 THEN Exclusive(Negative(r), c) ELSE f.overflow])
    BY <2>3, <2>4
  <2> QED BY <2>5 DEF Turn
<1>5. CASE k = 0
  <2>1. c = f.carry
    <3>1. Ring(all).carry = c /\ Ring(z).carry = f.carry /\ all = z
      BY <1>1, <1>2, <1>5 DEF Ring
    <3> HIDE DEF all, z, c
    <3> QED BY <3>1
  <2>2. Turn(f, c, p).carry = c
    <3> HIDE DEF c, p
    <3>1. f = [carry |-> f.carry, zero |-> f.zero, sign |-> f.sign,
               overflow |-> f.overflow, parity |-> f.parity]
      BY DEF Flags
    <3> QED BY <3>1 DEF Turn
  <2>3. count # 1
    BY <1>1, <1>5
  <2> HIDE DEF c, p, r
  <2> QED BY <1>3, <1>4, <1>5, <2>1, <2>2, <2>3 DEF AgreeBy, SameFlagsRotate, Ends, Of
<1>6. CASE k # 0
  <2>1. count = 1 => over = p
    <3> HIDE DEF r, c
    <3> QED BY DEF Exclusive
  <2> HIDE DEF r, c, over, p
  <2> QED BY <1>3, <1>4, <1>6, <2>1, SameTurn
<1> QED BY <1>5, <1>6

LEMMA RcrCarryAgrees ==
  ASSUME NEW x \in Word, NEW count \in Word, NEW f \in Flags
  PROVE  Agree(NativeRcr(x, count, f), Rcr(x, count, f), SameCarry)
<1> DEFINE k == count % Counts
           m == Width + 1
           n == k % m
           z == WithCarry(x, f)
           back == Width + 1 - n
           all == Turned(z, m, back % m)
           r == all % Size
           c == all >= Size
           over == Negative(x) # f.carry
           p == IF count = 1 THEN Negative(x) \/ f.carry ELSE f.overflow
<1>0. k \in Nat /\ Masked(count) = k /\ Width \in Nat /\ m \in Nat \ {0}
  BY CountFacts, WidthFacts
<1> HIDE DEF k
<1>1. n \in 0..m - 1 /\ (k = 0 => n = 0)
  <2> HIDE DEF m
  <2>1. n \in 0..m - 1
    BY <1>0, Dividing
  <2>2. ASSUME k = 0 PROVE n = 0
    <3> DEFINE o == 0
    <3>1. k = o * m + o /\ o \in Int /\ o \in 0..m - 1
      BY <1>0, <2>2
    <3> HIDE DEF o
    <3>2. k % m = o
      BY <1>0, <3>1, Parts
    <3> QED BY <3>2 DEF o
  <2> QED BY <2>1, <2>2
<1> HIDE DEF n
<1>2. n \in 0..m /\ (n = 0 => back % m = 0 /\ back = m) /\ (n # 0 => back % m = back)
  <2>0. back = m - n
    BY <1>0, <1>1
  <2> HIDE DEF m, back
  <2>1. n \in 0..m
    BY <1>0, <1>1
  <2>2. ASSUME n = 0 PROVE back % m = 0 /\ back = m
    <3> DEFINE o == 0
               i == 1
    <3>1. back = i * m + o /\ i \in Int /\ o \in 0..m - 1 /\ back = m
      BY <1>0, <2>0, <2>2
    <3> HIDE DEF o, i
    <3>2. back % m = o
      BY <1>0, <3>1, Parts
    <3> QED BY <3>1, <3>2 DEF o
  <2>3. ASSUME n # 0 PROVE back % m = back
    <3> DEFINE o == 0
    <3>1. back = o * m + back /\ o \in Int /\ back \in 0..m - 1
      BY <1>0, <1>1, <2>0, <2>3
    <3> HIDE DEF o
    <3> QED BY <1>0, <3>1, Parts
  <2> QED BY <2>1, <2>2, <2>3
<1>3. /\ Ring(z) = [res |-> x, carry |-> f.carry]
      /\ Turned(z, m, 0) = z /\ Turned(z, m, m) = z
      /\ Through(OneRight, x, f, n) = Ring(Turned(z, m, back))
  <2>1. n \in 0..Width + 1
    BY <1>2
  <2> QED BY <2>1, ThroughRings
<1>4. Through(OneRight, x, f, n) = Ring(all)
  <2> HIDE DEF m, z, back
  <2> QED BY <1>2, <1>3
<1>5. NativeRcr(x, count, f) = IF k = 0 THEN Ends(r, f) ELSE Ends(r, Turn(f, c, over))
  <2>1. NativeRcr(x, count, f) = Rotated(f, count, r, c, over)
    BY DEF NativeRcr, k, n
  <2> HIDE DEF r, c, over
  <2>2. Rotated(f, count, r, c, over) = IF k = 0 THEN Ends(r, f) ELSE Ends(r, Turn(f, c, over))
    BY DEF Rotated, Turn, k
  <2> QED BY <2>1, <2>2
<1>6. Rcr(x, count, f) = Of(r, Turn(f, c, p))
  <2>1. Steps(count) = n
    BY <1>0 DEF Steps, n
  <2>2. Ring(all).res = r /\ Ring(all).carry = c
    BY DEF Ring
  <2> DEFINE s == Through(OneRight, x, f, Steps(count))
  <2>3. s.res = r /\ s.carry = c
    BY <1>4, <2>1, <2>2
  <2>4. Rcr(x, count, f) =
          Of(s.res, [f EXCEPT !.carry = s.carry,
             !.overflow = IF count = 1 THEN Negative(x) \/ f.carry ELSE @])
    BY DEF Rcr
  <2> HIDE DEF s, r, c
  <2>5. Rcr(x, count, f) =
          Of(r, [f EXCEPT !.carry = c,
             !.overflow = IF count = 1 THEN Negative(x) \/ f.carry ELSE f.overflow])
    BY <2>3, <2>4
  <2> QED BY <2>5 DEF Turn
<1>7. Turn(f, c, p).carry = c /\ Turn(f, c, over).carry = c
  <2> HIDE DEF c, p, over
  <2>1. f = [carry |-> f.carry, zero |-> f.zero, sign |-> f.sign,
             overflow |-> f.overflow, parity |-> f.parity]
    BY DEF Flags
  <2> QED BY <2>1 DEF Turn
<1>8. k = 0 => c = f.carry
  <2> SUFFICES ASSUME k = 0 PROVE c = f.carry
    OBVIOUS
  <2>1. all = z
    <3> HIDE DEF m, z, back
    <3> QED BY <1>1, <1>2, <1>3
  <2>2. Ring(all).carry = c /\ Ring(z).carry = f.carry
    BY <1>3 DEF Ring
  <2> HIDE DEF all, z, c
  <2> QED BY <2>1, <2>2
<1> HIDE DEF r, c, over, p
<1> QED BY <1>5, <1>6, <1>7, <1>8 DEF Agree, SameCarry, Ends, Of

(* rol, ror and rcl of the emulator turn the word, and the carry with it,  *)
(* as the processor does, and so does rcr but for its overflow.            *)
THEOREM RotationsAlwaysAgree == TypeOK => RotationsAgree
<1> SUFFICES ASSUME TypeOK PROVE RotationsAgree
  OBVIOUS
<1>1. dst \in Word /\ src \in Word /\ flags \in Flags
  BY DEF TypeOK
<1>2. ShiftCount =>
        /\ AgreeBy(NativeRol(dst, src, flags), Rol(dst, src, flags), SameFlagsRotate, src)
        /\ AgreeBy(NativeRor(dst, src, flags), Ror(dst, src, flags), SameFlagsRotate, src)
  BY <1>1, RolAgrees, RorAgrees DEF ShiftCount
<1>3. AgreeBy(NativeRcl(dst, src, flags), Rcl(dst, src, flags), SameFlagsRotate, src)
  BY <1>1, RclAgrees
<1>4. Agree(NativeRcr(dst, src, flags), Rcr(dst, src, flags), SameCarry)
  BY <1>1, RcrCarryAgrees
<1> QED BY <1>2, <1>3, <1>4 DEF RotationsAgree

-----------------------------------------------------------------------------
(* The order of bytes.                                                     *)

LEMMA ByteFacts ==
  /\ ByteBits \in Nat \ {0} /\ Width \in Nat /\ ByteBits <= Width
  /\ Width \div ByteBits \in Nat \ {0} /\ Width = (Width \div ByteBits) * ByteBits
<1>1. PICK n \in 1..Width : Width = n * ByteBits
  BY CountsAssumption
<1> DEFINE o == 0
<1>2. ByteBits \in Nat \ {0} /\ Width \in Nat /\ n \in Nat \ {0} /\ n \in Int
  BY CountsAssumption, WidthFacts
<1>3. o \in 0..ByteBits - 1 /\ Width = n * ByteBits + o
  BY <1>1, <1>2
<1> HIDE DEF o
<1>4. Width \div ByteBits = n
  BY <1>2, <1>3, Parts
<1>5. 1 * ByteBits <= n * ByteBits
  BY <1>2
<1> QED BY <1>1, <1>2, <1>4, <1>5

(* The digit of b bits that begins at place a.                             *)
Digit(x, a, b) == (x \div 2^a) % 2^b

LEMMA DigitBits ==
  ASSUME NEW x \in Nat, NEW a \in Nat, NEW b \in Nat
  PROVE  /\ Digit(x, a, b) \in 0..2^b - 1 /\ Digit(x, a, b) \in Nat
         /\ \A i \in 0..b - 1 : Bit(Digit(x, a, b), i) = Bit(x, a + i)
<1>1. PICK u \in Nat, r \in 0..2^a - 1 : Joins(x, u, a, r) /\ u = x \div 2^a /\ r \in Nat
  BY Joined
<1>2. PICK v \in Nat, d \in 0..2^b - 1 : Joins(u, v, b, d) /\ d = u % 2^b /\ d \in Nat
  BY Joined
<1>3. Digit(x, a, b) = d
  BY <1>1, <1>2 DEF Digit
<1>4. ASSUME NEW i \in 0..b - 1 PROVE Bit(d, i) = Bit(x, a + i)
  <2> DEFINE j == a + i
  <2>1. i \in Nat /\ i < b /\ j \in Nat /\ a <= j /\ j - a = i
    OBVIOUS
  <2> HIDE DEF j
  <2>2. Bit(u, i) = Bit(d, i)
    BY <1>2, <2>1, LowBit
  <2>3. Bit(x, j) = Bit(u, j - a)
    BY <1>1, <2>1, HighBit
  <2> QED BY <2>1, <2>2, <2>3 DEF j
<1> QED BY <1>2, <1>3, <1>4

SwapSums(x) ==
  CHOOSE sum : sum = [k \in 0..Width \div ByteBits |->
    IF k = 0 THEN 0
    ELSE (sum[k - 1] * 2^ByteBits) + ((x \div 2^(ByteBits * (k - 1))) % 2^ByteBits)]

LEMMA SwapSteps ==
  ASSUME NEW x \in Word
  PROVE  /\ NativeBswap(x) = SwapSums(x)[Width \div ByteBits] /\ SwapSums(x)[0] = 0
         /\ \A k \in 0..(Width \div ByteBits) - 1 :
              SwapSums(x)[k + 1] = (SwapSums(x)[k] * 2^ByteBits) + Digit(x, ByteBits * k, ByteBits)
<1> DEFINE n == Width \div ByteBits
           s == SwapSums(x)
           p == 2^ByteBits
           digit(k) == (x \div 2^(ByteBits * k)) % p
           h == [i \in 1..n |-> [v \in Int |-> (v * p) + digit(i - 1)]]
<1>0. /\ n \in Nat /\ ByteBits \in Nat \ {0} /\ p \in Nat /\ x \in Nat
      /\ \A i \in 1..n : i - 1 \in Nat /\ i \in 0..n /\ i - 1 \in 0..n
  BY ByteFacts, TwoPower, WidthFacts
<1>1. \A k \in Nat : digit(k) = Digit(x, ByteBits * k, ByteBits) /\ digit(k) \in Int
  <2> SUFFICES ASSUME NEW k \in Nat
               PROVE  digit(k) = Digit(x, ByteBits * k, ByteBits) /\ digit(k) \in Int
    OBVIOUS
  <2>1. digit(k) = Digit(x, ByteBits * k, ByteBits)
    BY DEF Digit
  <2>2. ByteBits * k \in Nat /\ ByteBits \in Nat
    BY <1>0
  <2> DEFINE a == ByteBits * k
  <2>3. a \in Nat
    BY <2>2
  <2> HIDE DEF a
  <2>4. Digit(x, a, ByteBits) \in Nat
    BY <1>0, <2>2, <2>3, DigitBits
  <2> QED BY <2>1, <2>4 DEF a
<1>2. PICK g : Repeats(0, h, n, g)
  <2> HIDE DEF h, n
  <2> QED BY <1>0, Recursion
<1> HIDE DEF p, n, digit
<1>3. \A k \in 0..n : g[k] \in Int
  <2> DEFINE T == {k \in 0..n : g[k] \in Int}
  <2>1. 0 \in T
    BY <1>0, <1>2 DEF Repeats
  <2>2. ASSUME NEW k \in 0..n - 1, k \in T PROVE k + 1 \in T
    <3>1. k + 1 \in 1..n /\ (k + 1) - 1 = k /\ k \in Nat /\ k + 1 \in 0..n
      BY <1>0
    <3>2. g[k + 1] = h[k + 1][g[k]]
      BY <1>2, <3>1 DEF Repeats
    <3>3. h[k + 1][g[k]] = (g[k] * p) + digit(k) /\ g[k] \in Int
      BY <2>2, <3>1
    <3>4. h[k + 1][g[k]] \in Int
      BY <1>0, <1>1, <3>1, <3>3
    <3> QED BY <3>1, <3>2, <3>4
  <2> HIDE DEF T
  <2>3. \A k \in 0..n : k \in T
    BY <1>0, <2>1, <2>2, UpTo
  <2> QED BY <2>3 DEF T
<1>4. g = [k \in 0..n |-> IF k = 0 THEN 0 ELSE (g[k - 1] * p) + digit(k - 1)]
  <2>1. g[0] = 0 /\ g = [i \in 0..n |-> g[i]]
    BY <1>2 DEF Repeats
  <2>2. ASSUME NEW i \in 0..n, i # 0
        PROVE  g[i] = (g[i - 1] * p) + digit(i - 1)
    <3>1. i \in 1..n /\ i - 1 \in 0..n
      BY <1>0, <2>2
    <3>2. g[i] = h[i][g[i - 1]] /\ g[i - 1] \in Int
      BY <1>2, <1>3, <3>1 DEF Repeats
    <3> QED BY <3>1, <3>2
  <2>3. \A i \in 0..n : g[i] = IF i = 0 THEN 0 ELSE (g[i - 1] * p) + digit(i - 1)
    BY <2>1, <2>2
  <2> HIDE DEF h
  <2>4. [i \in 0..n |-> g[i]] = [k \in 0..n |-> IF k = 0 THEN 0 ELSE (g[k - 1] * p) + digit(k - 1)]
    BY <2>3
  <2> QED BY <2>1, <2>4
<1>5. s = [k \in 0..n |-> IF k = 0 THEN 0 ELSE (s[k - 1] * p) + digit(k - 1)]
  <2>1. \E sum : sum = [k \in 0..n |-> IF k = 0 THEN 0 ELSE (sum[k - 1] * p) + digit(k - 1)]
    BY <1>4
  <2>2. s = CHOOSE sum : sum = [k \in 0..n |-> IF k = 0 THEN 0 ELSE (sum[k - 1] * p) + digit(k - 1)]
    BY DEF SwapSums, n, p, digit
  <2> HIDE DEF s
  <2> QED BY <2>1, <2>2
<1>6. NativeBswap(x) = s[n]
  BY DEF NativeBswap, SwapSums, n
<1> HIDE DEF s
<1>7. s[0] = 0
  BY <1>0, <1>5
<1>8. ASSUME NEW k \in 0..n - 1
      PROVE  s[k + 1] = (s[k] * p) + Digit(x, ByteBits * k, ByteBits)
  <2> DEFINE j == k + 1
  <2>1. j \in 0..n /\ j # 0 /\ j - 1 = k /\ k \in Nat
    BY <1>0
  <2> HIDE DEF j
  <2>2. s[j] = (s[j - 1] * p) + digit(j - 1)
    BY <1>5, <2>1
  <2> QED BY <1>1, <2>1, <2>2 DEF j
<1> QED BY <1>6, <1>7, <1>8 DEF s, n, p

(* After k digits the sum has them in the other order.                     *)
LEMMA SwapBits ==
  ASSUME NEW x \in Word
  PROVE  \A k \in 0..Width \div ByteBits :
           /\ SwapSums(x)[k] \in 0..2^(ByteBits * k) - 1
           /\ \A j \in 0..k - 1, i \in 0..ByteBits - 1 :
                Bit(SwapSums(x)[k], j * ByteBits + i) = Bit(x, ByteBits * (k - 1 - j) + i)
<1> DEFINE n == Width \div ByteBits
           B == ByteBits
           s == SwapSums(x)
           p == 2^B
           good(k) == /\ s[k] \in 0..2^(B * k) - 1
                      /\ \A j \in 0..k - 1, i \in 0..B - 1 :
                           Bit(s[k], j * B + i) = Bit(x, B * (k - 1 - j) + i)
           T == {k \in 0..n : good(k)}
<1>0. /\ n \in Nat /\ B \in Nat \ {0} /\ x \in Nat /\ p \in Nat \ {0} /\ s[0] = 0
      /\ \A k \in 0..n - 1 : s[k + 1] = (s[k] * p) + Digit(x, B * k, B)
  BY ByteFacts, SwapSteps, TwoPower, WidthFacts
<1> HIDE DEF n, B, s
<1>1. 0 \in T
  <2>1. B * 0 = 0 /\ 2^0 = 1 /\ 0..0 - 1 = {} /\ 0 \in 0..n
    BY <1>0, TwoPower
  <2>2. s[0] \in 0..2^(B * 0) - 1
    <3>1. 2^(B * 0) = 1
      BY <2>1
    <3> QED BY <1>0, <3>1
  <2> QED BY <2>1, <2>2
<1>2. ASSUME NEW k \in 0..n - 1, k \in T PROVE k + 1 \in T
  <2> DEFINE d == Digit(x, B * k, B)
             u == s[k]
             m == s[k + 1]
             M == 2^(B * k)
             a == B * k
  <2>1. k \in Nat /\ a \in Nat /\ k + 1 \in 0..n /\ M \in Nat \ {0} /\ B * (k + 1) = a + B
    <3>1. k \in Nat /\ a \in Nat /\ k + 1 \in 0..n /\ B * (k + 1) = a + B
      BY <1>0
    <3> HIDE DEF a
    <3>2. 2^a \in Nat \ {0}
      BY <3>1, TwoPower
    <3> QED BY <3>1, <3>2 DEF a
  <2>2. u \in 0..M - 1 /\ \A j \in 0..k - 1, i \in 0..B - 1 :
                           Bit(u, j * B + i) = Bit(x, B * (k - 1 - j) + i)
    BY <1>2
  <2>3. m = (u * p) + d
    BY <1>0
  <2>4. d \in 0..p - 1 /\ d \in Nat /\ \A i \in 0..B - 1 : Bit(d, i) = Bit(x, a + i)
    <3> HIDE DEF a, p
    <3>1. Digit(x, a, B) \in 0..2^B - 1 /\ Digit(x, a, B) \in Nat
          /\ \A i \in 0..B - 1 : Bit(Digit(x, a, B), i) = Bit(x, a + i)
      BY <1>0, <2>1, DigitBits
    <3> QED BY <3>1 DEF a, p
  <2>5. 2^(B * (k + 1)) = M * p
    <3> HIDE DEF a
    <3>1. 2^(a + B) = 2^a * 2^B
      BY <1>0, <2>1, PowersMultiply
    <3> QED BY <2>1, <3>1 DEF a
  <2> HIDE DEF d, u, m, M, p
  <2>6. m \in 0..(M * p) - 1
    <3>1. u * p <= (M - 1) * p /\ (M - 1) * p = M * p - p /\ u * p \in Nat /\ M * p \in Nat
      BY <1>0, <2>1, <2>2
    <3> QED BY <1>0, <2>3, <2>4, <3>1
  <2>7. Joins(m, u, B, d) /\ u \in Nat /\ B \in Nat /\ d \in 0..2^B - 1
    BY <1>0, <2>1, <2>2, <2>3, <2>4 DEF Joins, p
  <2>8. ASSUME NEW j \in 0..k, NEW i \in 0..B - 1
        PROVE  Bit(m, j * B + i) = Bit(x, B * (k - j) + i)
    <3>1. j \in Nat /\ i \in Nat /\ i < B
      BY <1>0, <2>1
    <3>2. CASE j = 0
      <4>1. j * B + i = i /\ B * (k - j) = a
        BY <1>0, <2>1, <3>1, <3>2
      <4>2. Bit(m, i) = Bit(d, i)
        BY <2>4, <2>7, <3>1, LowBit
      <4> HIDE DEF a
      <4> QED BY <2>4, <4>1, <4>2
    <3>3. CASE j # 0
      <4> DEFINE l == j * B + i
                 h == j - 1
      <4>1. h \in 0..k - 1 /\ k - 1 - h = k - j
        BY <2>1, <3>1, <3>3
      <4>2. j * B = h * B + B /\ h * B \in Nat
        BY <1>0, <3>1, <3>3
      <4>3. l \in Nat /\ B <= l /\ l - B = h * B + i
        <5> HIDE DEF h
        <5> DEFINE c == h * B
        <5>1. l = (c + B) + i /\ c \in Nat
          BY <4>2
        <5> HIDE DEF c, l
        <5>2. l \in Nat /\ B <= l /\ l - B = c + i
          BY <1>0, <3>1, <5>1
        <5> QED BY <5>2 DEF c
      <4> HIDE DEF l, h
      <4>4. Bit(m, l) = Bit(u, l - B)
        BY <2>7, <4>3, HighBit
      <4>5. Bit(u, h * B + i) = Bit(x, B * (k - 1 - h) + i)
        BY <2>2, <4>1
      <4>6. Bit(x, B * (k - 1 - h) + i) = Bit(x, B * (k - j) + i)
        BY <4>1
      <4> QED BY <4>3, <4>4, <4>5, <4>6 DEF l
    <3> QED BY <3>2, <3>3
  <2>9. good(k + 1)
    <3>1. s[k + 1] \in 0..2^(B * (k + 1)) - 1
      BY <2>5, <2>6 DEF m
    <3>2. 0..(k + 1) - 1 = 0..k /\ \A j \in 0..k : (k + 1) - 1 - j = k - j
      BY <2>1
    <3>3. \A j \in 0..(k + 1) - 1, i \in 0..B - 1 :
            Bit(s[k + 1], j * B + i) = Bit(x, B * ((k + 1) - 1 - j) + i)
      <4> SUFFICES ASSUME NEW j \in 0..(k + 1) - 1, NEW i \in 0..B - 1
                   PROVE  Bit(s[k + 1], j * B + i) = Bit(x, B * ((k + 1) - 1 - j) + i)
        OBVIOUS
      <4>1. j \in 0..k /\ (k + 1) - 1 - j = k - j
        BY <3>2
      <4>2. Bit(s[k + 1], j * B + i) = Bit(x, B * (k - j) + i)
        BY <2>8, <4>1 DEF m
      <4>3. B * ((k + 1) - 1 - j) = B * (k - j)
        BY <4>1
      <4> QED BY <4>2, <4>3
    <3> QED BY <3>1, <3>3
  <2> HIDE DEF good
  <2> QED BY <2>1, <2>9
<1>3. \A k \in 0..n : k \in T
  <2> HIDE DEF T
  <2> QED BY <1>0, <1>1, <1>2, UpTo
<1> QED BY <1>3 DEF n, B, s

LEMMA BswapAgrees ==
  ASSUME NEW x \in Word
  PROVE  NativeBswap(x) = Bswap(x) /\ Bswap(x) \in Word
<1> DEFINE n == Width \div ByteBits
           B == ByteBits
           y == NativeBswap(x)
           byte(k) == {i \in 0..B - 1 : IsSet(x, k * B + i)}
           moved(k) == {(n - (k + 1)) * B + i : i \in byte(k)}
           S == UNION {moved(k) : k \in 0..n - 1}
<1>1. /\ n \in Nat \ {0} /\ B \in Nat \ {0} /\ Width \in Nat /\ Width = n * B /\ n \in 0..n
      /\ Places = 0..Width - 1 /\ Size = 2^Width /\ Word = 0..Size - 1
  BY ByteFacts, WidthFacts, WordPower DEF Places
<1>2. Bswap(x) = WordOf(S)
  BY DEF Bswap
<1>3. /\ y \in 0..2^(B * n) - 1
      /\ \A j \in 0..n - 1, i \in 0..B - 1 : Bit(y, j * B + i) = Bit(x, B * (n - 1 - j) + i)
  <2>1. y = SwapSums(x)[n]
    BY SwapSteps
  <2>2. /\ SwapSums(x)[n] \in 0..2^(B * n) - 1
        /\ \A j \in 0..n - 1, i \in 0..B - 1 :
             Bit(SwapSums(x)[n], j * B + i) = Bit(x, B * (n - 1 - j) + i)
    BY <1>1, SwapBits
  <2> HIDE DEF y, n, B
  <2> QED BY <2>1, <2>2
<1> HIDE DEF n, B, y
<1>4. y \in Word
  <2>1. B * n = Width
    BY <1>1
  <2> QED BY <1>1, <1>3, <2>1
<1>5. ASSUME NEW l \in Places PROVE l \in S <=> l \in Bits(y)
  <2> DEFINE j == l \div B
             i == l % B
             k == n - 1 - j
  <2>1. l \in Nat /\ l < n * B /\ B \in Nat
    BY <1>1
  <2>2. j \in Nat /\ i \in 0..B - 1 /\ l = j * B + i
    BY <1>1, <2>1, Dividing
  <2> HIDE DEF j, i
  <2>3. j < n
    <3>1. CASE j >= n
      <4> DEFINE c == j * B
                 d == n * B
      <4>1. c >= d /\ c \in Nat /\ d \in Nat
        BY <1>1, <2>2, <3>1
      <4>2. l < d /\ l = c + i /\ i >= 0 /\ i \in Int
        BY <1>1, <2>1, <2>2
      <4> HIDE DEF c, d
      <4> QED BY <2>1, <4>1, <4>2
    <3> QED BY <1>1, <2>2, <3>1
  <2>4. j \in 0..n - 1 /\ k \in 0..n - 1 /\ k \in Nat /\ n - (k + 1) = j
    BY <1>1, <2>2, <2>3
  <2>5. Bit(y, l) = Bit(x, B * k + i)
    BY <1>3, <2>2, <2>4
  <2> HIDE DEF k
  <2>6. B * k = k * B /\ k * B + i \in Places
    <3>1. B * k = k * B /\ k * B \in Nat
      BY <1>1, <2>4
    <3>2. k * B <= (n - 1) * B /\ (n - 1) * B = n * B - B
      BY <1>1, <2>4
    <3> QED BY <1>1, <2>2, <3>1, <3>2
  <2>7. l \in Bits(y) <=> IsSet(x, k * B + i)
    <3>1. l \in Bits(y) <=> Bit(y, l) = 1
      BY DEF Bits
    <3>2. IsSet(x, k * B + i) <=> Bit(x, k * B + i) = 1
      BY <2>6 DEF IsSet, Bits
    <3>3. B * k + i = k * B + i
      BY <2>6
    <3> QED BY <2>5, <3>1, <3>2, <3>3
  <2>8. IsSet(x, k * B + i) => l \in S
    <3> SUFFICES ASSUME IsSet(x, k * B + i) PROVE l \in S
      OBVIOUS
    <3>1. i \in byte(k)
      BY <2>2
    <3>2. (n - (k + 1)) * B + i = l
      BY <2>2, <2>4
    <3>3. l \in moved(k)
      BY <3>1, <3>2
    <3> HIDE DEF moved
    <3> QED BY <2>4, <3>3
  <2>9. l \in S => IsSet(x, k * B + i)
    <3> SUFFICES ASSUME l \in S PROVE IsSet(x, k * B + i)
      OBVIOUS
    <3>1. PICK e \in 0..n - 1 : l \in moved(e)
      BY DEF moved
    <3>2. PICK f \in byte(e) : l = (n - (e + 1)) * B + f
      BY <3>1
    <3> DEFINE q == n - (e + 1)
    <3>7. q \in Int
      <4>1. e \in Int /\ n \in Int
        BY <1>1
      <4> HIDE DEF n, B, y, byte, moved, S
      <4> QED BY <4>1
    <3>8. l = q * B + f /\ f \in 0..B - 1
      BY <3>2
    <3> HIDE DEF q
    <3>3. q \in Int /\ f \in 0..B - 1 /\ l = q * B + f
      BY <3>7, <3>8
    <3>4. l \div B = q /\ l % B = f
      BY <1>1, <3>3, Parts
    <3>5. q = j /\ f = i
      BY <3>4 DEF j, i
    <3>6. e = k
      BY <1>1, <2>2, <3>5 DEF q, k
    <3> QED BY <3>2, <3>5, <3>6
  <2> QED BY <2>7, <2>8, <2>9
<1> HIDE DEF S
<1>6. Bits(y) = S \cap Places
  BY <1>5 DEF Bits
<1>7. WordOf(S) = y
  BY <1>4, <1>6, BitsOfWord
<1> QED BY <1>2, <1>4, <1>7 DEF y

(* bswap mirrors the bytes of a word, whatever their number.               *)
THEOREM BytesAlwaysAgree == TypeOK => BytesAgree
BY BswapAgrees DEF TypeOK, BytesAgree

-----------------------------------------------------------------------------
(* Division of polynomials.                                                *)

Exponents == 0..2 * Width - 1
HighOf(T) == {e \in T : e >= Width}
TopOf(T) == CHOOSE e \in HighOf(T) : \A g \in HighOf(T) : g <= e
Raised(t, generator) == {t - Width + g : g \in generator}
Reduced(T, generator) == Toggled(T, Raised(TopOf(T), generator))

LEMMA TopFacts ==
  ASSUME NEW T \in SUBSET Exponents
  PROVE  /\ HighOf(T) # {} => /\ TopOf(T) \in T /\ TopOf(T) >= Width
                              /\ \A e \in T : e <= TopOf(T)
         /\ \A t \in T : t >= Width /\ (\A e \in T : e <= t) => HighOf(T) # {} /\ TopOf(T) = t
<1>1. Width \in Nat /\ \A e \in T : e \in Nat /\ e < 2 * Width
  BY WidthFacts DEF Exponents
<1>2. ASSUME HighOf(T) # {}
      PROVE  TopOf(T) \in HighOf(T) /\ \A g \in HighOf(T) : g <= TopOf(T)
  <2> DEFINE Q == {2 * Width - e : e \in HighOf(T)}
  <2>1. Q \subseteq Nat /\ Q # {}
    BY <1>1, <1>2 DEF HighOf
  <2>2. PICK q \in Q : \A j \in Q : q <= j
    <3> HIDE DEF Q
    <3> QED BY <2>1, Least
  <2>3. PICK i \in HighOf(T) : q = 2 * Width - i
    BY <2>2
  <2>4. ASSUME NEW j \in HighOf(T) PROVE j <= i
    <3>1. 2 * Width - i <= 2 * Width - j
      BY <2>2, <2>3
    <3>2. i \in Nat /\ j \in Nat
      BY <1>1, <2>3 DEF HighOf
    <3> QED BY <1>1, <3>1, <3>2
  <2> QED BY <2>3, <2>4 DEF TopOf
<1>3. ASSUME HighOf(T) # {}
      PROVE  TopOf(T) \in T /\ TopOf(T) >= Width /\ \A e \in T : e <= TopOf(T)
  <2> DEFINE t == TopOf(T)
  <2>1. t \in HighOf(T) /\ \A g \in HighOf(T) : g <= t
    BY <1>2, <1>3
  <2> HIDE DEF t
  <2>2. t \in T /\ t >= Width /\ \A e \in T : e <= t
    BY <1>1, <2>1 DEF HighOf
  <2> QED BY <2>2 DEF t
<1>4. ASSUME NEW t \in T, t >= Width, \A e \in T : e <= t
      PROVE  HighOf(T) # {} /\ TopOf(T) = t
  <2>1. HighOf(T) # {}
    BY <1>4 DEF HighOf
  <2>2. TopOf(T) \in T /\ t <= TopOf(T) /\ TopOf(T) <= t
    BY <1>3, <1>4, <2>1
  <2> QED BY <1>1, <2>1, <2>2
<1> QED BY <1>3, <1>4

(* What is subtracted takes the highest term away and adds none above it.  *)
LEMMA RaisedFacts ==
  ASSUME NEW generator, generator \subseteq 0..Width, Width \in generator,
         NEW T \in SUBSET Exponents, NEW t \in T, t >= Width, \A e \in T : e <= t
  PROVE  /\ Toggled(T, Raised(t, generator)) \in SUBSET Exponents
         /\ \A e \in Toggled(T, Raised(t, generator)) : e < t
<1>1. Width \in Nat /\ t \in Nat /\ t < 2 * Width /\ \A e \in T : e \in Nat
  BY WidthFacts DEF Exponents
<1> DEFINE R == Raised(t, generator)
<1>2. t \in R
  <2>1. t - Width + Width = t
    BY <1>1
  <2> QED BY <2>1 DEF Raised
<1>3. \A e \in R : e \in Nat /\ e <= t
  <2> SUFFICES ASSUME NEW g \in generator PROVE t - Width + g \in Nat /\ t - Width + g <= t
    BY DEF Raised
  <2>1. g \in Nat /\ g <= Width
    BY <1>1
  <2> QED BY <1>1, <2>1
<1> HIDE DEF R
<1>4. ASSUME NEW e \in Toggled(T, R) PROVE e \in Nat /\ e < t
  <2>1. e # t /\ (e \in T \/ e \in R)
    BY <1>2 DEF Toggled
  <2>2. e \in Nat /\ e <= t
    BY <1>1, <1>3, <2>1
  <2> QED BY <1>1, <2>1, <2>2
<1>5. Toggled(T, R) \in SUBSET Exponents
  BY <1>1, <1>4 DEF Exponents
<1> QED BY <1>4, <1>5 DEF R

(* The remainder is one: the recursion that defines it comes to an end.    *)
LEMMA RemainderSteps ==
  ASSUME NEW generator, generator \subseteq 0..Width, Width \in generator
  PROVE  \A T \in SUBSET Exponents :
           Remainder(generator)[T] =
             IF HighOf(T) = {} THEN T ELSE Remainder(generator)[Reduced(T, generator)]
<1> DEFINE S == SUBSET Exponents
           A == [S -> S]
           reduced(T) == Reduced(T, generator)
           at(T, k) == HighOf(T) # {} /\ TopOf(T) = Width + (k - 1)
           step(k, F) == [T \in S |-> IF at(T, k) THEN F[reduced(T)] ELSE F[T]]
           h == [k \in 1..Width |-> [F \in A |-> step(k, F)]]
           id == [T \in S |-> T]
<1>0. Width \in Nat
  BY WidthFacts
<1>1. \A T \in S : HighOf(T) # {} =>
        /\ reduced(T) \in S /\ \A e \in reduced(T) : e < TopOf(T)
        /\ TopOf(T) \in T /\ TopOf(T) >= Width /\ TopOf(T) \in Nat /\ TopOf(T) < 2 * Width
        /\ \A e \in T : e <= TopOf(T)
  <2> SUFFICES ASSUME NEW T \in S, HighOf(T) # {}
               PROVE  /\ reduced(T) \in S /\ \A e \in reduced(T) : e < TopOf(T)
                      /\ TopOf(T) \in T /\ TopOf(T) >= Width /\ TopOf(T) \in Nat
                      /\ TopOf(T) < 2 * Width /\ \A e \in T : e <= TopOf(T)
    OBVIOUS
  <2> DEFINE t == TopOf(T)
  <2>1. t \in T /\ t >= Width /\ \A e \in T : e <= t
    BY TopFacts
  <2>2. t \in Nat /\ t < 2 * Width
    <3>1. t \in Exponents
      BY <2>1
    <3> HIDE DEF t
    <3> QED BY <1>0, <3>1 DEF Exponents
  <2>3. reduced(T) = Toggled(T, Raised(t, generator))
    BY DEF Reduced
  <2> HIDE DEF t, reduced
  <2>4. /\ Toggled(T, Raised(t, generator)) \in S
        /\ \A e \in Toggled(T, Raised(t, generator)) : e < t
    BY <2>1, RaisedFacts
  <2> QED BY <2>1, <2>2, <2>3, <2>4 DEF t
<1>2. \A T \in S : HighOf(T) \subseteq T /\ \A e \in T : e \in Nat /\ (e >= Width => e \in HighOf(T))
  BY <1>0 DEF HighOf, Exponents
<1> HIDE DEF S, reduced
<1>3. ASSUME NEW k \in 1..Width, NEW F \in A
      PROVE  /\ h[k][F] \in A
             /\ \A T \in S : h[k][F][T] = IF at(T, k) THEN F[reduced(T)] ELSE F[T]
  <2>1. h[k][F] = step(k, F)
    OBVIOUS
  <2>2. \A T \in S : (IF at(T, k) THEN F[reduced(T)] ELSE F[T]) \in S
    <3> HIDE DEF h
    <3> QED BY <1>1
  <2> HIDE DEF h, at
  <2> QED BY <2>1, <2>2
<1>4. id \in A /\ \A T \in S : id[T] = T
  OBVIOUS
<1> HIDE DEF A, h, id
<1>5. PICK g : Repeats(id, h, Width, g) /\ \A k \in 0..Width : g[k] \in A
  <2>1. \A i \in 1..Width, v \in A : h[i][v] \in A
    BY <1>3
  <2>2. id \in A
    BY <1>4
  <2> QED BY <1>0, <2>1, <2>2, RecursionIn
<1>6. \A T \in S : g[0][T] = T
  BY <1>4, <1>5 DEF Repeats
<1>7. ASSUME NEW k \in 0..Width - 1, NEW T \in S
      PROVE  g[k + 1][T] = IF HighOf(T) # {} /\ TopOf(T) = Width + k THEN g[k][reduced(T)] ELSE g[k][T]
  <2> DEFINE j == k + 1
  <2>1. j \in 1..Width /\ j - 1 = k /\ k \in 0..Width
    BY <1>0
  <2> HIDE DEF j
  <2>2. g[j] = h[j][g[k]] /\ g[k] \in A
    BY <1>5, <2>1 DEF Repeats
  <2>3. g[j][T] = IF at(T, j) THEN g[k][reduced(T)] ELSE g[k][T]
    BY <1>3, <2>1, <2>2
  <2> QED BY <2>1, <2>3 DEF j
<1>8. ASSUME NEW T \in S, NEW j \in 0..Width, \A e \in T : e < Width + j
      PROVE  g[Width][T] = g[j][T]
  <2> DEFINE n == Width - j
             K == {k \in 0..n : g[j + k][T] = g[j][T]}
  <2>1. n \in Nat /\ j + n = Width /\ j \in Nat /\ j + 0 = j
    BY <1>0
  <2>2. 0 \in K
    BY <2>1
  <2>3. ASSUME NEW k \in 0..n - 1, k \in K PROVE k + 1 \in K
    <3> DEFINE i == j + k
    <3>1. i \in 0..Width - 1 /\ j + (k + 1) = i + 1 /\ k + 1 \in 0..n /\ j <= i /\ i \in Nat
      BY <1>0, <2>1
    <3>2. g[i][T] = g[j][T]
      BY <2>3
    <3> HIDE DEF i, n
    <3>3. ~(HighOf(T) # {} /\ TopOf(T) = Width + i)
      <4> SUFFICES ASSUME HighOf(T) # {}, TopOf(T) = Width + i PROVE FALSE
        OBVIOUS
      <4>1. TopOf(T) \in T
        BY <1>1
      <4>2. Width + i < Width + j
        BY <1>8, <4>1
      <4> QED BY <1>0, <2>1, <3>1, <4>2
    <3>4. g[i + 1][T] = g[i][T]
      BY <1>7, <3>1, <3>3
    <3> QED BY <3>1, <3>2, <3>4
  <2>4. \A k \in 0..n : k \in K
    <3> HIDE DEF K, n
    <3> QED BY <2>1, <2>2, <2>3, UpTo
  <2>5. n \in K
    <3> HIDE DEF K
    <3> QED BY <2>1, <2>4
  <2> QED BY <2>1, <2>5
<1>9. ASSUME NEW T \in S
      PROVE  g[Width][T] = IF HighOf(T) = {} THEN T ELSE g[Width][reduced(T)]
  <2>1. CASE HighOf(T) = {}
    <3>1. \A e \in T : e < Width + 0
      BY <1>0, <1>2, <2>1
    <3>2. g[Width][T] = g[0][T]
      BY <1>0, <1>8, <3>1
    <3> QED BY <1>6, <2>1, <3>2
  <2>2. CASE HighOf(T) # {}
    <3> DEFINE t == TopOf(T)
               j == t - Width
               i == j + 1
               U == reduced(T)
    <3>1. /\ U \in S /\ (\A e \in U : e < t) /\ t >= Width /\ t \in Nat /\ t < 2 * Width
          /\ \A e \in T : e <= t
      BY <1>1, <2>2
    <3>2. j \in 0..Width - 1 /\ j \in 0..Width /\ i \in 0..Width /\ Width + j = t /\ Width + i = t + 1
      BY <1>0, <3>1
    <3>3. TopOf(T) = Width + j
      BY <3>2
    <3>4. g[j + 1][T] = g[j][U]
      <4> HIDE DEF j
      <4> QED BY <1>7, <2>2, <3>2, <3>3
    <3> HIDE DEF t, j
    <3>5. \A e \in T : e < Width + i
      <4> HIDE DEF i
      <4> QED BY <1>2, <3>1, <3>2
    <3>6. \A e \in U : e < Width + j
      BY <3>1, <3>2
    <3>7. g[Width][T] = g[i][T]
      <4> HIDE DEF i
      <4> QED BY <1>8, <3>2, <3>5
    <3> HIDE DEF U
    <3>8. g[Width][U] = g[j][U]
      BY <1>8, <3>1, <3>2, <3>6
    <3> QED BY <2>2, <3>4, <3>7, <3>8 DEF U
  <2> QED BY <2>1, <2>2
<1> DEFINE r == Remainder(generator)
<1>10. r = [T \in S |-> IF HighOf(T) = {} THEN T ELSE r[reduced(T)]]
  <2> DEFINE f == g[Width]
  <2>1. f \in [S -> S]
    BY <1>0, <1>5 DEF A
  <2> HIDE DEF f
  <2>2. f = [T \in S |-> IF HighOf(T) = {} THEN T ELSE f[reduced(T)]]
    <3>1. f = [T \in S |-> f[T]]
      BY <2>1
    <3>2. \A T \in S : f[T] = IF HighOf(T) = {} THEN T ELSE f[reduced(T)]
      BY <1>9 DEF f
    <3>3. [T \in S |-> f[T]] = [T \in S |-> IF HighOf(T) = {} THEN T ELSE f[reduced(T)]]
      BY <3>2
    <3> QED BY <3>1, <3>3
  <2>3. r = CHOOSE rest : rest = [T \in S |-> IF HighOf(T) = {} THEN T ELSE rest[reduced(T)]]
    BY DEF Remainder, S, reduced, Reduced, Raised, HighOf, TopOf, Exponents
  <2> HIDE DEF r
  <2> QED BY <2>2, <2>3
<1> HIDE DEF r
<1>11. \A T \in S : r[T] = IF HighOf(T) = {} THEN T ELSE r[reduced(T)]
  BY <1>10
<1> QED BY <1>11 DEF r, S, reduced

LEMMA TopGoes ==
  ASSUME NEW generator, generator \subseteq 0..Width, Width \in generator,
         NEW T \in SUBSET Exponents, NEW t \in T, t >= Width, \A e \in T : e <= t
  PROVE  Remainder(generator)[T] = Remainder(generator)[Toggled(T, Raised(t, generator))]
<1>1. HighOf(T) # {} /\ TopOf(T) = t
  BY TopFacts
<1>2. Remainder(generator)[T] = Remainder(generator)[Reduced(T, generator)]
  BY <1>1, RemainderSteps
<1> QED BY <1>1, <1>2 DEF Reduced

LEMMA LowStays ==
  ASSUME NEW generator, generator \subseteq 0..Width, Width \in generator,
         NEW T \in SUBSET Exponents, \A e \in T : e < Width
  PROVE  Remainder(generator)[T] = T
<1>1. HighOf(T) = {}
  <2>1. Width \in Nat /\ \A e \in T : e \in Nat
    BY WidthFacts DEF Exponents
  <2> QED BY <2>1 DEF HighOf
<1> QED BY <1>1, RemainderSteps

-----------------------------------------------------------------------------
(* crc32.                                                                  *)

(* The low word of a checksum with the byte of y that begins at place k.   *)
Fed(y, k, v) ==
  IF k % ByteBits = 0 THEN Xor(v, Digit(y, (k \div ByteBits) * ByteBits, ByteBits)) ELSE v

CrcStates(x, y, n) ==
  CHOOSE crc : crc = [k \in 0..n * ByteBits |->
    IF k = 0 THEN x
    ELSE CrcStep(IF (k - 1) % ByteBits = 0
                 THEN Xor(crc[k - 1],
                          (y \div 2^(((k - 1) \div ByteBits) * ByteBits)) % 2^ByteBits)
                 ELSE crc[k - 1])]

LEMMA XorIsWord ==
  ASSUME NEW v, NEW w
  PROVE  Xor(v, w) \in Word
BY WordOfBits DEF Xor

LEMMA StepIsWord ==
  ASSUME NEW v \in Word
  PROVE  CrcStep(v) \in Word
<1>1. v \div 2 \in Word
  BY WidthFacts
<1> QED BY <1>1, XorIsWord DEF CrcStep

LEMMA CrcSteps ==
  ASSUME NEW x \in Word, NEW y \in Word, NEW n \in Nat
  PROVE  LET N == n * ByteBits
             crc == CrcStates(x, y, n)
         IN  /\ Crc32(x, y, n) = crc[N] /\ crc[0] = x
             /\ \A k \in 0..N : crc[k] \in Word
             /\ \A k \in 0..N - 1 : crc[k + 1] = CrcStep(Fed(y, k, crc[k]))
<1> DEFINE N == n * ByteBits
           crc == CrcStates(x, y, n)
           next(k, v) == CrcStep(IF (k - 1) % ByteBits = 0
                                 THEN Xor(v, (y \div 2^(((k - 1) \div ByteBits) * ByteBits)) % 2^ByteBits)
                                 ELSE v)
           h == [k \in 1..N |-> [v \in Word |-> next(k, v)]]
<1>0. N \in Nat
  BY ByteFacts
<1>1. Crc32(x, y, n) = crc[N]
  BY DEF Crc32, CrcStates
<1>2. crc = CHOOSE c : c = [k \in 0..N |-> IF k = 0 THEN x ELSE next(k, c[k - 1])]
  BY DEF CrcStates
<1>3. \A k \in 0..N : \A v : next(k + 1, v) = CrcStep(Fed(y, k, v))
  <2> SUFFICES ASSUME NEW k \in 0..N, NEW v PROVE next(k + 1, v) = CrcStep(Fed(y, k, v))
    OBVIOUS
  <2> DEFINE j == (k + 1) - 1
  <2>1. j = k
    BY <1>0
  <2>2. next(k + 1, v) = CrcStep(IF j % ByteBits = 0
                                 THEN Xor(v, (y \div 2^((j \div ByteBits) * ByteBits)) % 2^ByteBits)
                                 ELSE v)
    OBVIOUS
  <2> HIDE DEF j, next
  <2> QED BY <2>1, <2>2 DEF Fed, Digit
<1>4. \A k, v : v \in Word => next(k, v) \in Word
  <2> SUFFICES ASSUME NEW k, NEW v \in Word PROVE next(k, v) \in Word
    OBVIOUS
  <2> DEFINE w == IF (k - 1) % ByteBits = 0
                  THEN Xor(v, (y \div 2^(((k - 1) \div ByteBits) * ByteBits)) % 2^ByteBits)
                  ELSE v
  <2>1. w \in Word
    BY XorIsWord
  <2>2. next(k, v) = CrcStep(w)
    OBVIOUS
  <2> HIDE DEF w, next
  <2> QED BY <2>1, <2>2, StepIsWord
<1> HIDE DEF N, crc, next
<1>5. PICK g : Repeats(x, h, N, g) /\ \A k \in 0..N : g[k] \in Word
  <2>1. \A i \in 1..N, v \in Word : h[i][v] \in Word
    BY <1>4
  <2> HIDE DEF h
  <2> QED BY <1>0, <2>1, RecursionIn
<1>6. g = [k \in 0..N |-> IF k = 0 THEN x ELSE next(k, g[k - 1])]
  <2>1. g[0] = x /\ g = [i \in 0..N |-> g[i]]
    BY <1>5 DEF Repeats
  <2>2. ASSUME NEW i \in 0..N, i # 0
        PROVE  g[i] = next(i, g[i - 1])
    <3>1. i \in 1..N /\ i - 1 \in 0..N
      BY <1>0, <2>2
    <3>2. g[i] = h[i][g[i - 1]] /\ g[i - 1] \in Word
      BY <1>5, <3>1 DEF Repeats
    <3> QED BY <3>1, <3>2
  <2>3. \A i \in 0..N : g[i] = IF i = 0 THEN x ELSE next(i, g[i - 1])
    BY <2>1, <2>2
  <2> HIDE DEF h
  <2>4. [i \in 0..N |-> g[i]] = [k \in 0..N |-> IF k = 0 THEN x ELSE next(k, g[k - 1])]
    BY <2>3
  <2> QED BY <2>1, <2>4
<1>7. crc = [k \in 0..N |-> IF k = 0 THEN x ELSE next(k, crc[k - 1])]
  BY <1>2, <1>6
<1>8. crc[0] = x
  BY <1>0, <1>7
<1>9. ASSUME NEW k \in 0..N - 1
      PROVE  crc[k + 1] = CrcStep(Fed(y, k, crc[k])) /\ crc[k + 1] = next(k + 1, crc[k])
  <2> DEFINE j == k + 1
  <2>1. j \in 0..N /\ j # 0 /\ j - 1 = k /\ k \in 0..N
    BY <1>0
  <2> HIDE DEF j
  <2>2. crc[j] = next(j, crc[j - 1])
    BY <1>7, <2>1
  <2> QED BY <1>3, <2>1, <2>2 DEF j
<1>10. \A k \in 0..N : crc[k] \in Word
  <2> DEFINE T == {k \in 0..N : crc[k] \in Word}
  <2>1. 0 \in T
    BY <1>0, <1>8
  <2>2. ASSUME NEW k \in 0..N - 1, k \in T PROVE k + 1 \in T
    <3>1. k + 1 \in 0..N /\ crc[k] \in Word
      BY <1>0, <2>2
    <3>2. next(k + 1, crc[k]) \in Word
      BY <1>4, <3>1
    <3> QED BY <1>9, <3>1, <3>2
  <2>3. \A k \in 0..N : k \in T
    <3> HIDE DEF T
    <3> QED BY <1>0, <2>1, <2>2, UpTo
  <2> QED BY <2>3
<1> QED BY <1>1, <1>8, <1>9, <1>10 DEF N, crc

(* A step divides by two and subtracts the polynomial for the bit that     *)
(* goes out.                                                               *)
LEMMA CrcStepBits ==
  ASSUME NEW x \in Word, NEW i \in Places
  PROVE  i \in Bits(CrcStep(x)) <=>
           ~(i + 1 \in Bits(x) <=> (0 \in Bits(x) /\ i \in Bits(Poly)))
<1> DEFINE q == x \div 2
           b == x % 2
<1>1. /\ Width \in Nat /\ Width >= 2 /\ x \in Nat /\ i \in Nat /\ i < Width
      /\ Places = 0..Width - 1 /\ Size \in Nat /\ Size >= 2 /\ x < Size /\ Word = 0..Size - 1
  BY WidthFacts DEF Places
<1>2. q \in Nat /\ q \in Word /\ b \in {0, 1} /\ Twice(x, q, b)
  BY <1>1 DEF Twice
<1>3. 0 \in Bits(x) <=> b = 1
  <2>1. Bit(x, 0) = x % 2 /\ 0 \in Places
    BY <1>1, ByteOfBit
  <2> QED BY <2>1 DEF Bits
<1> HIDE DEF q, b
<1>4. i \in Bits(q) <=> i + 1 \in Bits(x)
  <2> DEFINE j == i + 1
  <2>1. j \in Nat /\ j - 1 = i /\ j # 0
    BY <1>1
  <2> HIDE DEF j
  <2>2. Bit(x, j) = Bit(q, i)
    BY <1>2, <2>1, LastBit
  <2>3. CASE j \in Places
    BY <2>2, <2>3 DEF Bits, j
  <2>4. CASE j \notin Places
    <3>1. j = Width
      BY <1>1, <2>4 DEF j
    <3>2. x \div Size = 0
      <4> DEFINE S == Size
                 o == 0
      <4>1. S \in Nat \ {0} /\ x \in 0..S - 1 /\ x = o * S + x /\ o \in Int
        BY <1>1
      <4> HIDE DEF S, o
      <4>2. x \div S = o
        BY <4>1, Parts
      <4> QED BY <4>2 DEF S, o
    <3>3. Bit(x, j) = 0
      BY <3>1, <3>2, WordPower DEF Bit
    <3> QED BY <2>2, <2>4, <3>3 DEF Bits, j
  <2> QED BY <2>3, <2>4
<1>5. CASE b = 1
  <2>1. CrcStep(x) = WordOf((Bits(q) \cup Bits(Poly)) \ (Bits(q) \cap Bits(Poly)))
    BY <1>5 DEF CrcStep, Xor, q, b
  <2>2. Bits(CrcStep(x)) = ((Bits(q) \cup Bits(Poly)) \ (Bits(q) \cap Bits(Poly))) \cap Places
    BY <2>1, WordOfBits
  <2>3. i \in Bits(CrcStep(x)) <=> ~(i \in Bits(q) <=> i \in Bits(Poly))
    BY <2>2
  <2> QED BY <1>3, <1>4, <1>5, <2>3
<1>6. CASE b # 1
  <2>1. CrcStep(x) = q
    BY <1>6 DEF CrcStep, q, b
  <2> QED BY <1>3, <1>4, <1>6, <2>1
<1> QED BY <1>5, <1>6

(* The place where the byte of place j begins.                             *)
Start(j) == (j \div ByteBits) * ByteBits

LEMMA StartFacts ==
  ASSUME NEW j \in Nat
  PROVE  /\ Start(j) \in Nat /\ Start(j) <= j /\ j < Start(j) + ByteBits
         /\ Start(j) % ByteBits = 0
         /\ \A k \in Nat : k % ByteBits = 0 => Start(k) = k
         /\ \A k \in Nat : k % ByteBits = 0 /\ k <= j /\ j < k + ByteBits => Start(j) = k
<1> DEFINE B == ByteBits
           q == j \div B
           r == j % B
           s == q * B
           o == 0
<1>1. B \in Nat \ {0} /\ o \in 0..B - 1
  BY ByteFacts
<1> HIDE DEF B, o
<1>2. q \in Nat /\ r \in 0..B - 1 /\ j = q * B + r
  BY <1>1, Dividing
<1> HIDE DEF q, r
<1>3. s \in Nat /\ s = q * B + o /\ q \in Int
  BY <1>1, <1>2 DEF o
<1>4. s % B = o
  <2> HIDE DEF s
  <2> QED BY <1>1, <1>3, Parts
<1>5. s <= j /\ j < s + B
  <2> HIDE DEF s
  <2>1. j = s + r
    BY <1>2 DEF s
  <2> QED BY <1>1, <1>2, <1>3, <2>1
<1>6. ASSUME NEW k \in Nat, k % B = o
      PROVE  /\ (k \div B) * B = k
             /\ k <= j /\ j < k + B => s = k
  <2> DEFINE p == k \div B
             i == j - k
  <2>1. p \in Nat /\ k = p * B + (k % B)
    BY <1>1, Dividing
  <2> HIDE DEF p
  <2>2. p * B = k
    BY <1>1, <1>6, <2>1 DEF o
  <2>3. ASSUME k <= j, j < k + B PROVE s = k
    <3>1. i \in 0..B - 1 /\ j = k + i
      BY <1>1, <2>3
    <3> HIDE DEF i
    <3>2. j = p * B + i /\ p \in Int
      BY <2>1, <2>2, <3>1
    <3>3. j \div B = p
      BY <1>1, <3>1, <3>2, Parts
    <3> QED BY <2>2, <3>3 DEF q
  <2> QED BY <2>2, <2>3 DEF p
<1> QED BY <1>3, <1>4, <1>5, <1>6 DEF Start, B, s, q, o

(* The bits of y that are not yet in the checksum at place k.              *)
Pending(y, N, k) == {j \in Bits(y) : j < N /\ Start(j) >= k}

(* Where a checksum of N bits may be: a number of bytes, at most a word.   *)
BitCount(N) == N \in Nat /\ N <= Width /\ N % ByteBits = 0

(* Feeding a byte changes the place of its bits only.                      *)
LEMMA FedBits ==
  ASSUME NEW v \in Word, NEW y \in Word, NEW N, BitCount(N), NEW k \in 0..N - 1
  PROVE  /\ Fed(y, k, v) \in Word
         /\ \A j \in Int : ~(j - k \in Bits(v) <=> j \in Pending(y, N, k)) <=>
                           ~(j - k \in Bits(Fed(y, k, v)) <=> j \in Pending(y, N, k + 1))
<1> DEFINE B == ByteBits
           x == Fed(y, k, v)
<1>1. /\ B \in Nat \ {0} /\ Width \in Nat /\ k \in Nat /\ N \in Nat /\ k < N /\ N <= Width
      /\ B <= Width /\ Places = 0..Width - 1 /\ y \in Nat /\ N % B = 0
      /\ \A j \in Bits(y) : j \in Nat /\ j < Width
  BY ByteFacts, WidthFacts DEF BitCount, Places, Bits
<1>2. CASE k % B # 0
  <2>1. x = v
    BY <1>2 DEF Fed
  <2>2. Pending(y, N, k) = Pending(y, N, k + 1)
    <3>1. ASSUME NEW j \in Bits(y) PROVE Start(j) >= k <=> Start(j) >= k + 1
      <4>1. j \in Nat
        BY <1>1
      <4>2. Start(j) \in Nat /\ Start(j) % B = 0
        BY <4>1, StartFacts
      <4>3. Start(j) # k
        BY <1>2, <4>2
      <4> QED BY <1>1, <4>2, <4>3
    <3> QED BY <3>1 DEF Pending
  <2> HIDE DEF x
  <2> QED BY <2>1, <2>2 DEF x
<1>3. CASE k % B = 0
  <2> DEFINE d == Digit(y, k, B)
  <2>1. Start(k) = k
    BY <1>1, <1>3, StartFacts
  <2>2. x = Xor(v, d)
    BY <1>3, <2>1 DEF Fed, Start
  <2>3. d \in 0..2^B - 1 /\ d \in Nat /\ \A i \in 0..B - 1 : Bit(d, i) = Bit(y, k + i)
    <3>1. y \in Nat /\ k \in Nat /\ B \in Nat
      BY <1>1
    <3> HIDE DEF B
    <3> QED BY <3>1, DigitBits
  <2> HIDE DEF d
  <2>4. k + B <= N
    <3> DEFINE m == N - 1
    <3>1. m \in Nat /\ k <= m
      BY <1>1
    <3> HIDE DEF m
    <3>2. CASE m < k + B
      <4>1. Start(m) = k
        BY <1>1, <1>3, <3>1, <3>2, StartFacts
      <4>2. CASE N < k + B
        <5>1. N \in Nat /\ k \in Nat /\ k <= N /\ N < k + B /\ k % B = 0 /\ N % B = 0
          BY <1>1, <1>3, <4>2
        <5>2. Start(N) = k
          BY <5>1, StartFacts
        <5>3. Start(N) = N
          BY <5>1, StartFacts
        <5> QED BY <1>1, <5>2, <5>3
      <4> QED BY <1>1, <4>2
    <3>3. CASE ~(m < k + B)
      BY <1>1, <3>3 DEF m
    <3> QED BY <3>2, <3>3
  <2>5. \A i \in Places : i \in Bits(d) <=> i < B /\ k + i \in Bits(y)
    <3> SUFFICES ASSUME NEW i \in Places PROVE i \in Bits(d) <=> i < B /\ k + i \in Bits(y)
      OBVIOUS
    <3>1. i \in Nat
      BY <1>1
    <3>2. CASE i < B
      <4>1. i \in 0..B - 1 /\ k + i \in Places
        BY <1>1, <2>4, <3>1, <3>2
      <4>2. Bit(d, i) = Bit(y, k + i)
        BY <2>3, <4>1
      <4> QED BY <3>2, <4>1, <4>2 DEF Bits
    <3>3. CASE ~(i < B)
      <4> DEFINE z == 0
                 p == 2^B
      <4>1. p \in Nat \ {0}
        BY <1>1, TwoPower
      <4>2. z * p = 0
        <5> HIDE DEF p
        <5> QED BY <4>1
      <4>3. Joins(d, z, B, d) /\ z \in Nat /\ B <= i /\ B \in Nat /\ i - B \in Nat
        BY <1>1, <2>3, <3>1, <3>3, <4>2 DEF Joins
      <4> HIDE DEF z, p
      <4>4. Bit(d, i) = Bit(z, i - B)
        BY <2>3, <3>1, <4>3, HighBit
      <4>5. Bit(d, i) = 0
        BY <4>3, <4>4, ZeroBits DEF z
      <4> QED BY <3>3, <4>5 DEF Bits
    <3> QED BY <3>2, <3>3
  <2>6. x \in Word /\ \A i : i \in Bits(x) <=> ~(i \in Bits(v) <=> i \in Bits(d))
    <3>1. x = WordOf((Bits(v) \cup Bits(d)) \ (Bits(v) \cap Bits(d)))
      BY <2>2 DEF Xor
    <3>2. /\ x \in Word
          /\ Bits(x) = ((Bits(v) \cup Bits(d)) \ (Bits(v) \cap Bits(d))) \cap Places
      BY <3>1, WordOfBits
    <3>3. Bits(v) \subseteq Places /\ Bits(d) \subseteq Places
      BY DEF Bits
    <3> QED BY <3>2, <3>3
  <2> HIDE DEF x
  <2>7. ASSUME NEW j \in Int
        PROVE  j \in Pending(y, N, k) <=> ~(j - k \in Bits(d) <=> j \in Pending(y, N, k + 1))
    <3>1. CASE j \in Bits(y)
      <4>1. j \in Nat /\ j < Width
        BY <1>1, <3>1
      <4>2. Start(j) \in Nat /\ (Start(j) = k <=> k <= j /\ j < k + B)
        <5>1. /\ Start(j) \in Nat /\ Start(j) <= j /\ j < Start(j) + B
              /\ (k <= j /\ j < k + B => Start(j) = k)
          BY <1>1, <1>3, <4>1, StartFacts
        <5> QED BY <1>1, <4>1, <5>1
      <4>3. j - k \in Bits(d) <=> k <= j /\ j < k + B
        <5> DEFINE i == j - k
        <5>1. i \in Int /\ k + i = j /\ (i \in Places <=> k <= j)  /\ (i < B <=> j < k + B)
          BY <1>1, <4>1
        <5> HIDE DEF i
        <5>2. i \in Bits(d) <=> i \in Places /\ i < B
          <6>1. Bits(d) \subseteq Places
            BY DEF Bits
          <6> QED BY <2>5, <3>1, <5>1, <6>1
        <5> QED BY <5>1, <5>2 DEF i
      <4>4. k <= j /\ j < k + B => j < N
        BY <1>1, <2>4, <4>1
      <4>5. /\ j \in Pending(y, N, k) <=> j < N /\ Start(j) >= k
            /\ j \in Pending(y, N, k + 1) <=> j < N /\ Start(j) >= k + 1
        BY <3>1 DEF Pending
      <4> QED BY <1>1, <4>2, <4>3, <4>4, <4>5
    <3>2. CASE j \notin Bits(y)
      <4>1. j \notin Pending(y, N, k) /\ j \notin Pending(y, N, k + 1)
        BY <3>2 DEF Pending
      <4>2. j - k \notin Bits(d)
        <5> DEFINE i == j - k
        <5>1. k + i = j
          BY <1>1
        <5> HIDE DEF i
        <5>2. Bits(d) \subseteq Places
          BY DEF Bits
        <5>3. i \notin Bits(d)
          BY <2>5, <3>2, <5>1, <5>2
        <5> QED BY <5>3 DEF i
      <4> QED BY <4>1, <4>2
    <3> QED BY <3>1, <3>2
  <2>8. ASSUME NEW j \in Int
        PROVE  ~(j - k \in Bits(v) <=> j \in Pending(y, N, k)) <=>
               ~(j - k \in Bits(x) <=> j \in Pending(y, N, k + 1))
    <3>1. j \in Pending(y, N, k) <=> ~(j - k \in Bits(d) <=> j \in Pending(y, N, k + 1))
      BY <2>7
    <3>2. j - k \in Bits(x) <=> ~(j - k \in Bits(v) <=> j - k \in Bits(d))
      BY <2>6
    <3> QED BY <3>1, <3>2
  <2> QED BY <2>6, <2>8 DEF x
<1> QED BY <1>2, <1>3

(* What is left to divide after k bits: the checksum, and what is pending. *)
Dividend(N, k, c, y) ==
  {e \in 0..(Width + N) - 1 :
     ~(((Width + N) - 1) - e - k \in Bits(c) <=> ((Width + N) - 1) - e \in Pending(y, N, k))}

Generator == {Width} \cup {Width - 1 - i : i \in Bits(Poly)}

LEMMA GeneratorFacts ==
  /\ Generator \subseteq 0..Width /\ Width \in Generator
  /\ \A t \in Int, e \in Int :
       e \in Raised(t, Generator) <=> e = t \/ t - e - 1 \in Bits(Poly)
<1>1. Width \in Nat /\ \A i \in Bits(Poly) : i \in Nat /\ i <= Width - 1
  BY WidthFacts DEF Bits, Places
<1>2. Generator \subseteq 0..Width /\ Width \in Generator
  BY <1>1 DEF Generator
<1>3. ASSUME NEW t \in Int, NEW e \in Int
      PROVE  e \in Raised(t, Generator) <=> e = t \/ t - e - 1 \in Bits(Poly)
  <2>1. ASSUME e \in Raised(t, Generator) PROVE e = t \/ t - e - 1 \in Bits(Poly)
    <3>1. PICK g \in Generator : e = t - Width + g
      BY <2>1 DEF Raised
    <3>2. CASE g = Width
      BY <1>1, <3>1, <3>2
    <3>3. CASE g # Width
      <4>1. PICK i \in Bits(Poly) : g = Width - 1 - i
        BY <3>3 DEF Generator
      <4>2. t - e - 1 = i
        BY <1>1, <3>1, <4>1
      <4> QED BY <4>2
    <3> QED BY <3>2, <3>3
  <2>2. ASSUME e = t PROVE e \in Raised(t, Generator)
    <3>1. e = t - Width + Width
      BY <1>1, <2>2
    <3> QED BY <1>2, <3>1 DEF Raised
  <2>3. ASSUME t - e - 1 \in Bits(Poly) PROVE e \in Raised(t, Generator)
    <3> DEFINE i == t - e - 1
               g == Width - 1 - i
    <3>1. i \in Bits(Poly)
      BY <2>3
    <3>2. g \in Generator
      <4> HIDE DEF i
      <4> QED BY <3>1 DEF Generator
    <3>3. e = t - Width + g
      BY <1>1
    <3> HIDE DEF g
    <3> QED BY <3>2, <3>3 DEF Raised
  <2> QED BY <2>1, <2>2, <2>3
<1> QED BY <1>2, <1>3

(* A step of the checksum leaves the remainder as it is.                   *)
LEMMA DividendStep ==
  ASSUME NEW c \in Word, NEW y \in Word, NEW N, BitCount(N), NEW k \in 0..N - 1,
         NEW c2, c2 = CrcStep(Fed(y, k, c))
  PROVE  Remainder(Generator)[Dividend(N, k, c, y)] = Remainder(Generator)[Dividend(N, k + 1, c2, y)]
<1> DEFINE x == Fed(y, k, c)
           L == (Width + N) - 1
           P == Dividend(N, k, c, y)
           Q == Dividend(N, k + 1, c2, y)
           t == L - k
           R == Raised(t, Generator)
           p1 == Pending(y, N, k + 1)
           X == Bits(x)
           Y == Bits(c2)
           Z == Bits(Poly)
<1>1. /\ Width \in Nat /\ k \in Nat /\ N \in Nat /\ k < N /\ N <= Width /\ L \in Nat /\ t \in Nat
      /\ Places = 0..Width - 1 /\ k + 1 <= N /\ t >= Width /\ t <= L /\ L <= 2 * Width - 1
  BY WidthFacts DEF BitCount, Places
<1>2. /\ x \in Word
      /\ \A j \in Int : ~(j - k \in Bits(c) <=> j \in Pending(y, N, k)) <=>
                        ~(j - k \in X <=> j \in p1)
  BY FedBits
<1>3. \A i \in Places : i \in Y <=> ~(i + 1 \in X <=> (0 \in X /\ i \in Z))
  BY <1>2, CrcStepBits
<1>4. X \subseteq Places /\ Y \subseteq Places /\ Z \subseteq Places
  BY DEF Bits
<1>5. \A j \in p1 : j \in Nat /\ j >= k + 1
  <2> SUFFICES ASSUME NEW j \in Bits(y), Start(j) >= k + 1 PROVE j \in Nat /\ j >= k + 1
    BY DEF Pending
  <2>1. j \in Nat
    BY <1>1 DEF Bits
  <2>2. Start(j) \in Nat /\ Start(j) <= j
    BY <2>1, StartFacts
  <2> QED BY <1>1, <2>1, <2>2
<1> HIDE DEF X, Y, Z, x, p1
<1>6. \A e \in Int : e \in P <=> e \in 0..L /\ ~(t - e \in X <=> L - e \in p1)
  <2> SUFFICES ASSUME NEW e \in Int
               PROVE  e \in P <=> e \in 0..L /\ ~(t - e \in X <=> L - e \in p1)
    OBVIOUS
  <2> DEFINE j == L - e
  <2>1. j \in Int /\ j - k = t - e
    BY <1>1
  <2>2. e \in P <=> e \in 0..L /\ ~(j - k \in Bits(c) <=> j \in Pending(y, N, k))
    BY DEF Dividend
  <2> HIDE DEF j, P, L
  <2>3. e \in P <=> e \in 0..L /\ ~(j - k \in X <=> j \in p1)
    BY <1>2, <2>1, <2>2
  <2> QED BY <2>1, <2>3 DEF j
<1>7. \A e \in Int : e \in Q <=> e \in 0..L /\ ~(t - e - 1 \in Y <=> L - e \in p1)
  <2> SUFFICES ASSUME NEW e \in Int
               PROVE  e \in Q <=> e \in 0..L /\ ~(t - e - 1 \in Y <=> L - e \in p1)
    OBVIOUS
  <2> DEFINE j == L - e
  <2>1. j - (k + 1) = t - e - 1
    BY <1>1
  <2>2. e \in Q <=> e \in 0..L /\ ~(j - (k + 1) \in Y <=> j \in p1)
    BY DEF Dividend, Y, p1
  <2> HIDE DEF j, Q, L
  <2> QED BY <2>1, <2>2 DEF j
<1>8. P \subseteq 0..L /\ Q \subseteq 0..L /\ P \subseteq Int /\ Q \subseteq Int
  BY <1>1 DEF Dividend
<1>9. \A e \in Int : e \in R <=> e = t \/ t - e - 1 \in Z
  <2>1. t \in Int
    BY <1>1
  <2> HIDE DEF t
  <2> QED BY <2>1, GeneratorFacts DEF Z
<1> HIDE DEF P, Q, R, L, t
<1>10. ASSUME NEW e \in Int
       PROVE  t - e \in X <=> ~(t - e - 1 \in Y <=> (0 \in X /\ (e = t \/ t - e - 1 \in Z)))
  <2> DEFINE i == t - e - 1
  <2>1. i \in Int /\ i + 1 = t - e /\ (e = t <=> i = -1)
    BY <1>1
  <2> HIDE DEF i
  <2>2. CASE i \in Places
    <3>1. i # -1
      BY <1>1, <2>2
    <3> QED BY <1>3, <2>1, <2>2, <3>1 DEF i
  <2>3. CASE i \notin Places
    <3>1. i \notin Y /\ i \notin Z
      BY <1>4, <2>3
    <3>2. i + 1 \in X <=> i = -1 /\ 0 \in X
      <4>1. CASE i = -1
        <5>1. i + 1 = 0
          BY <4>1
        <5> QED BY <4>1, <5>1
      <4>2. CASE i # -1
        <5>1. i + 1 \notin Places
          BY <1>1, <2>1, <2>3, <4>2
        <5> QED BY <1>4, <4>2, <5>1
      <4> QED BY <4>1, <4>2
    <3> QED BY <2>1, <3>1, <3>2 DEF i
  <2> QED BY <2>2, <2>3
<1>11. CASE 0 \in X
  <2>1. t \in P
    <3>1. t - t = 0 /\ L - t = k /\ k \notin p1 /\ t \in 0..L /\ t \in Int
      BY <1>1, <1>5 DEF t
    <3> QED BY <1>6, <1>11, <3>1
  <2>2. \A e \in P : e <= t
    <3> SUFFICES ASSUME NEW e \in P, e > t PROVE FALSE
      BY <1>1, <1>8
    <3>1. e \in Int /\ t - e < 0 /\ L - e < k
      BY <1>1, <1>8 DEF t
    <3>2. t - e \notin X
      BY <1>1, <1>4, <3>1
    <3>3. L - e \notin p1
      BY <1>1, <1>5, <3>1
    <3> QED BY <1>6, <3>1, <3>2, <3>3
  <2>3. P \in SUBSET Exponents
    BY <1>1, <1>8 DEF Exponents
  <2>4. Toggled(P, R) = Q
    <3>1. R \subseteq 0..L
      <4>1. \A g \in Generator : g \in 0..Width
        BY GeneratorFacts
      <4>2. \A e \in R : e \in 0..L
        <5> SUFFICES ASSUME NEW g \in Generator PROVE t - Width + g \in 0..L
          BY DEF R, Raised
        <5> QED BY <1>1, <4>1
      <4> QED BY <4>2
    <3>2. \A e \in 0..L : e \in Int
      OBVIOUS
    <3>3. ASSUME NEW e \in 0..L PROVE e \in Q <=> ~(e \in P <=> e \in R)
      <4>1. /\ e \in P <=> ~(t - e \in X <=> L - e \in p1)
            /\ e \in Q <=> ~(t - e - 1 \in Y <=> L - e \in p1)
        BY <1>6, <1>7, <3>2
      <4>2. e \in R <=> e = t \/ t - e - 1 \in Z
        BY <1>9, <3>2
      <4>3. t - e \in X <=> ~(t - e - 1 \in Y <=> e \in R)
        BY <1>10, <1>11, <3>2, <4>2
      <4> QED BY <4>1, <4>3
    <3> QED BY <1>8, <3>1, <3>3 DEF Toggled
  <2>5. Remainder(Generator)[P] = Remainder(Generator)[Toggled(P, R)]
    BY <1>1, <2>1, <2>2, <2>3, GeneratorFacts, TopGoes DEF R
  <2> QED BY <2>4, <2>5 DEF P, Q
<1>12. CASE 0 \notin X
  <2>1. P = Q
    <3>1. ASSUME NEW e \in Int PROVE e \in P <=> e \in Q
      <4>1. t - e \in X <=> t - e - 1 \in Y
        BY <1>10, <1>12
      <4> QED BY <1>6, <1>7, <4>1
    <3> QED BY <1>8, <3>1
  <2> QED BY <2>1 DEF P, Q
<1> QED BY <1>11, <1>12

(* At first it is the message, at last the checksum.                       *)
LEMMA DividendEnds ==
  ASSUME NEW c \in Word, NEW y \in Word, NEW N, BitCount(N)
  PROVE  /\ Dividend(N, 0, c, y) =
              Toggled({Width - 1 - i + N : i \in Bits(c)},
                      {N - 1 - i + Width : i \in {j \in Bits(y) : j < N}})
         /\ Dividend(N, N, c, y) \in SUBSET Exponents
         /\ \A e \in Dividend(N, N, c, y) : e < Width
         /\ {Width - 1 - e : e \in Dividend(N, N, c, y)} = Bits(c)
<1> DEFINE L == (Width + N) - 1
           C == Bits(c)
           Y == Bits(y)
           P == Dividend(N, 0, c, y)
           Q == Dividend(N, N, c, y)
           F == {Width - 1 - i + N : i \in C}
           G == {N - 1 - i + Width : i \in {j \in Y : j < N}}
<1>1. /\ Width \in Nat /\ N \in Nat /\ N <= Width
      /\ L \in Int /\ L <= 2 * Width - 1 /\ Width \in Nat /\ N \in Nat /\ N <= Width /\ Width >= 1
  BY WidthFacts DEF BitCount
<1>2. \A i \in C : i \in Nat /\ i <= Width - 1
  BY WidthFacts DEF Bits, Places
<1>3. \A i \in Y : i \in Nat /\ i <= Width - 1 /\ Start(i) \in Nat /\ Start(i) <= i
  <2> SUFFICES ASSUME NEW i \in Y PROVE i \in Nat /\ i <= Width - 1 /\ Start(i) \in Nat /\ Start(i) <= i
    OBVIOUS
  <2>1. i \in Nat /\ i <= Width - 1
    BY WidthFacts DEF Bits, Places
  <2> QED BY <2>1, StartFacts
<1>4. \A e \in Int : e \in P <=> e \in 0..L /\ ~(L - e - 0 \in C <=> L - e \in Pending(y, N, 0))
  BY DEF Dividend
<1>5. \A e \in Int : e \in Q <=> e \in 0..L /\ ~(L - e - N \in C <=> L - e \in Pending(y, N, N))
  BY DEF Dividend
<1>6. P \subseteq 0..L /\ Q \subseteq 0..L
  BY DEF Dividend
<1>7. \A j \in Int : (j \in Pending(y, N, 0) <=> j \in Y /\ j < N) /\ j \notin Pending(y, N, N)
  <2> SUFFICES ASSUME NEW j \in Int
               PROVE  (j \in Pending(y, N, 0) <=> j \in Y /\ j < N) /\ j \notin Pending(y, N, N)
    OBVIOUS
  <2>1. j \in Y => Start(j) \in Nat /\ Start(j) <= j /\ j \in Nat
    BY <1>3
  <2> HIDE DEF Y
  <2> QED BY <1>1, <2>1 DEF Pending, Y
<1> HIDE DEF C, Y, P, Q
<1>8. \A e \in Int : e \in F <=> L - e \in C
  <2> SUFFICES ASSUME NEW e \in Int PROVE e \in F <=> L - e \in C
    OBVIOUS
  <2>1. ASSUME e \in F PROVE L - e \in C
    <3>1. PICK i \in C : e = Width - 1 - i + N
      BY <2>1
    <3>2. L - e = i
      BY <1>1, <1>2, <3>1
    <3> QED BY <3>2
  <2>2. ASSUME L - e \in C PROVE e \in F
    <3> DEFINE i == L - e
    <3>1. i \in C /\ e = Width - 1 - i + N
      BY <1>1, <2>2
    <3> HIDE DEF i
    <3> QED BY <3>1
  <2> QED BY <2>1, <2>2
<1>9. \A e \in Int : e \in G <=> L - e \in Y /\ L - e < N
  <2> SUFFICES ASSUME NEW e \in Int PROVE e \in G <=> L - e \in Y /\ L - e < N
    OBVIOUS
  <2>1. ASSUME e \in G PROVE L - e \in Y /\ L - e < N
    <3>1. PICK i \in Y : i < N /\ e = N - 1 - i + Width
      BY <2>1
    <3>2. L - e = i
      BY <1>1, <1>3, <3>1
    <3> QED BY <3>1, <3>2
  <2>2. ASSUME L - e \in Y, L - e < N PROVE e \in G
    <3> DEFINE i == L - e
    <3>1. i \in Y /\ i < N /\ e = N - 1 - i + Width
      BY <1>1, <2>2
    <3> HIDE DEF i
    <3> QED BY <3>1
  <2> QED BY <2>1, <2>2
<1>10. P = Toggled(F, G)
  <2>1. F \subseteq Int /\ G \subseteq Int
    BY <1>1, <1>2, <1>3
  <2> HIDE DEF F, G
  <2>2. ASSUME NEW e \in Int PROVE e \in P <=> ~(e \in F <=> e \in G)
    <3> DEFINE j == L - e
    <3>1. j \in Int /\ L - e - 0 = j
      BY <1>1
    <3>2. e \in P <=> e \in 0..L /\ ~(j \in C <=> j \in Pending(y, N, 0))
      BY <1>4, <3>1
    <3>3. (e \in F <=> j \in C) /\ (e \in G <=> j \in Pending(y, N, 0))
      BY <1>7, <1>8, <1>9, <3>1
    <3>4. e \in F \/ e \in G => e \in 0..L
      <4>1. e \in F \/ e \in G => j \in Nat /\ j <= L
        <5> HIDE DEF j
        <5>1. j \in C => j \in Nat /\ j <= L
          BY <1>1, <1>2
        <5>2. j \in Pending(y, N, 0) => j \in Nat /\ j <= L
          BY <1>1, <1>3, <1>7, <3>1
        <5> QED BY <3>3, <5>1, <5>2
      <4> QED BY <1>1, <4>1
    <3> QED BY <3>2, <3>3, <3>4
  <2>3. P \subseteq Int
    BY <1>6
  <2> QED BY <2>1, <2>2, <2>3 DEF Toggled
<1>11. \A e \in Int : e \in Q <=> e \in 0..L /\ Width - 1 - e \in C
  <2> SUFFICES ASSUME NEW e \in Int PROVE e \in Q <=> e \in 0..L /\ Width - 1 - e \in C
    OBVIOUS
  <2>1. L - e - N = Width - 1 - e /\ L - e \in Int
    BY <1>1
  <2>2. L - e \notin Pending(y, N, N)
    BY <1>7, <2>1
  <2> QED BY <1>5, <2>1, <2>2
<1>12. \A e \in Q : e \in Nat /\ e < Width /\ Width - 1 - e \in C
  <2> SUFFICES ASSUME NEW e \in Q PROVE e \in Nat /\ e < Width /\ Width - 1 - e \in C
    OBVIOUS
  <2>1. e \in Int /\ e \in Nat
    BY <1>6
  <2>2. Width - 1 - e \in C
    BY <1>11, <2>1
  <2>3. Width - 1 - e \in Nat
    BY <1>2, <2>2
  <2> QED BY <1>1, <2>1, <2>2, <2>3
<1>13. Q \in SUBSET Exponents
  BY <1>1, <1>12 DEF Exponents
<1>14. {Width - 1 - e : e \in Q} = C
  <2>1. ASSUME NEW i \in C PROVE i \in {Width - 1 - e : e \in Q}
    <3> DEFINE e == Width - 1 - i
    <3>1. e \in Int /\ e \in 0..L /\ Width - 1 - e = i
      BY <1>1, <1>2
    <3> HIDE DEF e
    <3>2. e \in Q
      BY <1>11, <3>1
    <3> QED BY <3>1, <3>2
  <2> QED BY <1>12, <2>1
<1> QED BY <1>10, <1>12, <1>13, <1>14 DEF P, Q, C, Y, F, G

LEMMA Crc32Agrees ==
  ASSUME NEW x \in Word, NEW y \in Word, NEW n \in 1..Width \div ByteBits
  PROVE  NativeCrc32(x, y, n, Poly) = Crc32(x, y, n) /\ Crc32(x, y, n) \in Word
<1> DEFINE N == n * ByteBits
           crc == CrcStates(x, y, n)
           w == Width \div ByteBits
           r == Remainder(Generator)
           T == {k \in 0..N : r[Dividend(N, k, crc[k], y)] = r[Dividend(N, 0, x, y)]}
<1>1. N \in Nat /\ BitCount(N) /\ n \in Nat
  <2>1. ByteBits \in Nat \ {0} /\ w \in Nat /\ Width = w * ByteBits /\ n \in Nat /\ n <= w
    BY ByteFacts
  <2> HIDE DEF w
  <2>2. N \in Nat /\ n * ByteBits <= w * ByteBits
    BY <2>1
  <2>3. N % ByteBits = 0
    <3> DEFINE o == 0
    <3>1. N = n * ByteBits + o /\ n \in Int /\ o \in 0..ByteBits - 1
      BY <2>1, <2>2
    <3> HIDE DEF o, N
    <3>2. N % ByteBits = o
      BY <2>1, <3>1, Parts
    <3> QED BY <3>2 DEF o
  <2> QED BY <2>1, <2>2, <2>3 DEF BitCount
<1>2. /\ Crc32(x, y, n) = crc[N] /\ crc[0] = x
      /\ \A k \in 0..N : crc[k] \in Word
      /\ \A k \in 0..N - 1 : crc[k + 1] = CrcStep(Fed(y, k, crc[k]))
  BY <1>1, CrcSteps
<1> HIDE DEF N, crc, r
<1>3. 0 \in T
  BY <1>1, <1>2
<1>4. ASSUME NEW k \in 0..N - 1, k \in T PROVE k + 1 \in T
  <2>1. k + 1 \in 0..N /\ k \in 0..N
    BY <1>1
  <2> DEFINE c == crc[k]
             d == crc[k + 1]
  <2>2. c \in Word /\ d = CrcStep(Fed(y, k, c))
    BY <1>2, <2>1
  <2>3. r[Dividend(N, k, c, y)] = r[Dividend(N, 0, x, y)]
    BY <1>4
  <2> HIDE DEF c, d
  <2>4. r[Dividend(N, k, c, y)] = r[Dividend(N, k + 1, d, y)]
    BY <1>1, <2>2, DividendStep DEF r
  <2> QED BY <2>1, <2>3, <2>4 DEF d
<1>5. r[Dividend(N, N, crc[N], y)] = r[Dividend(N, 0, x, y)]
  <2>1. \A k \in 0..N : k \in T
    <3> HIDE DEF T
    <3> QED BY <1>1, <1>3, <1>4, UpTo
  <2> QED BY <1>1, <2>1
<1> DEFINE c == crc[N]
           m == Dividend(N, 0, x, y)
           d == Dividend(N, N, c, y)
<1>6. c \in Word
  BY <1>1, <1>2
<1> HIDE DEF c
<1>7. r[d] = d /\ {Width - 1 - e : e \in d} = Bits(c)
  <2>1. d \in SUBSET Exponents /\ (\A e \in d : e < Width) /\ {Width - 1 - e : e \in d} = Bits(c)
    BY <1>1, <1>6, DividendEnds
  <2> HIDE DEF d
  <2>2. r[d] = d
    BY <2>1, GeneratorFacts, LowStays DEF r
  <2> QED BY <2>1, <2>2
<1>8. r[m] = d
  BY <1>5, <1>7 DEF c
<1>9. m = Toggled({Width - 1 - i + N : i \in Bits(x)},
                  {N - 1 - i + Width : i \in {j \in Bits(y) : j < N}})
  BY <1>1, DividendEnds
<1> HIDE DEF m, d
<1>10. NativeCrc32(x, y, n, Poly) = WordOf({Width - 1 - e : e \in r[m]})
  BY <1>9 DEF NativeCrc32, N, r, Generator
<1>11. WordOf(Bits(c)) = c
  <2>1. Bits(c) = Bits(c) \cap Places
    BY DEF Bits
  <2> QED BY <1>6, <2>1, BitsOfWord
<1> QED BY <1>2, <1>6, <1>7, <1>8, <1>10, <1>11 DEF c

(* crc32 divides polynomials, for every number of bytes of a word.         *)
THEOREM ChecksumsAlwaysAgree == TypeOK => ChecksumsAgree
BY Crc32Agrees DEF TypeOK, ChecksumsAgree

-----------------------------------------------------------------------------
(* Every result is a word and sets the flags.                              *)

Result(r) == r.res \in Word /\ r.flags \in Flags
Results(p) == p.upper \in Word /\ p.lower \in Word /\ p.flags \in Flags

(* Flags with some of them set are flags.                                  *)
LEMMA SetFlags ==
  ASSUME NEW f \in Flags, NEW a \in BOOLEAN, NEW b \in BOOLEAN
  PROVE  /\ [f EXCEPT !.carry = a] \in Flags
         /\ [f EXCEPT !.zero = a] \in Flags
         /\ [f EXCEPT !.overflow = a] \in Flags
         /\ [f EXCEPT !.carry = a, !.overflow = b] \in Flags
         /\ [f EXCEPT !.overflow = a, !.carry = b] \in Flags
         /\ [f EXCEPT !.carry = a, !.zero = b] \in Flags
         /\ f.carry \in BOOLEAN /\ f.overflow \in BOOLEAN
BY DEF Flags

(* zero, sign and parity are truth values.                                 *)
LEMMA MarkedFlags ==
  ASSUME NEW f \in Flags, NEW res
  PROVE  Marked(f, res) \in Flags
<1> DEFINE z == res = 0
           s == Negative(res)
           e == EvenBits(res)
<1>1. z \in BOOLEAN /\ s \in BOOLEAN /\ e \in BOOLEAN
  BY DEF Negative, EvenBits
<1>2. Marked(f, res) = [f EXCEPT !.zero = z, !.sign = s, !.parity = e]
  BY DEF Marked
<1> HIDE DEF z, s, e
<1> QED BY <1>1, <1>2 DEF Flags

(* The flags after an instruction that sets carry and overflow itself.     *)
LEMMA MarkedResult ==
  ASSUME NEW f \in Flags, NEW res \in Word, NEW a \in BOOLEAN, NEW b \in BOOLEAN
  PROVE  /\ Result(Of(res, [Marked(f, res) EXCEPT !.carry = a, !.overflow = b]))
         /\ Result(Of(res, [Marked(f, res) EXCEPT !.overflow = b]))
         /\ Result(Of(res, Logic(f, res)))
<1> DEFINE g == Marked(f, res)
<1>1. g \in Flags
  BY MarkedFlags
<1>2. Logic(f, res) = [g EXCEPT !.overflow = FALSE, !.carry = FALSE]
  BY DEF Logic
<1> HIDE DEF g
<1>3. /\ [g EXCEPT !.carry = a, !.overflow = b] \in Flags /\ [g EXCEPT !.overflow = b] \in Flags
      /\ [g EXCEPT !.overflow = FALSE, !.carry = FALSE] \in Flags
  BY <1>1, SetFlags
<1> QED BY <1>2, <1>3 DEF Result, Of, g

(* add, adc, sub, sbb, neg, inc and dec.                                   *)
LEMMA SumResults ==
  ASSUME NEW x \in Word, NEW y \in Word, NEW f \in Flags
  PROVE  /\ Result(Add(x, y, f)) /\ Result(Adc(x, y, f)) /\ Result(Sub(x, y, f))
         /\ Result(Sbb(x, y, f)) /\ Result(Neg(x, f)) /\ Result(Inc(x, f)) /\ Result(Dec(x, f))
<1>1. x \in Int /\ y \in Int /\ 0 \in Word /\ Carried(f) \in Int
  BY WidthFacts DEF Carried
<1>2. ASSUME NEW u \in Word, NEW v \in Word PROVE Result(Sub(u, v, f))
  <2> DEFINE res == Wrap(u - v)
             a == u < v
             b == \/ ~Negative(u) /\ Negative(v) /\ Negative(res)
                  \/ Negative(u) /\ ~Negative(v) /\ ~Negative(res)
  <2>1. u - v \in Int
    BY WidthFacts
  <2>2. res \in Word
    BY <2>1, WrapFacts
  <2>3. a \in BOOLEAN /\ b \in BOOLEAN
    OBVIOUS
  <2>4. Sub(u, v, f) = Of(res, [Marked(f, res) EXCEPT !.carry = a, !.overflow = b])
    BY DEF Sub
  <2> HIDE DEF res, a, b
  <2> QED BY <2>2, <2>3, <2>4, MarkedResult
<1>3. Result(Add(x, y, f))
  <2> DEFINE res == Wrap(x + y)
             a == x > (Size - 1) - y
             b == \/ ~Negative(x) /\ ~Negative(y) /\ Negative(res)
                  \/ Negative(x) /\ Negative(y) /\ ~Negative(res)
  <2>1. res \in Word
    BY <1>1, WrapFacts
  <2>2. a \in BOOLEAN /\ b \in BOOLEAN
    OBVIOUS
  <2>3. Add(x, y, f) = Of(res, [Marked(f, res) EXCEPT !.carry = a, !.overflow = b])
    BY DEF Add
  <2> HIDE DEF res, a, b
  <2> QED BY <2>1, <2>2, <2>3, MarkedResult
<1>4. Result(Adc(x, y, f))
  <2> DEFINE c == Carried(f)
             res == Wrap(x + y + c)
             a == \/ c = 1 /\ y = Size - 1
                  \/ x > (Size - 1) - Wrap(y + c)
             b == \/ ~Negative(x) /\ ~Negative(y) /\ Negative(res)
                  \/ Negative(x) /\ Negative(y) /\ ~Negative(res)
  <2>1. x + y + c \in Int
    BY <1>1
  <2>2. res \in Word
    BY <2>1, WrapFacts
  <2>3. a \in BOOLEAN /\ b \in BOOLEAN
    OBVIOUS
  <2>4. Adc(x, y, f) = Of(res, [Marked(f, res) EXCEPT !.carry = a, !.overflow = b])
    BY DEF Adc
  <2> HIDE DEF res, a, b
  <2> QED BY <2>2, <2>3, <2>4, MarkedResult
<1>5. Result(Sbb(x, y, f))
  <2> DEFINE c == Carried(f)
             w == Wrap(y + c)
             res == Wrap(x - w)
             a == (c = 1 /\ y = Size - 1) \/ x < Wrap(y + c)
             b == \/ ~Negative(x) /\ Negative(y) /\ Negative(res)
                  \/ Negative(x) /\ ~Negative(y) /\ ~Negative(res)
  <2>1. y + c \in Int
    BY <1>1
  <2>2. w \in Word
    BY <2>1, WrapFacts
  <2>3. w \in Int
    BY <2>2, WidthFacts
  <2>4. res \in Word
    <3> HIDE DEF w
    <3> QED BY <1>1, <2>3, WrapFacts
  <2>5. a \in BOOLEAN /\ b \in BOOLEAN
    OBVIOUS
  <2>6. Sbb(x, y, f) = Of(res, [Marked(f, res) EXCEPT !.carry = a, !.overflow = b])
    BY DEF Sbb
  <2> HIDE DEF res, a, b
  <2> QED BY <2>4, <2>5, <2>6, MarkedResult
<1>6. Result(Inc(x, f)) /\ Result(Dec(x, f))
  <2> DEFINE u == Wrap(x + 1)
             v == Wrap(x - 1)
             a == x = Half - 1
             b == x = Half
  <2>1. u \in Word /\ v \in Word
    BY <1>1, WrapFacts
  <2>2. a \in BOOLEAN /\ b \in BOOLEAN
    OBVIOUS
  <2>3. Inc(x, f) = Of(u, [Marked(f, u) EXCEPT !.overflow = a])
        /\ Dec(x, f) = Of(v, [Marked(f, v) EXCEPT !.overflow = b])
    BY DEF Inc, Dec
  <2> HIDE DEF u, v, a, b
  <2> QED BY <2>1, <2>2, <2>3, MarkedResult
<1> QED BY <1>1, <1>2, <1>3, <1>4, <1>5, <1>6 DEF Neg

(* and, or and xor; and the instructions that set the flags alone.         *)
LEMMA LogicResults ==
  ASSUME NEW x \in Word, NEW y \in Word, NEW f \in Flags
  PROVE  /\ Result(And_(x, y, f)) /\ Result(Or_(x, y, f)) /\ Result(Xor_(x, y, f))
         /\ Cmp(x, y, f) \in Flags /\ Test(x, y, f) \in Flags
         /\ Cmpxchg(x, y, f) \in Flags /\ Bt(x, y, f) \in Flags
<1>1. And(x, y) \in Word /\ Or(x, y) \in Word /\ Xor(x, y) \in Word
  BY LogicBits
<1>2. Result(And_(x, y, f)) /\ Result(Or_(x, y, f)) /\ Result(Xor_(x, y, f))
  BY <1>1, MarkedResult DEF And_, Or_, Xor_
<1>3. Test(x, y, f) \in Flags
  BY <1>1, MarkedResult DEF Test, Result, Of
<1>4. Cmp(x, y, f) \in Flags
  BY SumResults DEF Cmp, Result
<1>5. Cmpxchg(x, y, f) \in Flags
  <2> DEFINE a == x = y
             g == Cmp(x, y, f)
  <2>1. a \in BOOLEAN
    OBVIOUS
  <2>2. g \in Flags
    BY <1>4
  <2>3. Cmpxchg(x, y, f) = [g EXCEPT !.zero = a]
    BY DEF Cmpxchg
  <2> HIDE DEF a, g
  <2>4. [g EXCEPT !.zero = a] \in Flags
    BY <2>1, <2>2, SetFlags
  <2> QED BY <2>3, <2>4
<1>6. Bt(x, y, f) \in Flags
  <2> DEFINE a == IsSet(x, y % Width)
  <2>1. a \in BOOLEAN
    BY DEF IsSet
  <2>2. Bt(x, y, f) = [f EXCEPT !.carry = a]
    BY DEF Bt
  <2> HIDE DEF a
  <2> QED BY <2>1, <2>2, SetFlags
<1> QED BY <1>2, <1>3, <1>4, <1>5, <1>6

(* mul, imul and div.                                                      *)
LEMMA PairResults ==
  ASSUME NEW f \in Flags, NEW u \in Word, NEW l \in Word, NEW over \in BOOLEAN
  PROVE  Results(Pair(u, l, f, over))
BY SetFlags DEF Results, Pair

LEMMA ProductResults ==
  ASSUME NEW x \in Word, NEW y \in Word, NEW f \in Flags
  PROVE  /\ Results(Mul(x, y, f)) /\ Results(MulHalves(x, y, f))
         /\ Results(Imul(x, y, f)) /\ Results(ImulHalves(x, y, f))
<1>1. ASSUME NEW u \in Word, NEW v \in Word PROVE Results(MulHalves(u, v, f)) /\ Results(Mul(u, v, f))
  <2> DEFINE p == (u * v) \div Size
             l == Wrap(u * v)
             over == p # 0
  <2>1. p \in Word
    BY UnsignedProduct
  <2>2. u * v \in Int
    BY UnsignedProduct
  <2>3. l \in Word
    BY <2>2, WrapFacts
  <2>4. over \in BOOLEAN
    OBVIOUS
  <2>5. MulHalves(u, v, f) = Pair(p, l, f, over) /\ Mul(u, v, f) = Pair(p, l, f, over)
    BY HalvesMultiply DEF Mul
  <2> HIDE DEF p, l, over
  <2> QED BY <2>1, <2>3, <2>4, <2>5, PairResults
<1>2. Results(Imul(x, y, f))
  <2> DEFINE e == Signed(x) * Signed(y)
             u == Wrap(e \div Size)
             l == Wrap(e)
             over == e # Signed(Wrap(e))
  <2>1. Signed(x) \in Int /\ Signed(y) \in Int
    BY SignedFacts, WidthFacts
  <2>2. e \in Int
    BY <2>1
  <2>3. over \in BOOLEAN /\ Imul(x, y, f) = Pair(u, l, f, over)
    BY DEF Imul
  <2>4. u \in Word /\ l \in Word
    <3> HIDE DEF e
    <3>1. e \div Size \in Int
      BY <2>2, TwoWords
    <3> QED BY <2>2, <3>1, WrapFacts
  <2> HIDE DEF u, l, over
  <2> QED BY <2>3, <2>4, PairResults
<1>3. Results(ImulHalves(x, y, f))
  <2> DEFINE X == Magnitude(x)
             Y == Magnitude(y)
             p == MulHalves(X, Y, f)
             opposite == Negative(x) # Negative(y)
             U == Wrap(Not(p.upper) + IF p.lower = 0 THEN 1 ELSE 0)
             L == Wrap(-p.lower)
             upper == IF opposite THEN U ELSE p.upper
             lower == IF opposite THEN L ELSE p.lower
             differs == \/ Negative(lower) /\ upper # Size - 1
                        \/ ~Negative(lower) /\ upper # 0
  <2>1. X \in Word /\ Y \in Word
    BY MagnitudeFacts
  <2>2. p.upper \in Word /\ p.lower \in Word
    <3> HIDE DEF X, Y
    <3> QED BY <1>1, <2>1 DEF Results
  <2> HIDE DEF p
  <2>3. Not(p.upper) + (IF p.lower = 0 THEN 1 ELSE 0) \in Int /\ -p.lower \in Int
    BY <2>2, WidthFacts DEF Not
  <2>4. U \in Word /\ L \in Word
    BY <2>3, WrapFacts
  <2>5. ImulHalves(x, y, f) =
          IF x = 0 \/ y = 0 THEN Pair(0, 0, f, FALSE) ELSE Pair(upper, lower, f, differs)
    BY DEF ImulHalves, Magnitude, p
  <2>6. differs \in BOOLEAN
    OBVIOUS
  <2> HIDE DEF U, L
  <2>7. upper \in Word /\ lower \in Word /\ 0 \in Word
    BY <2>2, <2>4, WidthFacts
  <2> HIDE DEF upper, lower, differs
  <2>8. Results(Pair(0, 0, f, FALSE)) /\ Results(Pair(upper, lower, f, differs))
    BY <2>6, <2>7, PairResults
  <2> QED BY <2>5, <2>8
<1> QED BY <1>1, <1>2, <1>3

(* Shifts, rotations and scans put no bit past the width.                  *)
LEMMA ShiftResult ==
  ASSUME NEW f \in Flags, NEW res \in Word, NEW n, NEW c \in BOOLEAN, NEW o \in BOOLEAN
  PROVE  Result(Of(res, IF n = 0 THEN f ELSE
           [Marked(f, res) EXCEPT !.carry = c, !.overflow = IF n = 1 THEN o ELSE @]))
<1> DEFINE g == Marked(f, res)
           p == IF n = 1 THEN o ELSE g.overflow
<1>1. g \in Flags
  BY MarkedFlags
<1>2. g.overflow \in BOOLEAN
  BY <1>1, SetFlags
<1>3. [Marked(f, res) EXCEPT !.carry = c, !.overflow = IF n = 1 THEN o ELSE @]
        = [g EXCEPT !.carry = c, !.overflow = p]
  OBVIOUS
<1> HIDE DEF g
<1>4. p \in BOOLEAN
  BY <1>2
<1> HIDE DEF p
<1>5. [g EXCEPT !.carry = c, !.overflow = p] \in Flags
  BY <1>1, <1>4, SetFlags
<1> QED BY <1>3, <1>5 DEF Result, Of

(* The flags of a rotation.                                                *)
LEMMA TurnResult ==
  ASSUME NEW f \in Flags, NEW res \in Word, NEW n, NEW c \in BOOLEAN, NEW o \in BOOLEAN
  PROVE  Result(Of(res, [f EXCEPT !.carry = c, !.overflow = IF n = 1 THEN o ELSE @]))
<1> DEFINE p == IF n = 1 THEN o ELSE f.overflow
<1>1. f.overflow \in BOOLEAN
  BY SetFlags
<1>2. [f EXCEPT !.carry = c, !.overflow = IF n = 1 THEN o ELSE @]
        = [f EXCEPT !.carry = c, !.overflow = p]
  OBVIOUS
<1>3. p \in BOOLEAN
  BY <1>1
<1> HIDE DEF p
<1>4. [f EXCEPT !.carry = c, !.overflow = p] \in Flags
  BY <1>3, SetFlags
<1> QED BY <1>2, <1>4 DEF Result, Of

LEMMA ShiftResults ==
  ASSUME NEW x \in Word, NEW y \in Word, NEW f \in Flags
  PROVE  Result(Shl(x, y, f)) /\ Result(Shr(x, y, f)) /\ Result(Sar(x, y, f))
<1> DEFINE n == Masked(y)
           l == Wrap(x * 2^n)
           r == x \div 2^n
           a == Wrap(Signed(x) \div 2^n)
           c == IsSet(x, Width - n)
           d == IsSet(x, n - 1)
           o == Exclusive(Negative(l), c)
           s == Negative(x)
<1>1. n \in Nat
  BY CountFacts
<1> HIDE DEF n
<1>2. x \div 2^n \in Word /\ x * 2^n \in Int /\ Signed(x) \div 2^n \in Int
  BY <1>1, ShiftedRight
<1>3. l \in Word /\ r \in Word /\ a \in Word
  BY <1>2, WrapFacts
<1>4. c \in BOOLEAN /\ d \in BOOLEAN /\ o \in BOOLEAN /\ s \in BOOLEAN
  BY DEF IsSet, Exclusive, Negative
<1>5. /\ Shl(x, y, f) = Of(l, IF n = 0 THEN f ELSE
           [Marked(f, l) EXCEPT !.carry = c, !.overflow = IF n = 1 THEN o ELSE @])
      /\ Shr(x, y, f) = Of(r, IF n = 0 THEN f ELSE
           [Marked(f, r) EXCEPT !.carry = d, !.overflow = IF n = 1 THEN s ELSE @])
      /\ Sar(x, y, f) = Of(a, IF n = 0 THEN f ELSE
           [Marked(f, a) EXCEPT !.carry = d, !.overflow = IF n = 1 THEN FALSE ELSE @])
  BY DEF Shl, Shr, Sar, n
<1> HIDE DEF l, r, a, c, d, o, s
<1>6. Result(Shl(x, y, f))
  <2>1. Result(Of(l, IF n = 0 THEN f ELSE
           [Marked(f, l) EXCEPT !.carry = c, !.overflow = IF n = 1 THEN o ELSE @]))
    BY <1>3, <1>4, ShiftResult
  <2> QED BY <1>5, <2>1
<1>7. Result(Shr(x, y, f))
  <2>1. Result(Of(r, IF n = 0 THEN f ELSE
           [Marked(f, r) EXCEPT !.carry = d, !.overflow = IF n = 1 THEN s ELSE @]))
    BY <1>3, <1>4, ShiftResult
  <2> QED BY <1>5, <2>1
<1>8. Result(Sar(x, y, f))
  <2> DEFINE no == FALSE
  <2>1. no \in BOOLEAN
    OBVIOUS
  <2>2. Sar(x, y, f) = Of(a, IF n = 0 THEN f ELSE
           [Marked(f, a) EXCEPT !.carry = d, !.overflow = IF n = 1 THEN no ELSE @])
    BY <1>5
  <2> HIDE DEF no
  <2>3. Result(Of(a, IF n = 0 THEN f ELSE
           [Marked(f, a) EXCEPT !.carry = d, !.overflow = IF n = 1 THEN no ELSE @]))
    BY <1>3, <1>4, <2>1, ShiftResult
  <2> QED BY <2>2, <2>3
<1> QED BY <1>6, <1>7, <1>8

LEMMA DoubleShiftResults ==
  ASSUME NEW x \in Word, NEW y \in Word, NEW k \in Places, NEW f \in Flags
  PROVE  Result(Shld(x, y, k, f)) /\ Result(Shrd(x, y, k, f))
<1> DEFINE n == k % Width
<1>1. Width \in Nat \ {0} /\ n \in Nat
  BY WidthFacts DEF Places
<1>2. ASSUME NEW res \in Word, NEW mask
      PROVE  Result(Of(IF n = 0 THEN x ELSE res, ShiftedIn(f, x, res, n, mask)))
  <2> DEFINE c == And(x, mask) # 0
             o == Exclusive(Negative(x), Negative(res))
  <2>1. c \in BOOLEAN /\ o \in BOOLEAN
    BY DEF Exclusive
  <2>2. ShiftedIn(f, x, res, n, mask) = IF n = 0 THEN f ELSE
           [Marked(f, res) EXCEPT !.carry = c, !.overflow = IF n = 1 THEN o ELSE @]
    BY DEF ShiftedIn
  <2> HIDE DEF c, o, n
  <2>3. Result(Of(res, ShiftedIn(f, x, res, n, mask)))
    BY <2>1, <2>2, ShiftResult
  <2> QED BY <2>3 DEF Result, Of
<1> DEFINE u == Or(Wrap(x * 2^n), y \div 2^(Width - n))
           v == Or(x \div 2^n, Wrap(y * 2^(Width - n)))
<1>3. u \in Word /\ v \in Word
  BY WordOfBits DEF Or
<1>4. /\ Shld(x, y, k, f) = Of(IF n = 0 THEN x ELSE u, ShiftedIn(f, x, u, n, Width - n))
      /\ Shrd(x, y, k, f) = Of(IF n = 0 THEN x ELSE v, ShiftedIn(f, x, v, n, n - 1))
  BY DEF Shld, Shrd
<1> HIDE DEF n, u, v
<1> QED BY <1>2, <1>3, <1>4

LEMMA RotationResults ==
  ASSUME NEW x \in Word, NEW y \in Word, NEW f \in Flags
  PROVE  /\ Result(Rol(x, y, f)) /\ Result(Ror(x, y, f))
         /\ Result(Rcl(x, y, f)) /\ Result(Rcr(x, y, f))
<1>1. ASSUME NEW v \in 0..2 * Size - 1
      PROVE  Ring(v).res \in Word /\ Ring(v).carry \in BOOLEAN
  <2>1. PICK c \in {0, 1}, r \in 0..Size - 1 : Ring(v) = [res |-> r, carry |-> c = 1]
    BY RingFacts
  <2> QED BY <2>1, WidthFacts
<1> DEFINE n == Masked(y) % Width
           u == IF n = 0 THEN x ELSE Or(Wrap(x * 2^n), x \div 2^(Width - n))
           v == IF n = 0 THEN x ELSE Or(x \div 2^n, Wrap(x * 2^(Width - n)))
           c == u % 2 = 1
           o == Exclusive(Negative(u), c)
           d == Negative(v)
           p == Exclusive(Negative(v), IsSet(v, Width - 2))
           m == Steps(y)
           s == Through(OneLeft, x, f, m)
           t == Through(OneRight, x, f, m)
           z == WithCarry(x, f)
<1>2. u \in Word /\ v \in Word
  BY WordOfBits DEF Or
<1>3. c \in BOOLEAN /\ o \in BOOLEAN /\ d \in BOOLEAN /\ p \in BOOLEAN
  BY DEF Exclusive, Negative
<1>4. /\ Rol(x, y, f) = Of(u, IF n = 0 THEN f ELSE
           [f EXCEPT !.carry = c, !.overflow = IF n = 1 THEN o ELSE @])
      /\ Ror(x, y, f) = Of(v, IF n = 0 THEN f ELSE
           [f EXCEPT !.carry = d, !.overflow = IF n = 1 THEN p ELSE @])
  BY DEF Rol, Ror
<1>5. Width \in Nat /\ m \in 0..Width
  <2>1. Masked(y) \in Nat /\ Width + 1 \in Nat \ {0} /\ Width \in Nat
    BY CountFacts, WidthFacts
  <2> HIDE DEF n, u, v, c, o, d, p
  <2> QED BY <2>1 DEF Steps
<1> HIDE DEF n, u, v, c, o, d, p, m
<1>6. Result(Of(u, f)) /\ Result(Of(v, f))
  BY <1>2 DEF Result, Of
<1>7. Result(Rol(x, y, f)) /\ Result(Ror(x, y, f))
  <2>1. Result(Of(u, [f EXCEPT !.carry = c, !.overflow = IF n = 1 THEN o ELSE @]))
    BY <1>2, <1>3, TurnResult
  <2>2. Result(Of(v, [f EXCEPT !.carry = d, !.overflow = IF n = 1 THEN p ELSE @]))
    BY <1>2, <1>3, TurnResult
  <2> QED BY <1>4, <1>6, <2>1, <2>2
<1>8. /\ s.res \in Word /\ s.carry \in BOOLEAN
      /\ t.res \in Word /\ t.carry \in BOOLEAN
  <2> DEFINE back == Width + 1 - m
             b == Turned(z, Width + 1, back)
             a == Turned(z, Width + 1, m)
  <2>1. m \in 0..Width + 1 /\ back \in 0..Width + 1 /\ (m = 0 => back = Width + 1)
        /\ (m # 0 => back \in 0..Width)
    BY <1>5
  <2>2. /\ z \in 0..2 * Size - 1 /\ Turned(z, Width + 1, Width + 1) = z
        /\ s = Ring(a) /\ t = Ring(b)
    BY <2>1, ThroughRings
  <2>3. a \in 0..2 * Size - 1 /\ b \in 0..2 * Size - 1
    <3> HIDE DEF z, back
    <3> QED BY <1>5, <2>1, <2>2, TurnedStep
  <2> HIDE DEF a, b
  <2> QED BY <1>1, <2>2, <2>3
<1>9. Result(Rcl(x, y, f)) /\ Result(Rcr(x, y, f))
  <2> DEFINE e == s.carry
             g == Exclusive(Negative(s.res), e)
             h == Negative(x) \/ f.carry
             i == t.carry
  <2>1. e \in BOOLEAN /\ i \in BOOLEAN
    BY <1>8
  <2>2. g \in BOOLEAN /\ h \in BOOLEAN
    BY DEF Exclusive
  <2>3. /\ Rcl(x, y, f) = Of(s.res, [f EXCEPT !.carry = e, !.overflow = IF y = 1 THEN g ELSE @])
        /\ Rcr(x, y, f) = Of(t.res, [f EXCEPT !.carry = i, !.overflow = IF y = 1 THEN h ELSE @])
    BY DEF Rcl, Rcr, m
  <2> HIDE DEF s, t, e, g, h, i
  <2>4. Result(Of(s.res, [f EXCEPT !.carry = e, !.overflow = IF y = 1 THEN g ELSE @]))
    BY <1>8, <2>1, <2>2, TurnResult
  <2>5. Result(Of(t.res, [f EXCEPT !.carry = i, !.overflow = IF y = 1 THEN h ELSE @]))
    BY <1>8, <2>1, <2>2, TurnResult
  <2> QED BY <2>3, <2>4, <2>5
<1> QED BY <1>7, <1>9

(* tzcnt, bsr, bsf and popcnt; btr, bts and btc.                           *)
LEMMA ScanResults ==
  ASSUME NEW x \in Word, NEW f \in Flags
  PROVE  /\ Result(Tzcnt(x, f)) /\ Result(Bsr(x, f))
         /\ Result(Bsf(x, f)) /\ Result(Popcnt(x, f))
<1> DEFINE t == Lowest(Bits(x) \cup {Width})
           h == IF x = 0 THEN Size - 1 ELSE Highest(Bits(x))
           l == IF x = 0 THEN Size - 1 ELSE Lowest(Bits(x))
           n == Cardinality(Bits(x))
           c == t = Width
           z == t = 0
           e == x = 0
<1>1. Width \in Nat /\ Places = 0..Width - 1 /\ Bits(x) \subseteq Places
  BY WidthFacts DEF Bits, Places
<1>2. t \in Word
  <2> DEFINE P == Bits(x) \cup {Width}
  <2>1. P \subseteq Nat /\ P # {} /\ P \subseteq 0..Width
    BY <1>1
  <2> HIDE DEF P
  <2>2. Lowest(P) \in P
    BY <2>1, LowestFacts
  <2> QED BY <2>1, <2>2, CountsAreWords DEF P
<1>3. h \in Word /\ l \in Word /\ n \in Word
  <2>1. n \in Word /\ Size - 1 \in Word
    BY CountsAreWords
  <2>2. CASE x # 0
    <3>1. Bits(x) # {} /\ Bits(x) \subseteq Nat
      BY <1>1, <2>2, SomeBit
    <3>2. Lowest(Bits(x)) \in Bits(x) /\ Highest(Bits(x)) \in Bits(x)
      BY <2>2, <3>1, LowestFacts, BsrIsHighest
    <3>3. Lowest(Bits(x)) \in 0..Width /\ Highest(Bits(x)) \in 0..Width
      BY <1>1, <3>2
    <3> QED BY <2>1, <2>2, <3>3, CountsAreWords
  <2> QED BY <2>1, <2>2
<1>4. c \in BOOLEAN /\ z \in BOOLEAN /\ e \in BOOLEAN
  OBVIOUS
<1>5. /\ Tzcnt(x, f) = Of(t, [f EXCEPT !.carry = c, !.zero = z])
      /\ Bsr(x, f) = Of(h, [f EXCEPT !.zero = e]) /\ Bsf(x, f) = Of(l, [f EXCEPT !.zero = e])
      /\ Popcnt(x, f) = Of(n, [f EXCEPT !.overflow = FALSE, !.sign = FALSE,
                                 !.zero = e, !.parity = FALSE, !.carry = FALSE])
  BY DEF Tzcnt, Bsr, Bsf, Popcnt
<1> HIDE DEF t, h, l, n, c, z, e
<1>6. [f EXCEPT !.carry = c, !.zero = z] \in Flags /\ [f EXCEPT !.zero = e] \in Flags
  <2>1. [f EXCEPT !.zero = e] \in Flags /\ [f EXCEPT !.carry = c, !.zero = z] \in Flags
    BY <1>4 DEF Flags
  <2> QED BY <2>1
<1>7. [f EXCEPT !.overflow = FALSE, !.sign = FALSE,
                !.zero = e, !.parity = FALSE, !.carry = FALSE] \in Flags
  BY <1>4 DEF Flags
<1> QED BY <1>2, <1>3, <1>5, <1>6, <1>7 DEF Result, Of

LEMMA ChangeResults ==
  ASSUME NEW x \in Word, NEW y \in Word, NEW f \in Flags
  PROVE  Result(Btr(x, y, f)) /\ Result(Bts(x, y, f)) /\ Result(Btc(x, y, f))
<1>1. \A B : WordOf(B) \in Word
  BY WordOfBits
<1> QED BY <1>1, LogicResults DEF Btr, Bts, Btc, And, Or, Result, Of

LEMMA TypeHolds == Init => TypeOK
<1>1. 0 \in Word
  BY WidthFacts
<1>2. [i \in {"carry", "zero", "sign", "overflow", "parity"} |-> FALSE] \in Flags
  BY DEF Flags
<1> QED BY <1>1, <1>2 DEF Init, TypeOK

LEMMA TypeKept == TypeOK /\ [Next]_vars => TypeOK'
<1> SUFFICES ASSUME TypeOK, [Next]_vars
             PROVE  TypeOK'
  OBVIOUS
<1>0. dst \in Word /\ src \in Word /\ flags \in Flags
  BY DEF TypeOK
<1>1. ASSUME NEW r, Result(r), Answers(r) PROVE TypeOK'
  BY <1>0, <1>1 DEF Result, Answers, TypeOK
<1>2. CASE Load
  BY <1>0, <1>2 DEF Load, TypeOK
<1>3. CASE AddOrSubtract
  <2>1. \A r \in Sums : Result(r)
    BY <1>0, SumResults DEF Sums
  <2> QED BY <1>1, <1>3, <2>1 DEF AddOrSubtract
<1>4. CASE Combine
  <2>1. \A r \in Logicals : Result(r)
    BY <1>0, LogicResults DEF Logicals
  <2> QED BY <1>1, <1>4, <2>1 DEF Combine
<1>5. CASE Compare
  <2>1. \A f \in Tests : f \in Flags
    BY <1>0, LogicResults DEF Tests
  <2> QED BY <1>0, <1>5, <2>1 DEF Compare, TypeOK
<1>6. CASE Multiply
  <2>1. \A p \in Products : Results(p)
    BY <1>0, ProductResults DEF Products
  <2> QED BY <1>6, <2>1 DEF Multiply, Results, TypeOK
<1>7. CASE Divide
  <2>1. PICK upper \in Word :
          /\ Divides(upper, src)
          /\ dst' = Div(upper, dst, src)[1] /\ src' = Div(upper, dst, src)[2]
          /\ flags' = flags
    BY <1>7 DEF Divide
  <2>2. Div(upper, dst, src)[1] \in Word /\ Div(upper, dst, src)[2] \in Word
    BY <1>0, <2>1, DivAgrees
  <2> QED BY <1>0, <2>1, <2>2 DEF TypeOK
<1>8. CASE Shift
  <2>1. \A r \in Shifts : Result(r)
    BY <1>0, ShiftResults DEF Shifts
  <2>2. \A r \in DoubleShifts : Result(r)
    BY <1>0, DoubleShiftResults DEF DoubleShifts
  <2> QED BY <1>1, <1>8, <2>1, <2>2 DEF Shift
<1>9. CASE Rotate
  <2>1. \A r \in Rotations : Result(r)
    BY <1>0, RotationResults DEF Rotations
  <2> QED BY <1>1, <1>9, <2>1 DEF Rotate
<1>10. CASE Scan
  <2>1. \A r \in Scans : Result(r)
    BY <1>0, ScanResults DEF Scans
  <2> QED BY <1>1, <1>10, <2>1 DEF Scan
<1>11. CASE Change
  <2>1. \A r \in Changes : Result(r)
    BY <1>0, ChangeResults DEF Changes
  <2> QED BY <1>1, <1>11, <2>1 DEF Change
<1>12. CASE Reverse
  BY <1>0, <1>12, BswapAgrees DEF Reverse, TypeOK
<1>13. CASE Checksum
  <2>1. Width \div ByteBits \in 1..Width \div ByteBits
    BY ByteFacts
  <2>2. Crc32(dst, src, Width \div ByteBits) \in Word
    BY <1>0, <2>1, Crc32Agrees
  <2> QED BY <1>0, <1>13, <2>2 DEF Checksum, TypeOK
<1>14. CASE UNCHANGED vars
  BY <1>0, <1>14 DEF vars, TypeOK
<1> QED BY <1>2, <1>3, <1>4, <1>5, <1>6, <1>7, <1>8, <1>9, <1>10, <1>11, <1>12, <1>13, <1>14 DEF Next

(* Whatever instructions run, the registers stay words and the flags stay  *)
(* flags: no result of the emulator has a bit past the width.              *)
THEOREM Types == Spec => []TypeOK
BY TypeHolds, TypeKept, PTL DEF Spec

(* The emulator computes every integer instruction as the processor does,  *)
(* whatever the width, the operands, the counts, the polynomial and the    *)
(* flags, along every run of the machine: the assertions of the checked    *)
(* instructions never fail, but that of the overflow of rcr.               *)
THEOREM Integers == Spec => []IntegersAgree
<1>1. TypeOK => IntegersAgree
  BY SumsAlwaysAgree, ProductsAlwaysAgree, ShiftsAlwaysAgree, RotationsAlwaysAgree,
     LogicAlwaysAgrees, ScansAlwaysAgree, PlacesAlwaysAgree, BytesAlwaysAgree,
     ChecksumsAlwaysAgree DEF IntegersAgree, BitsAgree
<1> QED BY <1>1, Types, PTL
=============================================================================
