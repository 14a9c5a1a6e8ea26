----------------------------- MODULE WordsProofs ----------------------------
(* Words of every even width: what the lemmas about instructions need of   *)
(* powers of two, of wrapping and signs, and of the bits of a word.        *)
EXTENDS Words, FiniteSetTheorems, FunctionTheorems, WellFoundedInduction, TLAPS

-----------------------------------------------------------------------------
(* Powers of two.  The provers know nothing of exponents; the number of    *)
(* the subsets of a set is one.                                            *)
LEMMA TwoPower ==
  ASSUME NEW n \in Nat
  PROVE  2^n \in Nat \ {0} /\ 2^(n + 1) = 2 * 2^n
<1> DEFINE A == SUBSET (1..n)
           B == {T \cup {n + 1} : T \in A}
           f == [T \in A |-> T \cup {n + 1}]
<1>1. IsFiniteSet(1..n) /\ Cardinality(1..n) = n
  BY FS_Interval
<1>2. IsFiniteSet(1..n + 1) /\ Cardinality(1..n + 1) = n + 1
  BY FS_Interval
<1>3. IsFiniteSet(A) /\ Cardinality(A) = 2^n /\ Cardinality(A) \in Nat
  BY <1>1, FS_SUBSET, FS_CardinalityType
<1>4. Cardinality(SUBSET (1..n + 1)) = 2^(n + 1)
  BY <1>2, FS_SUBSET
<1>5. f \in Bijection(A, B)
  <2>1. f \in [A -> B]
    OBVIOUS
  <2>2. \A a, b \in A : f[a] = f[b] => a = b
    <3>1. \A a \in A : n + 1 \notin a
      OBVIOUS
    <3>2. \A a \in A : a = f[a] \ {n + 1}
      BY <3>1
    <3> QED BY <3>2
  <2>3. \A t \in B : \E s \in A : f[s] = t
    OBVIOUS
  <2> QED BY <2>1, <2>2, <2>3, Fun_IsBij
<1>6. IsFiniteSet(B) /\ Cardinality(B) = 2^n
  BY <1>3, <1>5, FS_Bijection, Fun_ExistsBij
<1>7. A \cap B = {}
  OBVIOUS
<1>8. SUBSET (1..n + 1) = A \cup B
  <2>1. 1..n + 1 = (1..n) \cup {n + 1}
    OBVIOUS
  <2>2. ASSUME NEW T \in SUBSET (1..n + 1)
        PROVE  T \in A \cup B
    <3>1. CASE n + 1 \in T
      <4>1. T \ {n + 1} \in A /\ T = (T \ {n + 1}) \cup {n + 1}
        BY <2>1, <3>1
      <4> QED BY <4>1
    <3>2. CASE n + 1 \notin T
      BY <2>1, <3>2
    <3> QED BY <3>1, <3>2
  <2>3. A \cup B \subseteq SUBSET (1..n + 1)
    BY <2>1
  <2> QED BY <2>2, <2>3
<1> HIDE DEF A, B
<1>9. 2^(n + 1) = 2^n + 2^n
  <2>1. Cardinality(A \cup B) = Cardinality(A) + Cardinality(B) - Cardinality({})
    BY <1>3, <1>6, <1>7, FS_Union
  <2>2. Cardinality({}) = 0
    BY FS_EmptySet
  <2>3. Cardinality(A \cup B) = 2^n + 2^n
    BY <1>3, <1>6, <2>1, <2>2
  <2> QED BY <1>4, <1>8, <2>3
<1>10. 2^n # 0
  <2>1. {} \in A
    BY DEF A
  <2> QED BY <1>3, <2>1, FS_EmptySet
<1> QED BY <1>3, <1>9, <1>10

(* A set of numbers has a least one. *)
LEMMA Least ==
  ASSUME NEW T, T \subseteq Nat, T # {}
  PROVE  \E x \in T : \A y \in T : x <= y
<1> DEFINE R == {s \in Nat \X Nat : s[1] < s[2]}
<1>1. IsWellFoundedOn(R, Nat)
  BY NatLessThanWellFounded DEF OpToRel
<1>2. \A x, y \in Nat : <<x, y>> \in R <=> x < y
  OBVIOUS
<1> HIDE DEF R
<1>3. PICK x \in T : \A y \in T : ~(<<y, x>> \in R)
  BY <1>1, WFMin
<1>4. \A y \in T : ~(y < x)
  BY <1>2, <1>3
<1> QED BY <1>4

(* Exponents are added.                                                    *)
LEMMA PowersMultiply ==
  ASSUME NEW m \in Nat
  PROVE  \A n \in Nat : 2^(m + n) = 2^m * 2^n
<1> DEFINE T == {n \in Nat : 2^(m + n) # 2^m * 2^n}
<1> SUFFICES ASSUME T # {} PROVE FALSE
  OBVIOUS
<1>1. PICK n \in T : \A k \in T : n <= k
  <2>1. T \subseteq Nat
    OBVIOUS
  <2> HIDE DEF T
  <2> QED BY <2>1, Least
<1>2. n \in Nat /\ 2^(m + n) # 2^m * 2^n
  OBVIOUS
<1>3. 2^m \in Nat /\ 2^0 = 1 /\ m + 0 = m
  BY TwoPower
<1>4. CASE n = 0
  BY <1>2, <1>3, <1>4
<1>5. CASE n > 0
  <2>1. n - 1 \in Nat /\ n - 1 \notin T /\ (n - 1) + 1 = n /\ (m + (n - 1)) + 1 = m + n
        /\ m + (n - 1) \in Nat
    BY <1>1, <1>2, <1>5
  <2>2. 2^(m + (n - 1)) = 2^m * 2^(n - 1)
    BY <2>1
  <2>3. 2^n = 2 * 2^(n - 1) /\ 2^(m + n) = 2 * 2^(m + (n - 1)) /\ 2^(n - 1) \in Nat
    BY <2>1, TwoPower
  <2>4. 2 * (2^m * 2^(n - 1)) = 2^m * (2 * 2^(n - 1))
    BY <1>3, <2>3
  <2> QED BY <1>2, <2>2, <2>3, <2>4
<1> QED BY <1>2, <1>4, <1>5

LEMMA PowerSplit ==
  ASSUME NEW i \in Nat, NEW k \in Nat, i <= k
  PROVE  /\ k - i \in Nat /\ 2^i \in Nat \ {0} /\ 2^(k - i) \in Nat \ {0}
         /\ 2^k \in Nat \ {0} /\ 2^k = 2^i * 2^(k - i) /\ 2^k = 2^(k - i) * 2^i
         /\ i < k => /\ 2^(k - i) = 2 * 2^(k - i - 1) /\ 2^(k - i - 1) \in Nat \ {0}
                     /\ 2^i < 2^k
<1>1. k - i \in Nat /\ i + (k - i) = k
  OBVIOUS
<1>2. 2^i \in Nat \ {0} /\ 2^(k - i) \in Nat \ {0} /\ 2^k \in Nat \ {0}
  BY <1>1, TwoPower
<1>3. 2^(i + (k - i)) = 2^i * 2^(k - i)
  BY <1>1, PowersMultiply
<1>4. 2^k = 2^i * 2^(k - i)
  BY <1>1, <1>3
<1>5. ASSUME i < k
      PROVE  /\ 2^(k - i) = 2 * 2^(k - i - 1) /\ 2^(k - i - 1) \in Nat \ {0}
             /\ 2^i < 2^k
  <2>1. k - i - 1 \in Nat /\ (k - i - 1) + 1 = k - i
    BY <1>5
  <2>2. 2^(k - i) = 2 * 2^(k - i - 1) /\ 2^(k - i - 1) \in Nat \ {0}
    BY <2>1, TwoPower
  <2> DEFINE p == 2^i
             q == 2^(k - i)
             h == 2^(k - i - 1)
             r == 2^k
  <2>3. p \in Nat \ {0} /\ h \in Nat \ {0} /\ q = 2 * h /\ r = p * q
    BY <1>2, <1>4, <2>2
  <2> HIDE DEF p, q, h, r
  <2>4. p * h \in Nat /\ p * h >= p /\ r = 2 * (p * h)
    BY <2>3
  <2>5. p < r
    BY <2>3, <2>4
  <2> QED BY <2>2, <2>5 DEF p, r
<1>6. 2^i * 2^(k - i) = 2^(k - i) * 2^i
  BY <1>2
<1> QED BY <1>1, <1>2, <1>4, <1>5, <1>6

-----------------------------------------------------------------------------
(* Words.                                                                  *)

(* What the assumption on the width gives: at least two bits.            *)
LEMMA WidthFacts ==
  /\ Width \in Nat /\ Width >= 2 /\ Half \in Nat /\ Half >= 2
  /\ Size = 2 * Half /\ Word = 0..Size - 1 /\ Size \in Nat
<1>1. Width \in Nat \ {0} /\ Width % 2 = 0 /\ Half \in Nat \ {0} /\ 2 * Half = 2^Width
  BY WidthAssumption
<1>2. Width >= 2 /\ Width - 2 \in Nat /\ (Width - 2) + 1 = Width - 1 /\ (Width - 1) + 1 = Width
  BY <1>1
<1>3. 2^Width = 2 * 2^(Width - 1) /\ 2^(Width - 1) = 2 * 2^(Width - 2) /\ 2^(Width - 2) \in Nat \ {0}
  BY <1>2, TwoPower
<1> QED BY <1>1, <1>2, <1>3 DEF Size, Word

LEMMA WordPower == Size = 2^Width
BY WidthAssumption DEF Size

(* The word of a number that is at most one word off.                    *)
LEMMA WrapFacts ==
  ASSUME NEW n \in Int
  PROVE  /\ Wrap(n) \in Word
         /\ n \in Word => Wrap(n) = n
         /\ Size <= n /\ n < 2 * Size => Wrap(n) = n - Size
         /\ -Size <= n /\ n < 0 => Wrap(n) = n + Size
BY WidthFacts DEF Wrap

(* A number of less than two words is a word, or a word more than one.     *)
LEMMA OneWord ==
  ASSUME NEW n \in Nat, n < 2 * Size
  PROVE  /\ n < Size => Wrap(n) = n
         /\ n >= Size => Wrap(n) = n - Size
<1>1. n \in Int /\ n < Size => n \in Word
  BY WidthFacts
<1> QED BY <1>1, WrapFacts

(* What a word and a sum of two words are. *)
LEMMA WordFacts ==
  ASSUME NEW x \in Word
  PROVE  /\ x \in Int /\ 0 <= x /\ x < 2 * Half /\ Half \in Int /\ Half >= 2
         /\ Size = 2 * Half
         /\ Signed(x) = IF x >= Half THEN x - 2 * Half ELSE x
         /\ Negative(x) <=> x >= Half
BY WidthFacts DEF Signed, Negative

(* The word of the sum or the difference of two words and a carry.       *)
LEMMA SumFacts ==
  ASSUME NEW n \in Int, -2 * Half <= n, n < 4 * Half
  PROVE  /\ Wrap(n) \in Word
         /\ n < 0 => Wrap(n) = n + 2 * Half
         /\ 0 <= n /\ n < 2 * Half => Wrap(n) = n
         /\ n >= 2 * Half => Wrap(n) = n - 2 * Half
         /\ n \in Word <=> 0 <= n /\ n < 2 * Half
BY WidthFacts, WrapFacts

(* A number that is put together from two parts is told from them.         *)
LEMMA Parts ==
  ASSUME NEW s \in Nat \ {0}, NEW u \in Int, NEW l \in 0..s - 1, NEW n,
         n = u * s + l
  PROVE  n \in Int /\ n \div s = u /\ n % s = l
<1>1. u * s \in Int
  OBVIOUS
<1>2. n \in Int
  BY <1>1
<1>3. n \div s \in Int /\ n % s \in 0..s - 1 /\ n = s * (n \div s) + (n % s)
  BY <1>2
<1> DEFINE v == n \div s
           m == n % s
<1> HIDE DEF v, m
<1>4. v \in Int /\ m \in 0..s - 1 /\ n = s * v + m
  BY <1>3 DEF v, m
<1>5. v = u
  <2>1. CASE v > u
    <3>1. v >= u + 1 /\ s * v >= s * (u + 1) /\ s * (u + 1) = u * s + s
      BY <1>4, <2>1
    <3> QED BY <1>1, <1>4, <3>1
  <2>2. CASE v < u
    <3>1. v <= u - 1 /\ s * v <= s * (u - 1) /\ s * (u - 1) = u * s - s
      BY <1>4, <2>2
    <3> QED BY <1>1, <1>4, <3>1
  <2> QED BY <1>4, <2>1, <2>2
<1>6. m = l
  BY <1>1, <1>4, <1>5
<1> QED BY <1>2, <1>5, <1>6 DEF v, m

(* The two words of a number.                                              *)
LEMMA TwoWords ==
  ASSUME NEW n \in Int
  PROVE  /\ n \div Size \in Int /\ Wrap(n) \in Word
         /\ n = (n \div Size) * Size + Wrap(n)
BY WidthFacts DEF Wrap

(* A number is told from its words.                                      *)
LEMMA WordsOf ==
  ASSUME NEW u \in Int, NEW l \in Word, NEW n, n = u * Size + l
  PROVE  n \in Int /\ n \div Size = u /\ Wrap(n) = l
<1>1. Size \in Nat \ {0} /\ l \in 0..Size - 1
  BY WidthFacts
<1>2. n \in Int /\ n \div Size = u /\ n % Size = l
  BY <1>1, Parts
<1> QED BY <1>2 DEF Wrap

(* A product is at most that of the bounds.                              *)
LEMMA BoundedProduct ==
  ASSUME NEW m \in Nat, NEW n \in Nat, NEW x \in 0..m, NEW y \in 0..n
  PROVE  x * y \in Nat /\ m * n \in Nat /\ x * y <= m * n
<1>1. x * y <= m * y /\ m * y <= m * n
  OBVIOUS
<1> QED BY <1>1

(* an exact product that is not negative *)
LEMMA UnsignedProduct ==
  ASSUME NEW x \in Word, NEW y \in Word
  PROVE  /\ x * y \in Nat /\ (x * y) \div Size \in Word
         /\ Wrap((x * y) \div Size) = (x * y) \div Size
         /\ x * y \in Word <=> (x * y) \div Size = 0
<1> DEFINE e == x * y
<1>1. e \in Nat /\ e <= (Size - 1) * (Size - 1)
  BY WidthFacts, BoundedProduct
<1>2. e < Size * Size
  <2>1. (Size - 1) * (Size - 1) < Size * Size
    BY WidthFacts
  <2> QED BY <1>1, <2>1, WidthFacts
<1> HIDE DEF e
<1>3. e \div Size \in Int /\ Wrap(e) \in Word /\ e = (e \div Size) * Size + Wrap(e)
  BY <1>1, TwoWords
<1> DEFINE u == e \div Size
<1> HIDE DEF u
<1>4. u \in Int /\ e = u * Size + Wrap(e) /\ 0 <= Wrap(e) /\ Wrap(e) < Size /\ Wrap(e) \in Int
  BY <1>3, WidthFacts DEF u
<1>5. u >= 0
  <2>1. CASE u <= -1
    <3>1. u * Size <= -Size
      BY <1>4, <2>1, WidthFacts
    <3> QED BY <1>1, <1>4, <3>1, WidthFacts
  <2> QED BY <1>4, <2>1
<1>6. u < Size
  <2>1. CASE u >= Size
    <3>1. u * Size >= Size * Size
      BY <1>4, <2>1, WidthFacts
    <3> QED BY <1>1, <1>2, <1>4, <3>1, WidthFacts
  <2> QED BY <1>4, <2>1, WidthFacts
<1>7. u = 0 => e = Wrap(e)
  BY <1>4, WidthFacts
<1>8. u # 0 => e >= Size
  <2>1. u # 0 => u * Size >= Size
    BY <1>4, <1>5, WidthFacts
  <2> QED BY <1>4, <2>1, WidthFacts
<1>9. e \in Word <=> u = 0
  BY <1>1, <1>4, <1>7, <1>8, WidthFacts
<1>10. u \in Word /\ Wrap(u) = u
  BY <1>4, <1>5, <1>6, WidthFacts, WrapFacts
<1> QED BY <1>1, <1>9, <1>10 DEF e, u

(* The signed reading of a word.                                         *)
LEMMA SignedFacts ==
  ASSUME NEW x \in Word
  PROVE  /\ Signed(x) \in (-Half)..(Half - 1) /\ Wrap(Signed(x)) = x
         /\ (Negative(x) <=> Signed(x) < 0)
<1>1. x \in Int /\ 0 <= x /\ x < 2 * Half /\ Half \in Int
      /\ Signed(x) = (IF x >= Half THEN x - 2 * Half ELSE x) /\ (Negative(x) <=> x >= Half)
  BY WordFacts
<1>2. Signed(x) \in Int /\ -2 * Half <= Signed(x) /\ Signed(x) < 4 * Half
  BY <1>1
<1>3. Wrap(Signed(x)) = x
  BY <1>1, <1>2, SumFacts
<1> QED BY <1>1, <1>3

(* A number is the signed reading of its low word when it fits in one.     *)
LEMMA Fits ==
  ASSUME NEW n \in Int
  PROVE  n \in (-Half)..(Half - 1) <=> n = Signed(Wrap(n))
<1>1. Wrap(n) \in Word
  BY WrapFacts
<1>2. Signed(Wrap(n)) \in (-Half)..(Half - 1)
  BY <1>1, SignedFacts
<1>3. ASSUME n \in (-Half)..(Half - 1)
      PROVE  n = Signed(Wrap(n))
  <2>1. \/ n >= 0 /\ Wrap(n) = n
        \/ n < 0 /\ Wrap(n) = n + 2 * Half
    BY <1>3, WidthFacts, SumFacts
  <2> QED BY <1>1, <1>3, <2>1, WordFacts, WidthFacts
<1> QED BY <1>2, <1>3

LEMMA Dividing ==
  ASSUME NEW b \in Nat \ {0}, NEW x \in Nat
  PROVE  /\ x \div b \in Nat /\ x % b \in 0..b - 1 /\ x % b \in Nat
         /\ x = (x \div b) * b + (x % b)
<1>1. x \div b \in Int /\ x % b \in 0..b - 1 /\ x = b * (x \div b) + (x % b)
  OBVIOUS
<1> DEFINE q == x \div b
           r == x % b
<1> HIDE DEF q, r
<1>2. q \in Int /\ r \in 0..b - 1 /\ x = b * q + r
  BY <1>1 DEF q, r
<1>3. q >= 0
  <2>1. CASE q <= -1
    <3>1. b * q <= b * (-1) /\ b * (-1) = -b
      BY <1>2, <2>1
    <3> QED BY <1>2, <3>1
  <2> QED BY <1>2, <2>1
<1>4. b * q = q * b
  BY <1>2
<1> QED BY <1>2, <1>3, <1>4 DEF q, r

(* A division in two steps.                                                *)
LEMMA DivDiv ==
  ASSUME NEW a \in Nat \ {0}, NEW b \in Nat \ {0}, NEW x \in Nat
  PROVE  a * b \in Nat \ {0} /\ x \div (a * b) = (x \div a) \div b
<1> DEFINE q == x \div a
           r == x % a
           p == q \div b
           s == q % b
<1>1. q \in Nat /\ r \in 0..a - 1 /\ r \in Nat /\ x = q * a + r
  BY Dividing
<1> HIDE DEF q, r
<1>2. p \in Nat /\ s \in 0..b - 1 /\ s \in Nat /\ q = p * b + s
  BY <1>1, Dividing
<1> HIDE DEF p, s
<1>3. a * b \in Nat \ {0} /\ s * a \in Nat /\ p * b \in Nat /\ p * (a * b) = (p * b) * a
  BY <1>2
<1>4. x = p * (a * b) + (s * a + r)
  <2>1. q * a = (p * b) * a + s * a
    BY <1>2, <1>3
  <2> QED BY <1>1, <1>3, <2>1
<1>5. s * a + r \in 0..a * b - 1
  <2>1. s * a <= (b - 1) * a /\ (b - 1) * a = a * b - a
    BY <1>2
  <2> QED BY <1>1, <1>3, <2>1
<1>6. x \div (a * b) = p
  <2> DEFINE c == a * b
             l == s * a + r
  <2>1. c \in Nat \ {0} /\ l \in 0..c - 1 /\ x = p * c + l
    BY <1>3, <1>4, <1>5
  <2> HIDE DEF c, l
  <2>2. x \div c = p
    BY <1>2, <2>1, Parts
  <2> QED BY <2>2 DEF c
<1> QED BY <1>3, <1>6 DEF p, q

(* A factor of both sides of a division.                                   *)
LEMMA DivCancels ==
  ASSUME NEW a \in Nat \ {0}, NEW b \in Nat \ {0}, NEW x \in Nat
  PROVE  /\ x * b \in Nat /\ (x * b) \div (a * b) = x \div a
         /\ (x * b) % (a * b) = (x % a) * b
<1> DEFINE q == x \div a
           r == x % a
           c == a * b
           l == r * b
           n == x * b
<1>1. q \in Nat /\ r \in 0..a - 1 /\ r \in Nat /\ x = q * a + r
  BY Dividing
<1> HIDE DEF q, r
<1>2. c \in Nat \ {0} /\ l \in Nat /\ n \in Nat
  BY <1>1
<1>3. n = q * c + l
  <2>1. x * b = (q * a) * b + r * b /\ (q * a) * b = q * (a * b)
    BY <1>1
  <2> QED BY <2>1
<1>4. l <= c - b
  <2>1. r * b <= (a - 1) * b /\ (a - 1) * b = a * b - b
    BY <1>1
  <2> QED BY <2>1
<1> HIDE DEF c, l, n
<1>5. n \div c = q /\ n % c = l
  BY <1>1, <1>2, <1>3, <1>4, Parts
<1> QED BY <1>2, <1>5 DEF n, c, q, r, l

-----------------------------------------------------------------------------
(* The bits of a number.                                                   *)

(* An even number more leaves the lowest bit.                              *)
LEMMA SameParity ==
  ASSUME NEW x \in Int, NEW y \in Int
  PROVE  (2 * y + x) % 2 = x % 2
OBVIOUS

LEMMA BitFacts ==
  ASSUME NEW x \in Nat, NEW i \in Nat
  PROVE  2^i \in Nat \ {0} /\ x \div 2^i \in Nat /\ Bit(x, i) \in {0, 1}
<1>1. 2^i \in Nat \ {0}
  BY TwoPower
<1> DEFINE p == 2^i
<1> HIDE DEF p
<1>2. p \in Nat \ {0}
  BY <1>1 DEF p
<1>3. x \div p \in Nat
  BY <1>2, Dividing
<1>4. (x \div p) % 2 \in {0, 1}
  BY <1>3
<1> QED BY <1>1, <1>3, <1>4 DEF Bit, p

(* The low bits are those of the remainder, the high ones of the quotient. *)
Joins(m, u, k, r) == m = u * 2^k + r

LEMMA LowBit ==
  ASSUME NEW u \in Nat, NEW k \in Nat, NEW r \in Nat, NEW m, Joins(m, u, k, r),
         NEW i \in Nat, i < k
  PROVE  m \in Nat /\ Bit(m, i) = Bit(r, i)
<1> DEFINE p == 2^i
           h == 2^(k - i - 1)
           q == r \div p
           s == r % p
           n == u * 2^k
<1>1. p \in Nat \ {0} /\ h \in Nat \ {0} /\ 2^k = p * (2 * h) /\ 2^k \in Nat
  BY PowerSplit
<1> HIDE DEF p, h
<1>2. q \in Nat /\ s \in 0..p - 1 /\ s \in Nat /\ r = q * p + s
  BY <1>1, Dividing
<1> HIDE DEF q, s
<1>3. u * h \in Nat /\ n \in Nat /\ n = (2 * (u * h)) * p
  <2>1. u * (p * (2 * h)) = (2 * (u * h)) * p
    BY <1>1
  <2> QED BY <1>1, <2>1
<1> DEFINE w == u * h
           v == 2 * w + q
<1> HIDE DEF w
<1>4. w \in Nat /\ n = (2 * w) * p /\ n \in Nat
  BY <1>3 DEF w
<1> HIDE DEF n
<1>5. n + r = v * p + s /\ v \in Int
  <2>1. v * p = (2 * w) * p + q * p
    BY <1>1, <1>2, <1>4
  <2> QED BY <1>1, <1>2, <1>4, <2>1
<1>6. (n + r) \div p = v
  <2> DEFINE e == n + r
  <2> HIDE DEF v, e
  <2>1. e = v * p + s /\ v \in Int
    BY <1>5 DEF e
  <2>2. e \div p = v
    BY <1>1, <1>2, <2>1, Parts
  <2> QED BY <2>2 DEF e
<1>7. v % 2 = q % 2
  BY <1>2, <1>4, SameParity
<1>8. Bit(n + r, i) = ((n + r) \div p) % 2 /\ Bit(r, i) = q % 2
  BY DEF Bit, p, q
<1> HIDE DEF v
<1>9. m = n + r /\ m \in Nat
  BY <1>2, <1>4 DEF Joins, n
<1> QED BY <1>6, <1>7, <1>8, <1>9

LEMMA HighBit ==
  ASSUME NEW u \in Nat, NEW k \in Nat, NEW r \in 0..2^k - 1, NEW m, Joins(m, u, k, r),
         NEW i \in Nat, k <= i
  PROVE  m \in Nat /\ Bit(m, i) = Bit(u, i - k)
<1> DEFINE p == 2^k
           d == 2^(i - k)
           n == u * p + r
<1>1. p \in Nat \ {0} /\ d \in Nat \ {0} /\ 2^i = p * d /\ r \in 0..p - 1
  BY PowerSplit
<1>2. Bit(n, i) = (n \div 2^i) % 2 /\ Bit(u, i - k) = (u \div d) % 2
  BY DEF Bit
<1> HIDE DEF p, d
<1>3. n \in Nat
  BY <1>1
<1>6. m = n /\ n = u * p + r
  BY DEF Joins, n, p
<1> HIDE DEF n
<1>4. n \div p = u
  <2>1. u \in Int /\ n = u * p + r
    BY <1>6
  <2> QED BY <1>1, <2>1, Parts
<1>5. n \div (p * d) = (n \div p) \div d
  BY <1>1, <1>3, DivDiv
<1> QED BY <1>1, <1>2, <1>3, <1>4, <1>5, <1>6

(* The low bits of the signed reading are those of the word.               *)
LEMMA SignedBit ==
  ASSUME NEW x \in Word, NEW i \in Places
  PROVE  (Signed(x) \div 2^i) % 2 = Bit(x, i)
<1> DEFINE p == 2^i
           h == 2^(Width - i - 1)
           q == x \div p
           s == x % p
<1>1. i \in Nat /\ i < Width /\ Width \in Nat /\ x \in Nat
  BY WidthFacts DEF Places
<1>2. p \in Nat \ {0} /\ h \in Nat \ {0} /\ Size = p * (2 * h)
  BY <1>1, PowerSplit, WordPower
<1>3. Bit(x, i) = q % 2
  BY DEF Bit
<1> HIDE DEF p, h
<1>4. q \in Nat /\ s \in 0..p - 1 /\ x = q * p + s
  BY <1>1, <1>2, Dividing
<1> HIDE DEF q, s
<1>5. CASE ~Negative(x)
  BY <1>3, <1>5 DEF Signed, p, q
<1>6. CASE Negative(x)
  <2> DEFINE v == q - 2 * h
             y == x - Size
  <2>1. Signed(x) = y
    BY <1>6 DEF Signed
  <2>2. v \in Int /\ v * p = q * p - p * (2 * h)
    BY <1>2, <1>4
  <2>3. y = v * p + s
    BY <1>1, <1>2, <1>4, <2>2
  <2>4. v = 2 * (-h) + q /\ -h \in Int
    BY <1>2, <1>4
  <2>5. v % 2 = q % 2
    BY <1>4, <2>4, SameParity
  <2> HIDE DEF v, y
  <2>6. y \div p = v
    BY <1>2, <1>4, <2>2, <2>3, Parts
  <2> QED BY <1>3, <2>1, <2>5, <2>6 DEF p
<1> QED BY <1>5, <1>6

(* The two parts of a number at place k.                                   *)
LEMMA Joined ==
  ASSUME NEW x \in Nat, NEW k \in Nat
  PROVE  \E u \in Nat, r \in 0..2^k - 1 :
           Joins(x, u, k, r) /\ u = x \div 2^k /\ r = x % 2^k /\ r \in Nat
<1> DEFINE p == 2^k
<1>1. p \in Nat \ {0}
  BY TwoPower
<1> HIDE DEF p
<1>2. x \div p \in Nat /\ x % p \in 0..p - 1 /\ x % p \in Nat /\ x = (x \div p) * p + (x % p)
  BY <1>1, Dividing
<1> QED BY <1>2 DEF Joins, p

(* A bit put below the bits of q.                                          *)
Twice(u, q, b) == u = 2 * q + b

LEMMA LastBit ==
  ASSUME NEW q \in Nat, NEW b \in {0, 1}, NEW u, Twice(u, q, b), NEW j \in Nat
  PROVE  u \in Nat /\ Bit(u, j) = IF j = 0 THEN b ELSE Bit(q, j - 1)
<1>1. 2^0 = 1 /\ u \in Nat /\ u = 2 * q + b
  BY TwoPower DEF Twice
<1>2. u \div 2 = q
  BY <1>1
<1>3. CASE j = 0
  <2>1. (u \div 1) % 2 = b
    BY <1>1
  <2> QED BY <1>1, <1>3, <2>1 DEF Bit
<1>4. CASE j # 0
  <2>1. j - 1 \in Nat /\ (j - 1) + 1 = j
    BY <1>4
  <2> DEFINE p == 2^(j - 1)
  <2>2. p \in Nat \ {0} /\ 2^j = 2 * p
    BY <2>1, TwoPower
  <2>3. Bit(u, j) = (u \div 2^j) % 2 /\ Bit(q, j - 1) = (q \div p) % 2
    BY DEF Bit
  <2> HIDE DEF p
  <2>4. u \div (2 * p) = (u \div 2) \div p
    <3> DEFINE w == 2
    <3>1. w \in Nat \ {0}
      OBVIOUS
    <3> HIDE DEF w
    <3>2. u \div (w * p) = (u \div w) \div p
      BY <1>1, <2>2, <3>1, DivDiv
    <3> QED BY <3>2 DEF w
  <2> QED BY <1>1, <1>2, <1>4, <2>2, <2>3, <2>4
<1> QED BY <1>1, <1>3, <1>4

-----------------------------------------------------------------------------
(* Recursive functions: one that takes given steps exists.                 *)

(* Induction, up to a number, in a set.                                    *)
LEMMA UpTo ==
  ASSUME NEW n \in Nat, NEW T, 0 \in T, \A k \in 0..n - 1 : k \in T => k + 1 \in T
  PROVE  \A k \in 0..n : k \in T
<1> DEFINE R == {k \in 0..n : k \notin T}
<1> SUFFICES ASSUME R # {} PROVE FALSE
  OBVIOUS
<1>1. PICK m \in R : \A k \in R : m <= k
  <2>1. R \subseteq Nat
    OBVIOUS
  <2> HIDE DEF R
  <2> QED BY <2>1, Least
<1>2. m \in 0..n /\ m \notin T /\ m # 0
  OBVIOUS
<1>3. m - 1 \in 0..n - 1 /\ m - 1 \in 0..n /\ ~(m <= m - 1) /\ (m - 1) + 1 = m
  BY <1>2
<1>4. m - 1 \in T
  BY <1>1, <1>3
<1> QED BY <1>2, <1>3, <1>4

(* g is what the steps h make of a, up to n.                               *)
Repeats(a, h, n, g) ==
  /\ g = [i \in 0..n |-> g[i]] /\ g[0] = a
  /\ \A i \in 1..n : g[i] = h[i][g[i - 1]]

(* Recursion up to a number, for steps that are a function.                *)
LEMMA Recursion ==
  ASSUME NEW n \in Nat, NEW a, NEW h
  PROVE  \E g : Repeats(a, h, n, g)
<1> DEFINE T == {k \in 0..n : \E g : Repeats(a, h, k, g)}
<1>1. 0 \in T
  <2> DEFINE g == [i \in 0..0 |-> a]
  <2>1. 0..0 = {0} /\ 1..0 = {}
    OBVIOUS
  <2>2. Repeats(a, h, 0, g)
    BY <2>1 DEF Repeats
  <2> QED BY <2>2
<1>2. ASSUME NEW k \in 0..n - 1, k \in T
      PROVE  k + 1 \in T
  <2>1. PICK g : Repeats(a, h, k, g)
    BY <1>2
  <2> DEFINE e == [i \in 0..k + 1 |-> IF i = k + 1 THEN h[k + 1][g[k]] ELSE g[i]]
  <2>2. /\ k \in Nat /\ k + 1 \in 0..n /\ (k + 1) - 1 = k /\ 0 \in 0..k + 1 /\ 0 # k + 1
        /\ \A i \in 1..k + 1 : i \in 0..k + 1 /\ i - 1 \in 0..k + 1 /\ i - 1 # k + 1
                               /\ (i # k + 1 => i \in 1..k)
    OBVIOUS
  <2>3. e = [i \in 0..k + 1 |-> e[i]]
    OBVIOUS
  <2>4. e[0] = a
    BY <2>1, <2>2 DEF Repeats
  <2>5. \A i \in 1..k + 1 : e[i] = h[i][e[i - 1]]
    <3> SUFFICES ASSUME NEW i \in 1..k + 1 PROVE e[i] = h[i][e[i - 1]]
      OBVIOUS
    <3>1. e[i - 1] = g[i - 1]
      BY <2>2
    <3>2. CASE i = k + 1
      <4>1. e[i] = h[k + 1][g[k]]
        BY <2>2, <3>2
      <4> QED BY <2>2, <3>1, <3>2, <4>1
    <3>3. CASE i # k + 1
      <4>1. e[i] = g[i] /\ i \in 1..k
        BY <2>2, <3>3
      <4> HIDE DEF e
      <4> QED BY <2>1, <3>1, <4>1 DEF Repeats
    <3> QED BY <3>2, <3>3
  <2> HIDE DEF e
  <2>6. Repeats(a, h, k + 1, e)
    BY <2>3, <2>4, <2>5 DEF Repeats
  <2> QED BY <2>2, <2>6
<1>3. \A k \in 0..n : k \in T
  <2> HIDE DEF T
  <2> QED BY <1>1, <1>2, UpTo
<1> QED BY <1>3

(* Recursion up to a number in a set.                                      *)
LEMMA RecursionIn ==
  ASSUME NEW n \in Nat, NEW A, NEW a \in A, NEW h, \A i \in 1..n, v \in A : h[i][v] \in A
  PROVE  \E g : Repeats(a, h, n, g) /\ \A k \in 0..n : g[k] \in A
<1>1. PICK g : Repeats(a, h, n, g)
  BY Recursion
<1> DEFINE T == {k \in 0..n : g[k] \in A}
<1>2. 0 \in T
  BY <1>1 DEF Repeats
<1>3. ASSUME NEW k \in 0..n - 1, k \in T PROVE k + 1 \in T
  <2> DEFINE j == k + 1
  <2>1. j \in 1..n /\ j - 1 = k /\ j \in 0..n
    OBVIOUS
  <2> HIDE DEF j
  <2>2. g[j] = h[j][g[j - 1]]
    BY <1>1, <2>1 DEF Repeats
  <2>3. g[k] \in A
    BY <1>3
  <2>4. g[j] \in A
    BY <2>1, <2>2, <2>3
  <2> QED BY <2>1, <2>4 DEF j
<1>4. \A k \in 0..n : k \in T
  <2> HIDE DEF T
  <2> QED BY <1>2, <1>3, UpTo
<1> QED BY <1>1, <1>4

-----------------------------------------------------------------------------
(* The word of a set of bits.                                              *)

(* The sums of which WordOf is the last.                                   *)
SumsOf(B) ==
  CHOOSE sum : sum = [i \in 0..Width |->
                        IF i = 0 THEN 0
                        ELSE sum[i - 1] + IF i - 1 \in B THEN Weights[i - 1] ELSE 0]

LEMMA SumSteps ==
  ASSUME NEW B
  PROVE  /\ WordOf(B) = SumsOf(B)[Width] /\ SumsOf(B)[0] = 0
         /\ \A i \in Places :
              SumsOf(B)[i + 1] = SumsOf(B)[i] + IF i \in B THEN 2^i ELSE 0
<1> DEFINE s == SumsOf(B)
           h == [i \in 1..Width |->
                   [v \in Int |-> v + IF i - 1 \in B THEN Weights[i - 1] ELSE 0]]
<1>0. Width \in Nat /\ \A i \in 1..Width : i - 1 \in Places /\ i \in 0..Width /\ i - 1 \in 0..Width
  BY WidthFacts DEF Places
<1>1. \A i \in Places : Weights[i] = 2^i /\ 2^i \in Int
  BY TwoPower, WidthFacts DEF Weights, Places
<1>2. PICK g : Repeats(0, h, Width, g)
  <2> HIDE DEF h
  <2> QED BY <1>0, Recursion
<1>3. \A k \in 0..Width : g[k] \in Int
  <2> DEFINE T == {k \in 0..Width : g[k] \in Int}
  <2>1. 0 \in T
    BY <1>0, <1>2 DEF Repeats
  <2>2. ASSUME NEW k \in 0..Width - 1, k \in T PROVE k + 1 \in T
    <3>1. k + 1 \in 1..Width /\ (k + 1) - 1 = k /\ k \in Places /\ k + 1 \in 0..Width
      BY <1>0 DEF Places
    <3>2. g[k + 1] = h[k + 1][g[k]]
      BY <1>2, <3>1 DEF Repeats
    <3>3. h[k + 1][g[k]] \in Int
      BY <1>1, <2>2, <3>1
    <3> QED BY <3>1, <3>2, <3>3
  <2> HIDE DEF T
  <2>3. \A k \in 0..Width : k \in T
    BY <1>0, <2>1, <2>2, UpTo
  <2> QED BY <2>3 DEF T
<1>4. g = [i \in 0..Width |-> IF i = 0 THEN 0
             ELSE g[i - 1] + IF i - 1 \in B THEN Weights[i - 1] ELSE 0]
  <2>1. g[0] = 0 /\ g = [i \in 0..Width |-> g[i]]
    BY <1>2 DEF Repeats
  <2>2. ASSUME NEW i \in 0..Width, i # 0
        PROVE  g[i] = g[i - 1] + IF i - 1 \in B THEN Weights[i - 1] ELSE 0
    <3>1. i \in 1..Width /\ i - 1 \in 0..Width
      BY <1>0, <2>2
    <3>2. g[i] = h[i][g[i - 1]] /\ g[i - 1] \in Int
      BY <1>2, <1>3, <3>1 DEF Repeats
    <3> QED BY <3>1, <3>2
  <2>3. \A i \in 0..Width :
          g[i] = IF i = 0 THEN 0
                 ELSE g[i - 1] + IF i - 1 \in B THEN Weights[i - 1] ELSE 0
    BY <2>1, <2>2
  <2> HIDE DEF h
  <2>4. [i \in 0..Width |-> g[i]] =
          [i \in 0..Width |-> IF i = 0 THEN 0
             ELSE g[i - 1] + IF i - 1 \in B THEN Weights[i - 1] ELSE 0]
    BY <2>3
  <2> QED BY <2>1, <2>4
<1>5. s = [i \in 0..Width |-> IF i = 0 THEN 0
             ELSE s[i - 1] + IF i - 1 \in B THEN Weights[i - 1] ELSE 0]
  BY <1>4 DEF SumsOf
<1>6. WordOf(B) = s[Width]
  BY DEF WordOf, SumsOf
<1> HIDE DEF s
<1>7. s[0] = 0
  BY <1>0, <1>5
<1>8. ASSUME NEW i \in Places
      PROVE  s[i + 1] = s[i] + IF i \in B THEN 2^i ELSE 0
  <2>1. i + 1 \in 0..Width /\ i + 1 # 0 /\ (i + 1) - 1 = i
    BY <1>0 DEF Places
  <2>2. s[i + 1] = s[(i + 1) - 1] + IF (i + 1) - 1 \in B THEN Weights[(i + 1) - 1] ELSE 0
    BY <1>5, <2>1
  <2>3. s[i + 1] = s[i] + IF i \in B THEN Weights[i] ELSE 0
    BY <2>1, <2>2
  <2> QED BY <1>1, <2>3
<1> QED BY <1>6, <1>7, <1>8 DEF s

(* The sum up to k has the bits of B that are below k.                     *)
LEMMA SumBits ==
  ASSUME NEW B
  PROVE  \A k \in 0..Width :
           /\ SumsOf(B)[k] \in 0..2^k - 1
           /\ \A i \in 0..k - 1 : Bit(SumsOf(B)[k], i) = IF i \in B THEN 1 ELSE 0
<1> DEFINE s == SumsOf(B)
           T == {k \in 0..Width :
                   /\ s[k] \in 0..2^k - 1
                   /\ \A i \in 0..k - 1 : Bit(s[k], i) = IF i \in B THEN 1 ELSE 0}
<1>0. Width \in Nat /\ s[0] = 0 /\ \A i \in Places : s[i + 1] = s[i] + IF i \in B THEN 2^i ELSE 0
  BY SumSteps, WidthFacts
<1> HIDE DEF s
<1>1. 0 \in T
  <2>1. 2^0 = 1 /\ 0 \in 0..Width /\ 0..0 - 1 = {} /\ 0 \in 0..1 - 1
    BY <1>0, TwoPower
  <2> QED BY <1>0, <2>1
<1>2. ASSUME NEW k \in 0..Width - 1, k \in T
      PROVE  k + 1 \in T
  <2> DEFINE c == IF k \in B THEN 1 ELSE 0
             p == 2^k
             r == s[k]
             v == c * 2^k + r
  <2>1. k \in Places /\ k \in Nat /\ k + 1 \in 0..Width
    BY <1>0 DEF Places
  <2>2. p \in Nat \ {0} /\ 2^(k + 1) = 2 * p
    BY <2>1, TwoPower
  <2>3. c \in {0, 1} /\ c \in Nat
    OBVIOUS
  <2>4. r \in 0..p - 1 /\ \A i \in 0..k - 1 : Bit(r, i) = IF i \in B THEN 1 ELSE 0
    BY <1>2
  <2>5. s[k + 1] = v
    BY <1>0, <2>1, <2>2, <2>4
  <2> HIDE DEF r, c
  <2>6. v \in 0..2 * p - 1
    BY <2>2, <2>3, <2>4
  <2>7. ASSUME NEW i \in 0..k PROVE Bit(v, i) = IF i \in B THEN 1 ELSE 0
    <3> DEFINE m == v
    <3>1. Joins(m, c, k, r)
      BY DEF Joins
    <3> HIDE DEF m
    <3>2. CASE i = k
      <4>1. r \in 0..2^k - 1 /\ k <= k /\ k - k = 0 /\ 2^0 = 1
        BY <2>1, <2>4, TwoPower
      <4>2. Bit(m, k) = Bit(c, k - k)
        <5> HIDE DEF p
        <5> QED BY <2>1, <2>3, <3>1, <4>1, HighBit
      <4>3. Bit(c, 0) = c
        BY <2>3, <4>1 DEF Bit
      <4>4. Bit(m, i) = c
        BY <3>2, <4>1, <4>2, <4>3
      <4> QED BY <3>2, <4>4 DEF c, m
    <3>3. CASE i # k
      <4>1. i \in 0..k - 1 /\ i \in Nat /\ i < k /\ r \in Nat
        BY <2>1, <2>4, <3>3
      <4>2. Bit(m, i) = Bit(r, i)
        <5> HIDE DEF p
        <5> QED BY <2>1, <2>3, <3>1, <4>1, LowBit
      <4>3. Bit(m, i) = IF i \in B THEN 1 ELSE 0
        BY <2>4, <4>1, <4>2
      <4> QED BY <4>3 DEF m
    <3> QED BY <3>2, <3>3
  <2>8. s[k + 1] \in 0..2^(k + 1) - 1
    BY <2>2, <2>5, <2>6
  <2>9. \A i \in 0..(k + 1) - 1 : Bit(s[k + 1], i) = IF i \in B THEN 1 ELSE 0
    <3>1. 0..(k + 1) - 1 = 0..k
      BY <2>1
    <3> HIDE DEF v
    <3> QED BY <2>5, <2>7, <3>1
  <2> QED BY <2>1, <2>8, <2>9
<1>3. \A k \in 0..Width : k \in T
  <2> HIDE DEF T
  <2> QED BY <1>0, <1>1, <1>2, UpTo
<1> QED BY <1>3 DEF s

(* A word is made of the bits it is to have.                               *)
LEMMA WordOfBits ==
  ASSUME NEW B
  PROVE  /\ WordOf(B) \in Word
         /\ \A i \in Places : Bit(WordOf(B), i) = IF i \in B THEN 1 ELSE 0
         /\ Bits(WordOf(B)) = B \cap Places
<1>1. Width \in Nat /\ Width \in 0..Width /\ Places = 0..Width - 1 /\ Size = 2^Width
      /\ Word = 0..Size - 1
  BY WidthFacts, WordPower DEF Places
<1>2. WordOf(B) = SumsOf(B)[Width]
  BY SumSteps
<1>3. /\ SumsOf(B)[Width] \in 0..2^Width - 1
      /\ \A i \in 0..Width - 1 : Bit(SumsOf(B)[Width], i) = IF i \in B THEN 1 ELSE 0
  BY <1>1, SumBits
<1>4. \A i \in Places : Bit(WordOf(B), i) = IF i \in B THEN 1 ELSE 0
  BY <1>1, <1>2, <1>3
<1>5. Bits(WordOf(B)) = B \cap Places
  BY <1>4 DEF Bits
<1> QED BY <1>1, <1>2, <1>3, <1>4, <1>5

LEMMA WordBits ==
  ASSUME NEW x \in Word, NEW i \in Places
  PROVE  /\ x \in Nat /\ i \in Nat /\ i < Width /\ Bit(x, i) \in {0, 1}
         /\ Bit(x, i) = IF i \in Bits(x) THEN 1 ELSE 0
<1>1. x \in Nat /\ i \in Nat /\ i < Width
  BY WidthFacts DEF Places
<1>2. Bit(x, i) \in {0, 1}
  BY <1>1, BitFacts
<1> QED BY <1>1, <1>2 DEF Bits

(* One bit more of a remainder.                                            *)
LEMMA OneBitMore ==
  ASSUME NEW x \in Nat, NEW k \in Nat
  PROVE  /\ x % 2^k \in 0..2^k - 1
         /\ x % 2^(k + 1) = Bit(x, k) * 2^k + (x % 2^k)
<1> DEFINE p == 2^k
           q == x \div p
           r == x % p
           h == q \div 2
           b == q % 2
<1>1. p \in Nat \ {0} /\ 2^(k + 1) = 2 * p
  BY TwoPower
<1>2. Bit(x, k) = b
  BY DEF Bit
<1> HIDE DEF p
<1>3. q \in Nat /\ r \in 0..p - 1 /\ r \in Nat /\ x = q * p + r
  BY <1>1, Dividing
<1> HIDE DEF q, r
<1>4. h \in Nat /\ b \in {0, 1} /\ q = 2 * h + b
  BY <1>3
<1> HIDE DEF h, b
<1> DEFINE s == 2 * p
           l == b * p + r
<1>5. s \in Nat \ {0} /\ l \in 0..s - 1
  BY <1>1, <1>3, <1>4
<1>6. x = h * s + l
  <2>1. q * p = h * (2 * p) + b * p
    BY <1>1, <1>3, <1>4
  <2> QED BY <1>1, <1>3, <1>4, <2>1
<1> HIDE DEF s, l
<1>7. x % s = l
  BY <1>4, <1>5, <1>6, Parts
<1> QED BY <1>1, <1>2, <1>3, <1>7 DEF s, l, r, p

(* A word is told from its bits.                                           *)
LEMMA SameBits ==
  ASSUME NEW x \in Word, NEW y \in Word, \A i \in Places : Bit(x, i) = Bit(y, i)
  PROVE  x = y
<1> DEFINE T == {k \in 0..Width : x % 2^k = y % 2^k}
<1>0. Width \in Nat /\ x \in Nat /\ y \in Nat /\ Size = 2^Width /\ x < Size /\ y < Size
      /\ Size \in Nat
  BY WidthFacts, WordPower
<1>1. 0 \in T
  <2>1. 2^0 = 1 /\ x % 1 = y % 1 /\ 0 \in 0..Width
    BY <1>0, TwoPower
  <2> QED BY <2>1
<1>2. ASSUME NEW k \in 0..Width - 1, k \in T PROVE k + 1 \in T
  <2>1. k \in Places /\ k \in Nat /\ k + 1 \in 0..Width
    BY <1>0 DEF Places
  <2>2. x % 2^(k + 1) = Bit(x, k) * 2^k + (x % 2^k)
    BY <1>0, <2>1, OneBitMore
  <2>3. y % 2^(k + 1) = Bit(y, k) * 2^k + (y % 2^k)
    BY <1>0, <2>1, OneBitMore
  <2>4. Bit(x, k) = Bit(y, k) /\ x % 2^k = y % 2^k
    BY <1>2, <2>1
  <2>5. x % 2^(k + 1) = y % 2^(k + 1)
    BY <2>2, <2>3, <2>4
  <2> QED BY <2>1, <2>5
<1>3. \A k \in 0..Width : k \in T
  <2> HIDE DEF T
  <2> QED BY <1>0, <1>1, <1>2, UpTo
<1>4. x % Size = y % Size
  BY <1>0, <1>3
<1>5. x % Size = x /\ y % Size = y
  <2> DEFINE s == Size
  <2>1. s \in Nat /\ x < s /\ y < s /\ x \in Nat /\ y \in Nat
    BY <1>0
  <2> HIDE DEF s
  <2>2. x % s = x /\ y % s = y
    BY <2>1
  <2> QED BY <2>2 DEF s
<1> QED BY <1>4, <1>5

LEMMA BitsOfWord ==
  ASSUME NEW x \in Word, NEW B, Bits(x) = B \cap Places
  PROVE  WordOf(B) = x
<1>1. WordOf(B) \in Word /\ \A i \in Places : Bit(WordOf(B), i) = IF i \in B THEN 1 ELSE 0
  BY WordOfBits
<1>2. \A i \in Places : Bit(x, i) = IF i \in B THEN 1 ELSE 0
  BY WordBits
<1> QED BY <1>1, <1>2, SameBits

LEMMA LogicBits ==
  ASSUME NEW x \in Word, NEW y \in Word
  PROVE  /\ And(x, y) \in Word /\ Or(x, y) \in Word /\ Xor(x, y) \in Word
         /\ \A i \in Places :
              /\ Bit(And(x, y), i) = IF Bit(x, i) = 1 /\ Bit(y, i) = 1 THEN 1 ELSE 0
              /\ Bit(Or(x, y), i) = IF Bit(x, i) = 1 \/ Bit(y, i) = 1 THEN 1 ELSE 0
              /\ Bit(Xor(x, y), i) = IF Bit(x, i) # Bit(y, i) THEN 1 ELSE 0
<1>1. \A i \in Places : /\ i \in Bits(x) <=> Bit(x, i) = 1
                        /\ i \in Bits(y) <=> Bit(y, i) = 1
                        /\ Bit(x, i) \in {0, 1} /\ Bit(y, i) \in {0, 1}
  BY WordBits DEF Bits
<1>2. /\ And(x, y) \in Word
      /\ \A i \in Places : Bit(And(x, y), i) = IF i \in Bits(x) \cap Bits(y) THEN 1 ELSE 0
  BY WordOfBits DEF And
<1>3. /\ Or(x, y) \in Word
      /\ \A i \in Places : Bit(Or(x, y), i) = IF i \in Bits(x) \cup Bits(y) THEN 1 ELSE 0
  BY WordOfBits DEF Or
<1>4. /\ Xor(x, y) \in Word
      /\ \A i \in Places :
           Bit(Xor(x, y), i) =
             IF i \in (Bits(x) \cup Bits(y)) \ (Bits(x) \cap Bits(y)) THEN 1 ELSE 0
  BY WordOfBits DEF Xor
<1> QED BY <1>1, <1>2, <1>3, <1>4

(* The complement of a word has the other bits.                            *)
LEMMA NotBits ==
  ASSUME NEW x \in Word
  PROVE  Not(x) \in Word /\ \A i \in Places : Bit(Not(x), i) = 1 - Bit(x, i)
<1>1. x \in Nat /\ Not(x) \in Word /\ Not(x) = Size - 1 - x /\ Not(x) \in Nat /\ Width \in Nat
  BY WidthFacts DEF Not
<1>2. ASSUME NEW i \in Places PROVE Bit(Not(x), i) = 1 - Bit(x, i)
  <2> DEFINE p == 2^i
             h == 2^(Width - i - 1)
             q == x \div p
             r == x % p
             n == Not(x)
  <2>1. i \in Nat /\ i < Width
    BY WordBits
  <2>2. p \in Nat \ {0} /\ h \in Nat \ {0} /\ Size = p * (2 * h)
    BY <1>1, <2>1, PowerSplit, WordPower
  <2>3. Bit(x, i) = q % 2 /\ Bit(n, i) = (n \div p) % 2
    BY DEF Bit
  <2> HIDE DEF p, h
  <2>4. q \in Nat /\ r \in 0..p - 1 /\ r \in Nat /\ x = q * p + r
    BY <1>1, <2>2, Dividing
  <2> HIDE DEF q, r
  <2>5. n = Size - 1 - x
    BY <1>1
  <2> HIDE DEF n
  <2> DEFINE v == 2 * h - 1 - q
             s == p - 1 - r
  <2>6. v \in Int /\ s \in 0..p - 1
    BY <2>2, <2>4
  <2>7. n = v * p + s
    <3>1. v * p = p * (2 * h) - p - q * p
      BY <2>2, <2>4
    <3> QED BY <2>2, <2>4, <2>5, <3>1
  <2>8. v % 2 = 1 - (q % 2)
    <3>1. v = 2 * h + (-1 - q) /\ -1 - q \in Int
      BY <2>2, <2>4
    <3>2. (2 * h + (-1 - q)) % 2 = (-1 - q) % 2
      BY <2>2, <2>4, SameParity
    <3>3. (-1 - q) % 2 = 1 - (q % 2)
      BY <2>4
    <3> HIDE DEF v
    <3> QED BY <3>1, <3>2, <3>3
  <2> HIDE DEF v, s
  <2>9. n \div p = v
    BY <2>2, <2>6, <2>7, Parts
  <2> QED BY <2>3, <2>8, <2>9 DEF n
<1> QED BY <1>1, <1>2

(* Bit k of x becomes b, and no other bit changes.                         *)
LEMMA BitPut ==
  ASSUME NEW x \in Word, NEW k \in Places, NEW b \in {0, 1},
         NEW y, y = x + (b - Bit(x, k)) * 2^k
  PROVE  /\ y \in Word
         /\ \A i \in Places : Bit(y, i) = IF i = k THEN b ELSE Bit(x, i)
<1> DEFINE c == Bit(x, k)
           p == 2^k
           h == 2^(Width - k - 1)
<1>0. x \in Nat /\ k \in Nat /\ k < Width /\ c \in {0, 1} /\ Width \in Nat /\ x < Size
  BY WordBits, WidthFacts
<1>1. /\ x \in Nat /\ k \in Nat /\ k < Width /\ c \in {0, 1} /\ Width \in Nat /\ x < Size
      /\ p \in Nat \ {0} /\ h \in Nat \ {0} /\ Size = p * (2 * h)
  <2> HIDE DEF c
  <2> QED BY <1>0, PowerSplit, WordPower
<1>2. PICK u \in Nat, r \in 0..2^k - 1 : Joins(x, u, k, r) /\ u = x \div 2^k /\ r \in Nat
  BY <1>1, Joined
<1>3. c = u % 2
  BY <1>2 DEF Bit
<1> DEFINE q == u \div 2
<1>4. q \in Nat /\ u = 2 * q + c
  BY <1>2, <1>3
<1> HIDE DEF c, q
<1> DEFINE v == 2 * q + b
<1>5. v \in Nat /\ x = u * p + r /\ r \in 0..p - 1 /\ y = x + (b - c) * p
  BY <1>2, <1>4 DEF Joins, c
<1> HIDE DEF p, h
<1>6. y = v * p + r
  <2>1. v * p = u * p + (b - c) * p
    BY <1>1, <1>4
  <2>2. u * p \in Int /\ (b - c) * p \in Int
    BY <1>1, <1>2
  <2> HIDE DEF v
  <2> QED BY <1>5, <2>1, <2>2
<1>7. Joins(y, v, k, r)
  BY <1>6 DEF Joins, p
<1> HIDE DEF v
<1>8. y \in Word
  <2>1. q < h
    <3>1. CASE q >= h
      <4>1. u >= 2 * h
        BY <1>1, <1>4, <3>1
      <4>2. u * p >= (2 * h) * p /\ (2 * h) * p = p * (2 * h)
        BY <1>1, <1>2, <4>1
      <4> QED BY <1>1, <1>2, <1>5, <4>2
    <3> QED BY <1>1, <1>4, <3>1
  <2>2. v <= 2 * h - 1
    BY <1>1, <1>4, <2>1 DEF v
  <2>3. v * p <= (2 * h - 1) * p /\ (2 * h - 1) * p = p * (2 * h) - p /\ v * p \in Nat
    BY <1>1, <1>5, <2>2
  <2> QED BY <1>1, <1>5, <1>6, <2>3, WidthFacts
<1>9. ASSUME NEW i \in Places PROVE Bit(y, i) = IF i = k THEN b ELSE Bit(x, i)
  <2>1. i \in Nat
    BY WordBits
  <2>2. CASE i < k
    <3>1. Bit(x, i) = Bit(r, i) /\ Bit(y, i) = Bit(r, i)
      BY <1>1, <1>2, <1>5, <1>7, <2>1, <2>2, LowBit
    <3> QED BY <1>1, <2>1, <2>2, <3>1
  <2>3. CASE ~(i < k)
    <3>1. k <= i /\ i - k \in Nat /\ (i - k = 0 <=> i = k)
      BY <1>1, <2>1, <2>3
    <3>2. Bit(x, i) = Bit(u, i - k) /\ Bit(y, i) = Bit(v, i - k)
      BY <1>1, <1>2, <1>5, <1>7, <2>1, <3>1, HighBit
    <3> DEFINE j == i - k
    <3>3. Twice(u, q, c) /\ Twice(v, q, b) /\ j \in Nat
      BY <1>4, <3>1 DEF Twice, v
    <3> HIDE DEF j
    <3>4. Bit(u, j) = IF j = 0 THEN c ELSE Bit(q, j - 1)
      BY <1>1, <1>4, <3>3, LastBit
    <3>5. Bit(v, j) = IF j = 0 THEN b ELSE Bit(q, j - 1)
      BY <1>4, <3>3, LastBit
    <3> QED BY <3>1, <3>2, <3>4, <3>5 DEF j, c
  <2> QED BY <2>2, <2>3
<1> QED BY <1>8, <1>9

(* The power of a place is the word with that bit.                         *)
LEMMA PowerBits ==
  ASSUME NEW k \in Places
  PROVE  2^k \in Word /\ \A i \in Places : Bit(2^k, i) = IF i = k THEN 1 ELSE 0
<1>1. k \in Nat /\ k < Width /\ Width \in Nat /\ 0 \in Word /\ \A i \in Places : i \in Nat
  BY WidthFacts DEF Places
<1>2. \A i \in Places : Bit(0, i) = 0
  <2> SUFFICES ASSUME NEW i \in Places PROVE Bit(0, i) = 0
    OBVIOUS
  <2> DEFINE p == 2^i
  <2>1. p \in Nat \ {0}
    BY <1>1, TwoPower
  <2> HIDE DEF p
  <2>2. 0 \div p = 0
    <3> DEFINE z == 0
    <3>1. z \in Int /\ z \in 0..p - 1 /\ z = z * p + z
      BY <2>1
    <3> HIDE DEF z
    <3>2. z \div p = z
      BY <2>1, <3>1, Parts
    <3> QED BY <3>2 DEF z
  <2> QED BY <2>2 DEF Bit, p
<1> DEFINE y == 2^k
<1>3. y = 0 + (1 - Bit(0, k)) * 2^k
  BY <1>1, <1>2, TwoPower
<1> HIDE DEF y
<1>4. y \in Word /\ \A i \in Places : Bit(y, i) = IF i = k THEN 1 ELSE Bit(0, i)
  BY <1>1, <1>3, BitPut
<1> QED BY <1>2, <1>4 DEF y

(* btr, bts and btc change one bit, by masks or by a power.                *)
LEMMA PlaceFacts ==
  ASSUME NEW x \in Word, NEW k \in Places
  PROVE  /\ x - Bit(x, k) * 2^k = And(x, Not(2^k))
         /\ x + (1 - Bit(x, k)) * 2^k = Or(And(x, Not(2^k)), 2^k)
         /\ x + (1 - 2 * Bit(x, k)) * 2^k = Or(And(x, Not(2^k)), And(Not(x), 2^k))
<1> DEFINE p == 2^k
           c == Bit(x, k)
           cleared == And(x, Not(p))
           set == Or(cleared, p)
           turned == Or(cleared, And(Not(x), p))
<1>1. c \in {0, 1} /\ p \in Word /\ p \in Nat /\ x \in Nat /\ \A i \in Places : Bit(p, i) = IF i = k THEN 1 ELSE 0
  BY WordBits, PowerBits, WidthFacts
<1>2. \A i \in Places : Bit(x, i) \in {0, 1}
  BY WordBits
<1> HIDE DEF p
<1>3. Not(p) \in Word /\ Not(x) \in Word
      /\ \A i \in Places : Bit(Not(p), i) = 1 - Bit(p, i) /\ Bit(Not(x), i) = 1 - Bit(x, i)
  BY <1>1, NotBits
<1>4. cleared \in Word /\ \A i \in Places : Bit(cleared, i) = IF i = k THEN 0 ELSE Bit(x, i)
  <2>1. cleared \in Word /\ \A i \in Places :
          Bit(cleared, i) = IF Bit(x, i) = 1 /\ Bit(Not(p), i) = 1 THEN 1 ELSE 0
    <3> DEFINE q == Not(p)
    <3>1. q \in Word
      BY <1>3
    <3> HIDE DEF q
    <3>2. And(x, q) \in Word /\ \A i \in Places :
            Bit(And(x, q), i) = IF Bit(x, i) = 1 /\ Bit(q, i) = 1 THEN 1 ELSE 0
      BY <3>1, LogicBits
    <3> QED BY <3>2 DEF q
  <2> HIDE DEF cleared
  <2> QED BY <1>1, <1>2, <1>3, <2>1
<1> HIDE DEF cleared
<1>5. set \in Word /\ \A i \in Places : Bit(set, i) = IF i = k THEN 1 ELSE Bit(x, i)
  <2>1. set \in Word /\ \A i \in Places :
          Bit(set, i) = IF Bit(cleared, i) = 1 \/ Bit(p, i) = 1 THEN 1 ELSE 0
    BY <1>1, <1>4, LogicBits
  <2> HIDE DEF set
  <2> QED BY <1>1, <1>2, <1>4, <2>1
<1>6. turned \in Word /\ \A i \in Places : Bit(turned, i) = IF i = k THEN 1 - c ELSE Bit(x, i)
  <2> DEFINE other == And(Not(x), p)
  <2>1. other \in Word /\ \A i \in Places :
          Bit(other, i) = IF Bit(Not(x), i) = 1 /\ Bit(p, i) = 1 THEN 1 ELSE 0
    <3> DEFINE q == Not(x)
    <3>1. q \in Word
      BY <1>3
    <3> HIDE DEF q
    <3>2. And(q, p) \in Word /\ \A i \in Places :
            Bit(And(q, p), i) = IF Bit(q, i) = 1 /\ Bit(p, i) = 1 THEN 1 ELSE 0
      BY <1>1, <3>1, LogicBits
    <3> QED BY <3>2 DEF q
  <2> HIDE DEF other
  <2>2. turned \in Word /\ \A i \in Places :
          Bit(turned, i) = IF Bit(cleared, i) = 1 \/ Bit(other, i) = 1 THEN 1 ELSE 0
    BY <1>4, <2>1, LogicBits DEF other
  <2> HIDE DEF turned
  <2> QED BY <1>1, <1>2, <1>3, <1>4, <2>1, <2>2
<1> HIDE DEF set, turned
<1> DEFINE put(b) == x + (b - c) * p
<1>7. ASSUME NEW b \in {0, 1}
      PROVE  put(b) \in Word /\ \A i \in Places : Bit(put(b), i) = IF i = k THEN b ELSE Bit(x, i)
  <2> DEFINE y == put(b)
  <2>1. y = x + (b - Bit(x, k)) * 2^k
    BY DEF p
  <2> HIDE DEF y
  <2>2. y \in Word /\ \A i \in Places : Bit(y, i) = IF i = k THEN b ELSE Bit(x, i)
    BY <2>1, BitPut
  <2> QED BY <2>2 DEF y
<1>8. /\ put(0) = x - c * p /\ put(1) = x + (1 - c) * p
      /\ put(1 - c) = x + (1 - 2 * c) * p /\ 1 - c \in {0, 1}
  BY <1>1
<1>9. put(0) = cleared
  <2> HIDE DEF put
  <2>1. put(0) \in Word /\ \A i \in Places : Bit(put(0), i) = IF i = k THEN 0 ELSE Bit(x, i)
    BY <1>7
  <2> QED BY <1>4, <2>1, SameBits
<1>10. put(1) = set
  <2> HIDE DEF put
  <2>1. put(1) \in Word /\ \A i \in Places : Bit(put(1), i) = IF i = k THEN 1 ELSE Bit(x, i)
    BY <1>7
  <2> QED BY <1>5, <2>1, SameBits
<1>11. put(1 - c) = turned
  <2> HIDE DEF put
  <2>1. put(1 - c) \in Word /\ \A i \in Places : Bit(put(1 - c), i) = IF i = k THEN 1 - c ELSE Bit(x, i)
    BY <1>7, <1>8
  <2> QED BY <1>6, <2>1, SameBits
<1> HIDE DEF put
<1> QED BY <1>8, <1>9, <1>10, <1>11 DEF c, p, cleared, set, turned

LEMMA ZeroBits ==
  /\ 0 \in Word /\ Bits(0) = {}
  /\ \A i \in Nat : Bit(0, i) = 0
<1>1. 0 \in Word /\ \A i \in Places : i \in Nat
  BY WidthFacts DEF Places
<1>2. ASSUME NEW i \in Nat PROVE Bit(0, i) = 0
  <2> DEFINE p == 2^i
             z == 0
  <2>1. p \in Nat \ {0}
    BY TwoPower
  <2> HIDE DEF p
  <2>2. z \in Int /\ z \in 0..p - 1 /\ z = z * p + z
    BY <2>1
  <2> HIDE DEF z
  <2>3. z \div p = z
    BY <2>1, <2>2, Parts
  <2>4. (z \div p) % 2 = z
    <3>1. z % 2 = z
      BY DEF z
    <3> QED BY <2>3, <3>1
  <2> QED BY <2>4 DEF Bit, p, z
<1> QED BY <1>1, <1>2 DEF Bits

LEMMA SomeBit ==
  ASSUME NEW x \in Word, x # 0
  PROVE  Bits(x) # {} /\ Bits(x) \subseteq Places /\ Places \subseteq Nat
<1>1. ASSUME Bits(x) = {} PROVE FALSE
  <2>1. \A i \in Places : Bit(x, i) = 0 /\ Bit(0, i) = 0
    BY <1>1, WordBits, ZeroBits
  <2> QED BY <2>1, SameBits, ZeroBits
<1> QED BY <1>1, WidthFacts DEF Bits, Places

LEMMA ShiftedRight ==
  ASSUME NEW x \in Word, NEW n \in Nat
  PROVE  /\ x \div 2^n \in Word /\ x * 2^n \in Int /\ Signed(x) \div 2^n \in Int
<1> DEFINE p == 2^n
           q == x \div p
<1>1. p \in Nat \ {0} /\ x \in Nat /\ x < Size
  BY TwoPower, WidthFacts
<1>2. Signed(x) \in Int
  BY SignedFacts, WidthFacts
<1> HIDE DEF p
<1>3. q \in Nat /\ x % p \in Nat /\ x = q * p + (x % p)
  BY <1>1, Dividing
<1>4. x * p \in Int /\ Signed(x) \div p \in Int
  BY <1>1, <1>2
<1> HIDE DEF q
<1>5. q <= q * p
  BY <1>1, <1>3
<1>6. q \in Word
  <2>1. q * p \in Int
    BY <1>1, <1>3
  <2> QED BY <1>1, <1>3, <1>5, <2>1, WidthFacts
<1> QED BY <1>4, <1>6 DEF p, q

(* The number of the bits of a word is a word.                             *)
LEMMA CountsAreWords ==
  /\ 0..Width \subseteq Word /\ Size - 1 \in Word
  /\ \A x \in Word : Cardinality(Bits(x)) \in Word
<1> DEFINE T == {k \in 0..Width : k < 2^k}
<1>1. Width \in Nat /\ Size = 2^Width /\ Word = 0..Size - 1 /\ Size \in Nat /\ Size >= 4
  BY WidthFacts, WordPower
<1>2. 0 \in T
  BY <1>1, TwoPower
<1>3. \A k \in 0..Width - 1 : k \in T => k + 1 \in T
  <2> SUFFICES ASSUME NEW k \in 0..Width - 1, k \in T PROVE k + 1 \in T
    OBVIOUS
  <2>1. k \in Nat /\ k + 1 \in 0..Width /\ k < 2^k
    BY <1>1
  <2>2. 2^k \in Nat \ {0} /\ 2^(k + 1) = 2 * 2^k
    BY <2>1, TwoPower
  <2>3. k + 1 < 2^(k + 1)
    BY <2>1, <2>2
  <2> QED BY <2>1, <2>3
<1>4. Width \in T
  <2> HIDE DEF T
  <2>1. \A k \in 0..Width : k \in T
    BY <1>1, <1>2, <1>3, UpTo
  <2> QED BY <1>1, <2>1
<1>5. 0..Width \subseteq Word
  <2>1. Width < Size
    BY <1>1, <1>4
  <2> QED BY <1>1, <2>1
<1>6. ASSUME NEW x \in Word PROVE Cardinality(Bits(x)) \in 0..Width
  <2>1. IsFiniteSet(Places) /\ Cardinality(Places) = Width
    <3>1. 0 \in Int /\ Width - 1 \in Int /\ ~(0 > Width - 1) /\ ((Width - 1) - 0) + 1 = Width
      BY WidthFacts
    <3>2. IsFiniteSet(0..Width - 1) /\ Cardinality(0..Width - 1) = ((Width - 1) - 0) + 1
      BY <3>1, FS_Interval
    <3> QED BY <3>1, <3>2 DEF Places
  <2>2. Bits(x) \in SUBSET Places
    BY DEF Bits
  <2>3. IsFiniteSet(Bits(x)) /\ Cardinality(Bits(x)) <= Cardinality(Places)
    BY <2>1, <2>2, FS_Subset
  <2>4. Cardinality(Bits(x)) \in Nat
    BY <2>3, FS_CardinalityType
  <2> QED BY <1>1, <2>1, <2>3, <2>4
<1>7. Size - 1 \in Word
  BY <1>1
<1> QED BY <1>5, <1>6, <1>7
=============================================================================
