----------------------------- MODULE VectorImpl -----------------------------
(***************************************************************************)
(* How the emulator computes the instructions on vectors of integers in    *)
(* portable C++ (x64/cpuimpl.cpp).  A register is a function from its      *)
(* lanes to words; an MMX register (u64) has half the lanes of an XMM one  *)
(* (u128), and the templates of the code are one operator for both.        *)
(* Instructions that widen or narrow read two neighbouring lanes as a      *)
(* double word.  Floating point is left out.                               *)
(***************************************************************************)
EXTENDS Words

Lanes(v) == Cardinality(DOMAIN v)
HalfOf(v) == Lanes(v) \div 2
Register(n) == [0..n - 1 -> Word]

DoubleSize == Size * Size
SignedDouble(x) == IF x >= Half * Size THEN x - DoubleSize ELSE x
Doubles(v) == [i \in 0..HalfOf(v) - 1 |-> v[2 * i] + Size * v[2 * i + 1]]
Singles(w) == [i \in 0..2 * Lanes(w) - 1 |->
                 IF i % 2 = 0 THEN w[i \div 2] % Size ELSE w[i \div 2] \div Size]

Each(d, s, Op(_, _)) == [i \in DOMAIN d |-> Op(d[i], s[i])]
Ones == Size - 1
MaxWord == Half - 1
MinWord == -Half

-----------------------------------------------------------------------------
(* Sums, with wrapping or saturation.                                      *)

Padd(d, s) == Each(d, s, LAMBDA x, y : Wrap(x + y))
Psub(d, s) == Each(d, s, LAMBDA x, y : Wrap(x - y))

Saturated(n) == Wrap(IF n > MaxWord THEN MaxWord ELSE IF n < MinWord THEN MinWord ELSE n)
Padds(d, s) == Each(d, s, LAMBDA x, y : Saturated(Signed(x) + Signed(y)))
Psubs(d, s) == Each(d, s, LAMBDA x, y : Saturated(Signed(x) - Signed(y)))

Paddus(d, s) == Each(d, s, LAMBDA x, y : IF x + y > Ones THEN Ones ELSE x + y)
Psubus(d, s) == Each(d, s, LAMBDA x, y : IF x >= y THEN x - y ELSE 0)
Pavg(d, s) == Each(d, s, LAMBDA x, y : (x + y + 1) \div 2)

(* sums of absolute differences, one for every n lanes (8 bytes)           *)
Psadbw(d, s, n) ==
  LET distance(i) == IF d[i] >= s[i] THEN d[i] - s[i] ELSE s[i] - d[i]
      total(h) ==
        LET sum[i \in 0..Lanes(d)] ==
              IF i = 0 THEN 0
              ELSE sum[i - 1] + IF (i - 1) \div n = h THEN distance(i - 1) ELSE 0
        IN  sum[Lanes(d)]
  IN  [h \in 0..Lanes(d) \div n - 1 |-> total(h)]

(* sums of neighbours: those of dst, then those of src *)
Phadd(d, s) ==
  LET sums(v, i) == Wrap(v[2 * i] + v[2 * i + 1]) IN
  [i \in DOMAIN d |-> IF i < HalfOf(d) THEN sums(d, i) ELSE sums(s, i - HalfOf(d))]

-----------------------------------------------------------------------------
(* Products.                                                               *)

Pmulhuw(d, s) == Each(d, s, LAMBDA x, y : (x * y) \div Size)
Pmulhw(d, s) == Each(d, s, LAMBDA x, y : Wrap((Signed(x) * Signed(y)) \div Size))
Pmullw(d, s) == Each(d, s, LAMBDA x, y : Wrap(Signed(x) * Signed(y)))
Pmuludq(d, s) ==
  Singles([i \in 0..HalfOf(d) - 1 |-> d[2 * i] * s[2 * i]])
Pmaddwd(d, s) ==
  Singles([i \in 0..HalfOf(d) - 1 |->
    (Signed(d[2 * i]) * Signed(s[2 * i])
     + Signed(d[2 * i + 1]) * Signed(s[2 * i + 1])) % DoubleSize])

(* unsigned bytes by signed ones, added with the saturation of a double *)
SignSaturatedAdd(a, b) ==
  LET limit == Half * Size
      sum == a + b
  IN  IF sum > limit - 1 THEN limit - 1 ELSE IF sum < -limit THEN -limit ELSE sum
Pmaddubsw(d, s) ==
  Singles([i \in 0..HalfOf(d) - 1 |->
    SignSaturatedAdd(d[2 * i] * Signed(s[2 * i]),
                     d[2 * i + 1] * Signed(s[2 * i + 1])) % DoubleSize])

Pmulhrsw(d, s) ==
  Each(d, s, LAMBDA x, y :
    Wrap(((Signed(x) * Signed(y)) \div (Half \div 2) + 1) \div 2))

-----------------------------------------------------------------------------
(* Comparisons and signs.                                                  *)

Pcmpeq(d, s) == Each(d, s, LAMBDA x, y : IF x = y THEN Ones ELSE 0)
Pcmpgt(d, s) == Each(d, s, LAMBDA x, y : IF Signed(x) > Signed(y) THEN Ones ELSE 0)
Pmaxs(d, s) == Each(d, s, LAMBDA x, y : IF Signed(x) < Signed(y) THEN y ELSE x)
Pmins(d, s) == Each(d, s, LAMBDA x, y : IF Signed(y) < Signed(x) THEN y ELSE x)
Pmaxu(d, s) == Each(d, s, LAMBDA x, y : IF x < y THEN y ELSE x)
Pminu(d, s) == Each(d, s, LAMBDA x, y : IF y < x THEN y ELSE x)
Pabs(s) == [i \in DOMAIN s |-> Wrap(IF Signed(s[i]) >= 0 THEN Signed(s[i]) ELSE -Signed(s[i]))]

Psign(d, s) ==
  Each(d, s, LAMBDA x, y : IF Signed(y) < 0 THEN Wrap(-Signed(x))
                           ELSE IF Signed(y) > 0 THEN x ELSE 0)

(* the sign bits as a number, for bytes (pmovmskb) and floats (movmskps)   *)
Movmsk(s) ==
  LET or[i \in 0..Lanes(s)] ==
        IF i = 0 THEN 0 ELSE or[i - 1] + (s[i - 1] \div Half) * 2^(i - 1)
  IN  or[Lanes(s)]

(* ptest: zero and carry *)
Ptest(d, s) ==
  <<\A i \in DOMAIN d : And(d[i], s[i]) = 0,
    \A i \in DOMAIN d : And(Not(d[i]), s[i]) = 0>>

-----------------------------------------------------------------------------
(* Shifts, of every lane by the same count, defined for counts that are    *)
(* less than the bits of a lane.                                           *)

Psll(d, count) == [i \in DOMAIN d |-> Wrap(d[i] * 2^count)]
Psrl(d, count) == [i \in DOMAIN d |-> d[i] \div 2^count]
Psra(d, count) == [i \in DOMAIN d |-> Wrap(Signed(d[i]) \div 2^count)]

(* Shifts of a whole register by lanes.  An XMM register is a pair of u64, *)
(* lo and hi, that are shifted and put together.                           *)
Lo(v) == [i \in 0..HalfOf(v) - 1 |-> v[i]]
Hi(v) == [i \in 0..HalfOf(v) - 1 |-> v[HalfOf(v) + i]]
Xmm(lo, hi) == [i \in 0..2 * Lanes(lo) - 1 |->
                  IF i < Lanes(lo) THEN lo[i] ELSE hi[i - Lanes(lo)]]
Zeros(n) == [i \in 0..n - 1 |-> 0]
Left(half, n) == [i \in DOMAIN half |-> IF i >= n THEN half[i - n] ELSE 0]
Right(half, n) == [i \in DOMAIN half |-> IF i + n < Lanes(half) THEN half[i + n] ELSE 0]
Both(a, b) == Each(a, b, Or)

(* count > 0: a u64 may not be shifted by all its bits                     *)
Pslldq(d, count) ==
  LET h == HalfOf(d) IN
  IF count >= 2 * h THEN Zeros(2 * h)
  ELSE IF count >= h THEN Xmm(Zeros(h), Left(Lo(d), count - h))
  ELSE Xmm(Left(Lo(d), count), Both(Left(Hi(d), count), Right(Lo(d), h - count)))
Psrldq(d, count) ==
  LET h == HalfOf(d) IN
  IF count >= 2 * h THEN Zeros(2 * h)
  ELSE IF count >= h THEN Xmm(Right(Hi(d), count - h), Zeros(h))
  ELSE Xmm(Both(Right(Lo(d), count), Left(Hi(d), h - count)), Right(Hi(d), count))

Palignr64(d, s, imm) ==
  LET n == Lanes(d) IN
  IF imm = 0 THEN s ELSE IF imm >= 2 * n THEN Zeros(n)
  ELSE IF imm >= n THEN Right(d, imm - n)
  ELSE Both(Right(s, imm), Left(d, n - imm))

(* Faulty: the bytes of src are gone one lane too early. *)
Palignr128_Early(d, s, imm) ==
  LET h == HalfOf(d) IN
  IF imm = 0 THEN s ELSE IF imm >= 2 * h - 1 THEN Palignr64(d, s, imm)
  ELSE Palignr64(d, s, imm + 1)

Palignr128(d, s, imm) ==
  LET h == HalfOf(d) IN
  CASE imm = 0 -> s
    [] imm >= 4 * h -> Zeros(2 * h)
    [] imm \in 3 * h..4 * h - 1 -> Xmm(Right(Hi(d), imm - 3 * h), Zeros(h))
    [] imm \in 2 * h + 1..3 * h - 1 ->
         Xmm(Both(Right(Lo(d), imm - 2 * h), Left(Hi(d), 3 * h - imm)),
             Right(Hi(d), imm - 2 * h))
    [] imm = 2 * h -> d
    [] imm \in h + 1..2 * h - 1 ->
         Xmm(Both(Right(Hi(s), imm - h), Left(Lo(d), 2 * h - imm)),
             Both(Right(Lo(d), imm - h), Left(Hi(d), 2 * h - imm)))
    [] imm = h -> Xmm(Hi(s), Lo(d))
    [] imm \in 1..h - 1 ->
         Xmm(Both(Right(Lo(s), imm), Left(Hi(s), h - imm)),
             Both(Right(Hi(s), imm), Left(Lo(d), h - imm)))

-----------------------------------------------------------------------------
(* Shuffles.  An order is the sequence of the fields of the immediate.     *)

Shufps(d, s, order) ==
  [i \in DOMAIN d |-> IF i < HalfOf(d) THEN d[order[i]] ELSE s[order[i]]]
Pshufd(s, order) == [i \in DOMAIN s |-> s[order[i]]]          \* and pshufw
Pshuflw(s, order) == [i \in DOMAIN s |-> IF i < HalfOf(s) THEN s[order[i]] ELSE s[i]]
Pshufhw(s, order) ==
  LET h == HalfOf(s) IN
  [i \in DOMAIN s |-> IF i < h THEN s[i] ELSE s[h + order[i - h]]]

(* a lane of src with its sign clears, another selects by its low bits:    *)
(* four of them also in an MMX register, where they may select one of the  *)
(* 8 lanes past the end of the array (Selects)                             *)
Selects(d, s, lanes) == \A i \in DOMAIN d : Negative(s[i]) \/ s[i] % lanes < Lanes(d)
Pshufb(d, s) ==
  [i \in DOMAIN d |-> IF Negative(s[i]) THEN 0 ELSE d[s[i] % Lanes(d)]]

Pinsr(d, word, at) == [d EXCEPT ![at % Lanes(d)] = word]
Pextr(s, at) == s[at % Lanes(s)]
Insertps(d, s, from, to, zmask) ==
  [i \in DOMAIN d |-> IF i \in zmask THEN 0 ELSE IF i = to THEN s[from] ELSE d[i]]

Punpckl(d, s) == [i \in DOMAIN d |-> IF i % 2 = 0 THEN d[i \div 2] ELSE s[i \div 2]]
Punpckh(d, s) ==
  LET h == HalfOf(d) IN
  [i \in DOMAIN d |-> IF i % 2 = 0 THEN d[h + i \div 2] ELSE s[h + i \div 2]]
Movshdup(s) == [i \in DOMAIN s |-> s[2 * (i \div 2) + 1]]
Movddup(s) == Xmm(Lo(s), Lo(s))

Blend(d, s, mask) == [i \in DOMAIN d |-> IF i \in mask THEN s[i] ELSE d[i]]
Pblendv(d, s, mask) == [i \in DOMAIN d |-> IF Negative(mask[i]) THEN s[i] ELSE d[i]]

(* blendvps and blendvpd compare the mask with 0x8000000 and               *)
(* 0x800000000000000: the fourth bit below the sign, here the next one     *)
Blendv(d, s, mask) ==
  [i \in DOMAIN d |-> IF Bit(mask[i], Width - 2) = 1 THEN s[i] ELSE d[i]]

(* Packs: double words of dst, then of src, become words.                  *)
Pack(d, s, Saturate(_)) ==
  LET h == HalfOf(d) IN
  [i \in DOMAIN d |-> Saturate(SignedDouble(IF i < h THEN Doubles(d)[i] ELSE Doubles(s)[i - h]))]
Packss(d, s) == Pack(d, s, Saturated)

Packus(d, s) ==
  Pack(d, s, LAMBDA x : IF x > Ones THEN Ones ELSE IF x < 0 THEN 0 ELSE x)

Pmovzx(s) == Singles([i \in DOMAIN Lo(s) |-> s[i]])
Pmovsx(s) == Singles([i \in DOMAIN Lo(s) |-> Signed(s[i]) % DoubleSize])

-----------------------------------------------------------------------------
(* String comparisons.  Of dst and src the first nd and ns lanes are       *)
(* valid: up to a zero (pcmpistri), or as many as a register says, if it   *)
(* does not say more than there are (pcmpestri).                           *)
Terminated(v) ==
  IF \E i \in DOMAIN v : v[i] = 0
  THEN CHOOSE i \in DOMAIN v : v[i] = 0 /\ \A j \in 0..i - 1 : v[j] # 0
  ELSE Lanes(v)
Absolute(n) == IF n < 0 THEN -n ELSE n
Given(v, length) == IF Absolute(length) > Lanes(v) THEN Lanes(v) ELSE Absolute(length)

Controls == [operation : {"any", "ranges", "each", "ordered"},
             polarity : {"positive", "negative", "masked"},
             output : {"least", "most"}, signed : BOOLEAN]

Aggregated(d, nd, s, ns, c) ==
  LET n == Lanes(d)
      val(x) == IF c.signed THEN Signed(x) ELSE x
  IN  CASE c.operation = "each" ->
             {i \in DOMAIN d : IF i >= nd /\ i >= ns THEN TRUE
                               ELSE i < nd /\ i < ns /\ d[i] = s[i]}
        [] c.operation = "any" ->
             {j \in DOMAIN d : \E i \in DOMAIN d : i < nd /\ j < ns /\ d[i] = s[j]}
        [] c.operation = "ranges" ->
             {j \in DOMAIN d : \E i \in DOMAIN d :
                /\ i % 2 = 0 /\ i + 1 < nd /\ j < ns
                /\ val(s[j]) >= val(d[i]) /\ val(s[j]) <= val(d[i + 1])}
        [] c.operation = "ordered" ->
             {j \in DOMAIN d : \A i \in 0..n - 1 - j :
                i >= nd \/ (i + j < ns /\ d[i] = s[i + j])}

Polarised(hits, n, ns, c) ==
  CASE c.polarity = "positive" -> hits
    [] c.polarity = "negative" -> (0..n - 1) \ hits
    [] c.polarity = "masked" -> {i \in 0..n - 1 : (i >= ns) = (i \in hits)}

Index(hits, n, c) ==
  IF hits = {} THEN n
  ELSE IF c.output = "least" THEN CHOOSE i \in hits : \A j \in hits : i <= j
  ELSE CHOOSE i \in hits : \A j \in hits : j <= i

Compared(d, nd, s, ns, c) ==
  LET hits == Polarised(Aggregated(d, nd, s, ns, c), Lanes(d), ns, c) IN
  [index |-> Index(hits, Lanes(d), c), carry |-> hits # {}, overflow |-> 0 \in hits,
   sign |-> nd < Lanes(d), zero |-> ns < Lanes(d)]

Pcmpistri(d, s, c) == Compared(d, Terminated(d), s, Terminated(s), c)
Pcmpestri(d, ld, s, ls, c) == Compared(d, Given(d, ld), s, Given(s, ls), c)
=============================================================================
