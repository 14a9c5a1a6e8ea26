---------------------------- MODULE NativeVectors ---------------------------
(***************************************************************************)
(* What the vector instructions of the host compute                        *)
(* (x64/nativecpuimpl.cpp runs them by intrinsics and inline assembly):    *)
(* the definitions of the architecture, on exact integers.                 *)
(***************************************************************************)
EXTENDS Words, FiniteSetsExt

Congruent(n, size) == CHOOSE w \in 0..size - 1 : (w - n) % size = 0
Nearest(n, L) ==
  IF n \in L THEN n ELSE IF \A l \in L : n < l THEN Min(L) ELSE Max(L)
SignedWords == -Half..Half - 1
Across(d, s, Result(_, _)) == [i \in DOMAIN d |-> Result(d[i], s[i])]
Count(v) == Cardinality(DOMAIN v)

(* a register whose lanes are the double words of w, low word first        *)
Split(w) == [i \in 0..2 * Count(w) - 1 |->
               CHOOSE x \in Word : \E y \in Word :
                 w[i \div 2] = IF i % 2 = 0 THEN x + Size * y ELSE y + Size * x]
Wide(v, i) == v[2 * i] + Size * Signed(v[2 * i + 1])          \* signed
Every(v, Double(_)) ==
  Split([i \in 0..Count(v) \div 2 - 1 |-> Congruent(Double(i), Size * Size)])

-----------------------------------------------------------------------------
(* Sums.                                                                   *)

NativePadd(d, s) == Across(d, s, LAMBDA x, y : Congruent(x + y, Size))
NativePsub(d, s) == Across(d, s, LAMBDA x, y : Congruent(x - y, Size))
NativePadds(d, s) ==
  Across(d, s, LAMBDA x, y : Congruent(Nearest(Signed(x) + Signed(y), SignedWords), Size))
NativePsubs(d, s) ==
  Across(d, s, LAMBDA x, y : Congruent(Nearest(Signed(x) - Signed(y), SignedWords), Size))
NativePaddus(d, s) == Across(d, s, LAMBDA x, y : Nearest(x + y, Word))
NativePsubus(d, s) == Across(d, s, LAMBDA x, y : Nearest(x - y, Word))
NativePavg(d, s) == Across(d, s, LAMBDA x, y : Min({m \in Word : 2 * m >= x + y}))
NativePsadbw(d, s, n) ==
  [h \in 0..Count(d) \div n - 1 |->
     MapThenSumSet(LAMBDA i : Max({d[i] - s[i], s[i] - d[i]}), {i \in DOMAIN d : i \div n = h})]
NativePhadd(d, s) ==
  LET n == Count(d)
      pool == [i \in 0..2 * n - 1 |-> IF i < n THEN d[i] ELSE s[i - n]]
  IN  [i \in DOMAIN d |-> Congruent(pool[2 * i] + pool[2 * i + 1], Size)]

-----------------------------------------------------------------------------
(* Products.                                                               *)

Lower(n) == Congruent(n, Size)
Upper(n) == Congruent((n - Lower(n)) \div Size, Size)
NativePmulhuw(d, s) == Across(d, s, LAMBDA x, y : Upper(x * y))
NativePmulhw(d, s) == Across(d, s, LAMBDA x, y : Upper(Signed(x) * Signed(y)))
NativePmull(d, s) == Across(d, s, LAMBDA x, y : Lower(x * y))
NativePmuludq(d, s) == Every(d, LAMBDA i : d[2 * i] * s[2 * i])
NativePmaddwd(d, s) ==
  Every(d, LAMBDA i : Signed(d[2 * i]) * Signed(s[2 * i])
                      + Signed(d[2 * i + 1]) * Signed(s[2 * i + 1]))
NativePmaddubsw(d, s) ==
  Every(d, LAMBDA i : Nearest(d[2 * i] * Signed(s[2 * i])
                              + d[2 * i + 1] * Signed(s[2 * i + 1]),
                              -Half * Size..Half * Size - 1))
(* the product as a fraction, rounded to the nearest                       *)
NativePmulhrsw(d, s) ==
  Across(d, s, LAMBDA x, y :
    Congruent(CHOOSE m \in -Half..Half :
                /\ Half * (2 * m - 1) <= 2 * Signed(x) * Signed(y)
                /\ 2 * Signed(x) * Signed(y) < Half * (2 * m + 1), Size))

-----------------------------------------------------------------------------
(* Comparisons and signs.                                                  *)

Truth(b) == IF b THEN Size - 1 ELSE 0
NativePcmpeq(d, s) == Across(d, s, LAMBDA x, y : Truth(x = y))
NativePcmpgt(d, s) == Across(d, s, LAMBDA x, y : Truth(Signed(y) - Signed(x) < 0))
NativePmaxu(d, s) == Across(d, s, LAMBDA x, y : Max({x, y}))
NativePminu(d, s) == Across(d, s, LAMBDA x, y : Min({x, y}))
NativePmaxs(d, s) == Across(d, s, LAMBDA x, y : Lower(Max({Signed(x), Signed(y)})))
NativePmins(d, s) == Across(d, s, LAMBDA x, y : Lower(Min({Signed(x), Signed(y)})))
NativePabs(s) == [i \in DOMAIN s |-> Max({Signed(s[i]), -Signed(s[i])})]
Sign(n) == IF n < 0 THEN -1 ELSE IF n > 0 THEN 1 ELSE 0
NativePsign(d, s) == Across(d, s, LAMBDA x, y : Lower(x * Sign(Signed(y))))
NativeMovmsk(s) == MapThenSumSet(LAMBDA i : 2^i, {i \in DOMAIN s : Negative(s[i])})
NativePtest(d, s) ==
  LET ones(v) == {p \in (DOMAIN v) \X Places : Bit(v[p[1]], p[2]) = 1} IN
  <<ones(d) \cap ones(s) = {}, ones(s) \subseteq ones(d)>>

-----------------------------------------------------------------------------
(* Shifts.                                                                 *)

NativePsll(d, count) ==
  [i \in DOMAIN d |-> WordOf({p \in Places : p >= count /\ Bit(d[i], p - count) = 1})]
NativePsrl(d, count) ==
  [i \in DOMAIN d |-> WordOf({p \in Places : p + count < Width /\ Bit(d[i], p + count) = 1})]
NativePsra(d, count) ==
  [i \in DOMAIN d |->
    WordOf({p \in Places : Bit(d[i], Min({p + count, Width - 1})) = 1})]

(* the lanes of v from place p on, and nothing where v has none            *)
Window(v, p, n) == [i \in 0..n - 1 |-> IF i + p \in DOMAIN v THEN v[i + p] ELSE 0]
Beside(s, d) == [i \in 0..2 * Count(d) - 1 |->
                   IF i < Count(d) THEN s[i] ELSE d[i - Count(d)]]
NativePslldq(d, count) == Window(d, -count, Count(d))
NativePsrldq(d, count) == Window(d, count, Count(d))
NativePalignr(d, s, imm) == Window(Beside(s, d), imm, Count(d))

-----------------------------------------------------------------------------
(* Shuffles: each lane of the result is a lane of dst and src.             *)

Picked(d, s, At(_)) ==
  [i \in DOMAIN d |-> Beside(d, s)[At(i)]]
NativeShufps(d, s, order) ==
  Picked(d, s, LAMBDA i : order[i] + IF 2 * i < Count(d) THEN 0 ELSE Count(d))
NativePshufd(s, order) == Picked(s, s, LAMBDA i : order[i])
NativePshuflw(s, order) == Picked(s, s, LAMBDA i : IF 2 * i < Count(s) THEN order[i] ELSE i)
NativePshufhw(s, order) ==
  LET h == Count(s) \div 2 IN
  Picked(s, s, LAMBDA i : IF i < h THEN i ELSE h + order[i - h])
NativePshufb(d, s) ==
  LET zero == [i \in DOMAIN d |-> 0] IN
  Picked(d, zero, LAMBDA i : IF Signed(s[i]) < 0 THEN Count(d) ELSE s[i] % Count(d))
NativeInsertps(d, s, from, to, zmask) ==
  LET zero == [i \in DOMAIN d |-> 0] IN
  Picked([d EXCEPT ![to] = s[from]], zero, LAMBDA i : IF i \in zmask THEN Count(d) ELSE i)
NativePinsr(d, word, at) ==
  [i \in DOMAIN d |-> IF (at - i) % Count(d) = 0 THEN word ELSE d[i]]
NativePextr(s, at) == Window(Beside(s, s), at % Count(s), 1)[0]
NativePunpckl(d, s) == Picked(d, s, LAMBDA i : i \div 2 + (i % 2) * Count(d))
NativePunpckh(d, s) ==
  Picked(d, s, LAMBDA i : (Count(d) + i) \div 2 + (i % 2) * Count(d))
NativeMovshdup(s) == Picked(s, s, LAMBDA i : IF i % 2 = 0 THEN i + 1 ELSE i)
NativeMovddup(s) == Picked(s, s, LAMBDA i : i % (Count(s) \div 2))
NativeBlend(d, s, mask) == Picked(d, s, LAMBDA i : IF i \in mask THEN i + Count(d) ELSE i)
NativeBlendv(d, s, mask) == NativeBlend(d, s, {i \in DOMAIN mask : Negative(mask[i])})

NativePack(d, s, L) ==
  LET h == Count(d) \div 2 IN
  [i \in DOMAIN d |-> Lower(Nearest(IF i < h THEN Wide(d, i) ELSE Wide(s, i - h), L))]
NativePackss(d, s) == NativePack(d, s, SignedWords)
NativePackus(d, s) == NativePack(d, s, Word)
NativePmovzx(s) == Every(s, LAMBDA i : s[i])
NativePmovsx(s) == Every(s, LAMBDA i : Signed(s[i]))

-----------------------------------------------------------------------------
(* String comparisons: dst is a set of characters, of ranges, or a string  *)
(* that is compared with src or searched in it.                            *)

Hits(d, D, s, S, c) ==
  LET order(x) == IF c.signed THEN Signed(x) ELSE x
      same(i, j) == i \in D /\ j \in S /\ d[i] = s[j]
  IN  {j \in DOMAIN s :
        CASE c.operation = "each" -> same(j, j) \/ (j \notin D /\ j \notin S)
          [] c.operation = "any" -> \E i \in D : same(i, j)
          [] c.operation = "ranges" ->
               /\ j \in S
               /\ \E i \in D : /\ i % 2 = 0 /\ i + 1 \in D
                               /\ order(s[j]) \in order(d[i])..order(d[i + 1])
          [] c.operation = "ordered" ->
               \A i \in D : j + i \in DOMAIN s => same(i, j + i)}
NativeCompared(d, D, s, S, c) ==
  LET hits == Hits(d, D, s, S, c)
      inverted == CASE c.polarity = "positive" -> {}
                    [] c.polarity = "negative" -> DOMAIN s
                    [] c.polarity = "masked" -> S
      found == (hits \ inverted) \cup (inverted \ hits)
  IN  [index |-> IF found = {} THEN Count(s)
                 ELSE IF c.output = "least" THEN Min(found) ELSE Max(found),
       carry |-> found # {}, overflow |-> 0 \in found,
       sign |-> D # DOMAIN d, zero |-> S # DOMAIN s]
NativePcmpistri(d, s, c) ==
  LET valid(v) == {i \in DOMAIN v : \A j \in 0..i : v[j] # 0} IN
  NativeCompared(d, valid(d), s, valid(s), c)
NativePcmpestri(d, ld, s, ls, c) ==
  LET valid(v, l) == {i \in DOMAIN v : i < Max({l, -l})} IN
  NativeCompared(d, valid(d, ld), s, valid(s, ls), c)
=============================================================================
