------------------------ MODULE CheckedVectorsProofs ------------------------
(* The vector instructions of the emulator are those of the processor for  *)
(* lanes of every even width and registers of any number of lanes, where   *)
(* the run compares registers of two or four lanes of four bits.           *)
EXTENDS CheckedVectors, WordsProofs

-----------------------------------------------------------------------------
(* Lanes.                                                                  *)

(* The number of lanes, of an MMX or an XMM register.                      *)
LaneCount(n) == n \in Nat /\ n >= 2 /\ n % 2 = 0

LEMMA LaneFacts ==
  ASSUME NEW n, LaneCount(n), NEW v \in Register(n)
  PROVE  /\ DOMAIN v = 0..n - 1 /\ Lanes(v) = n /\ Count(v) = n /\ HalfOf(v) = n \div 2
         /\ \A i \in 0..n - 1 : v[i] \in Word
         /\ v = [i \in 0..n - 1 |-> v[i]]
<1>1. n \in Nat /\ n >= 2 /\ n - 1 \in Int /\ ~(0 > n - 1) /\ ((n - 1) - 0) + 1 = n /\ 0 \in Int
  BY DEF LaneCount
<1>2. DOMAIN v = 0..n - 1 /\ (\A i \in 0..n - 1 : v[i] \in Word) /\ v = [i \in 0..n - 1 |-> v[i]]
  BY DEF Register
<1>3. Cardinality(0..n - 1) = ((n - 1) - 0) + 1
  BY <1>1, FS_Interval
<1>4. Cardinality(DOMAIN v) = n
  BY <1>1, <1>2, <1>3
<1> QED BY <1>2, <1>4 DEF Lanes, Count, HalfOf

LEMMA HalfFacts ==
  ASSUME NEW n, LaneCount(n)
  PROVE  n \div 2 \in Nat \ {0} /\ n = 2 * (n \div 2)
BY DEF LaneCount

(* The remainder is the one number of the range that is congruent.         *)
LEMMA CongruentFacts ==
  ASSUME NEW n \in Int, NEW size \in Nat \ {0}
  PROVE  Congruent(n, size) = n % size /\ n % size \in 0..size - 1
<1> DEFINE q == n \div size
           r == n % size
<1>1. q \in Int /\ r \in 0..size - 1 /\ n = q * size + r
  OBVIOUS
<1> HIDE DEF q, r
<1>2. r \in Int
  BY <1>1
<1>3. (r - n) % size = 0
  <2> DEFINE k == -q
             m == r - n
             o == 0
  <2>1. m = k * size + o /\ k \in Int /\ o \in 0..size - 1
    BY <1>1
  <2> HIDE DEF k, m, o
  <2>2. m % size = o
    BY <2>1, Parts
  <2> QED BY <2>2 DEF m, o
<1>4. ASSUME NEW w \in 0..size - 1, (w - n) % size = 0 PROVE w = r
  <2> DEFINE m == w - n
             k == m \div size
  <2>1. m \in Int
    BY <1>4
  <2>2. m % size = 0
    BY <1>4
  <2> HIDE DEF m
  <2>3. k \in Int /\ m = k * size + 0
    BY <2>1, <2>2
  <2> HIDE DEF k
  <2> DEFINE j == q + k
  <2>4. j \in Int /\ j * size = q * size + k * size
    BY <1>1, <2>3
  <2>5. w = j * size + r
    <3>1. q * size \in Int /\ k * size \in Int /\ w \in Int
      BY <1>1, <1>4, <2>3
    <3> QED BY <1>1, <1>2, <2>3, <2>4, <3>1 DEF m
  <2> HIDE DEF j
  <2>6. w % size = r
    BY <1>1, <2>4, <2>5, Parts
  <2>7. w % size = w
    <3>1. w = 0 * size + w /\ 0 \in Int
      BY <1>4
    <3> QED BY <1>4, <3>1, Parts
  <2> QED BY <2>6, <2>7
<1>5. Congruent(n, size) = r
  BY <1>1, <1>3, <1>4 DEF Congruent
<1> QED BY <1>1, <1>5 DEF r

LEMMA CongruentIsWrap ==
  ASSUME NEW n \in Int
  PROVE  Congruent(n, Size) = Wrap(n) /\ Wrap(n) \in Word /\ Lower(n) = Wrap(n)
<1>1. Size \in Nat \ {0} /\ Word = 0..Size - 1
  BY WidthFacts
<1> QED BY <1>1, CongruentFacts DEF Wrap, Lower

(* The nearest number of a range is the number or one of its ends.         *)
LEMMA NearestFacts ==
  ASSUME NEW a \in Int, NEW b \in Int, a <= b, NEW n \in Int
  PROVE  /\ Nearest(n, a..b) = IF n > b THEN b ELSE IF n < a THEN a ELSE n
         /\ Nearest(n, a..b) \in a..b
<1>1. Min(a..b) = a
  BY DEF Min
<1>2. Max(a..b) = b
  BY DEF Max
<1>3. CASE n > b
  <2>1. n \notin a..b /\ ~(\A l \in a..b : n < l)
    BY <1>3
  <2> QED BY <1>2, <1>3, <2>1 DEF Nearest
<1>4. CASE n < a
  <2>1. n \notin a..b /\ \A l \in a..b : n < l
    BY <1>4
  <2> QED BY <1>1, <1>4, <2>1 DEF Nearest
<1>5. CASE n \in a..b
  BY <1>5 DEF Nearest
<1> QED BY <1>3, <1>4, <1>5

LEMMA MinMax ==
  ASSUME NEW x \in Int, NEW y \in Int
  PROVE  /\ Max({x, y}) = IF x < y THEN y ELSE x
         /\ Min({x, y}) = IF y < x THEN y ELSE x
<1>1. CASE x < y
  BY <1>1 DEF Max, Min
<1>2. CASE ~(x < y)
  BY <1>2 DEF Max, Min
<1> QED BY <1>1, <1>2

-----------------------------------------------------------------------------
(* Packed sums.                                                            *)

LEMMA WordNumbers ==
  ASSUME NEW x \in Word
  PROVE  /\ x \in Int /\ x >= 0 /\ x <= Size - 1 /\ x \in Nat
         /\ Signed(x) \in Int /\ Signed(x) >= -Half /\ Signed(x) <= Half - 1
         /\ Wrap(Signed(x)) = x /\ Signed(x) = IF x >= Half THEN x - Size ELSE x
         /\ Wrap(x) = x
BY WidthFacts, SignedFacts, WrapFacts DEF Signed, Negative

LEMMA SaturatedFacts ==
  ASSUME NEW n \in Int
  PROVE  Congruent(Nearest(n, SignedWords), Size) = Saturated(n) /\ Saturated(n) \in Word
         /\ Lower(Nearest(n, SignedWords)) = Saturated(n)
<1> DEFINE a == -Half
           b == Half - 1
           r == Nearest(n, a..b)
<1>1. a \in Int /\ b \in Int /\ a <= b
  BY WidthFacts
<1> HIDE DEF a, b
<1>2. r = (IF n > b THEN b ELSE IF n < a THEN a ELSE n) /\ r \in a..b
  BY <1>1, NearestFacts
<1> HIDE DEF r
<1>3. r \in Int
  BY <1>1, <1>2
<1>4. Congruent(r, Size) = Wrap(r) /\ Wrap(r) \in Word /\ Lower(r) = Wrap(r)
  BY <1>3, CongruentIsWrap
<1>5. Saturated(n) = Wrap(r)
  BY <1>2 DEF Saturated, MaxWord, MinWord, a, b
<1>6. r = Nearest(n, SignedWords)
  BY DEF r, a, b, SignedWords
<1> QED BY <1>4, <1>5, <1>6

(* The sums of two lanes.                                                  *)
LEMMA LaneSums ==
  ASSUME NEW x \in Word, NEW y \in Word
  PROVE  /\ Congruent(x + y, Size) = Wrap(x + y) /\ Wrap(x + y) \in Word
         /\ Congruent(x - y, Size) = Wrap(x - y) /\ Wrap(x - y) \in Word
         /\ Congruent(Nearest(Signed(x) + Signed(y), SignedWords), Size) =
              Saturated(Signed(x) + Signed(y))
         /\ Saturated(Signed(x) + Signed(y)) \in Word
         /\ Congruent(Nearest(Signed(x) - Signed(y), SignedWords), Size) =
              Saturated(Signed(x) - Signed(y))
         /\ Saturated(Signed(x) - Signed(y)) \in Word
         /\ Nearest(x + y, Word) = (IF x + y > Ones THEN Ones ELSE x + y)
         /\ (IF x + y > Ones THEN Ones ELSE x + y) \in Word
         /\ Nearest(x - y, Word) = (IF x >= y THEN x - y ELSE 0)
         /\ (IF x >= y THEN x - y ELSE 0) \in Word
         /\ Min({m \in Word : 2 * m >= x + y}) = (x + y + 1) \div 2
         /\ (x + y + 1) \div 2 \in Word
<1> DEFINE a == x + y
           b == x - y
           p == Signed(x) + Signed(y)
           q == Signed(x) - Signed(y)
           o == Size - 1
           e == 0
<1>1. a \in Int /\ b \in Int /\ p \in Int /\ q \in Int /\ o \in Int /\ e \in Int /\ e <= o
  BY WordNumbers, WidthFacts
<1>2. /\ a >= 0 /\ a <= 2 * o /\ b <= o /\ (b < 0 <=> ~(x >= y)) /\ Word = e..o /\ o = Ones
  BY WordNumbers, WidthFacts DEF Ones
<1> HIDE DEF a, b, p, q, o
<1>3. Congruent(a, Size) = Wrap(a) /\ Wrap(a) \in Word /\ Congruent(b, Size) = Wrap(b) /\ Wrap(b) \in Word
  BY <1>1, CongruentIsWrap
<1>4. /\ Congruent(Nearest(p, SignedWords), Size) = Saturated(p) /\ Saturated(p) \in Word
      /\ Congruent(Nearest(q, SignedWords), Size) = Saturated(q) /\ Saturated(q) \in Word
  BY <1>1, SaturatedFacts
<1>5. /\ Nearest(a, e..o) = (IF a > o THEN o ELSE IF a < e THEN e ELSE a) /\ Nearest(a, e..o) \in e..o
      /\ Nearest(b, e..o) = (IF b > o THEN o ELSE IF b < e THEN e ELSE b) /\ Nearest(b, e..o) \in e..o
  <2> HIDE DEF e
  <2>1. /\ Nearest(a, e..o) = (IF a > o THEN o ELSE IF a < e THEN e ELSE a)
        /\ Nearest(a, e..o) \in e..o
    BY <1>1, NearestFacts
  <2>2. /\ Nearest(b, e..o) = (IF b > o THEN o ELSE IF b < e THEN e ELSE b)
        /\ Nearest(b, e..o) \in e..o
    BY <1>1, NearestFacts
  <2> QED BY <2>1, <2>2
<1>6. Nearest(a, Word) = (IF a > Ones THEN Ones ELSE a) /\ Nearest(a, Word) \in Word
  BY <1>1, <1>2, <1>5
<1>7. Nearest(b, Word) = (IF x >= y THEN b ELSE 0) /\ Nearest(b, Word) \in Word
  BY <1>1, <1>2, <1>5
<1> DEFINE m == (a + 1) \div 2
<1>8. m \in Word /\ 2 * m >= a /\ \A k \in Word : 2 * k >= a => m <= k
  BY <1>1, <1>2
<1> HIDE DEF m
<1>9. Min({k \in Word : 2 * k >= a}) = m
  <2>1. \A k \in Word : k \in Int
    BY WidthFacts
  <2> QED BY <1>8, <2>1 DEF Min
<1>10. m = (x + y + 1) \div 2
  BY DEF m, a
<1> QED BY <1>3, <1>4, <1>6, <1>7, <1>8, <1>9, <1>10 DEF a, b, p, q

(* An instruction that works on each pair of lanes by itself.              *)
LEMMA EachLane ==
  ASSUME NEW n, LaneCount(n), NEW d \in Register(n), NEW s \in Register(n)
  PROVE  /\ \A i \in DOMAIN d : d[i] \in Word /\ s[i] \in Word
         /\ DOMAIN d = 0..n - 1 /\ DOMAIN s = 0..n - 1
<1>1. DOMAIN d = 0..n - 1 /\ \A i \in 0..n - 1 : d[i] \in Word
  BY LaneFacts
<1>2. DOMAIN s = 0..n - 1 /\ \A i \in 0..n - 1 : s[i] \in Word
  BY LaneFacts
<1> QED BY <1>1, <1>2

LEMMA EachSum ==
  ASSUME NEW n, LaneCount(n), NEW d \in Register(n), NEW s \in Register(n)
  PROVE  /\ NativePadd(d, s) = Padd(d, s) /\ NativePsub(d, s) = Psub(d, s)
         /\ NativePadds(d, s) = Padds(d, s) /\ NativePsubs(d, s) = Psubs(d, s)
         /\ NativePaddus(d, s) = Paddus(d, s) /\ NativePsubus(d, s) = Psubus(d, s)
         /\ NativePavg(d, s) = Pavg(d, s)
         /\ {Padd(d, s), Psub(d, s), Padds(d, s), Psubs(d, s),
             Paddus(d, s), Psubus(d, s), Pavg(d, s)} \subseteq Register(n)
<1>1. /\ \A i \in DOMAIN d : d[i] \in Word /\ s[i] \in Word
      /\ DOMAIN d = 0..n - 1
  BY EachLane
<1>2. NativePadd(d, s) = Padd(d, s) /\ Padd(d, s) \in Register(n)
  BY <1>1, LaneSums DEF NativePadd, Padd, Across, Each, Register
<1>3. NativePsub(d, s) = Psub(d, s) /\ Psub(d, s) \in Register(n)
  BY <1>1, LaneSums DEF NativePsub, Psub, Across, Each, Register
<1>4. NativePadds(d, s) = Padds(d, s) /\ Padds(d, s) \in Register(n)
  BY <1>1, LaneSums DEF NativePadds, Padds, Across, Each, Register
<1>5. NativePsubs(d, s) = Psubs(d, s) /\ Psubs(d, s) \in Register(n)
  BY <1>1, LaneSums DEF NativePsubs, Psubs, Across, Each, Register
<1>6. NativePaddus(d, s) = Paddus(d, s) /\ Paddus(d, s) \in Register(n)
  BY <1>1, LaneSums DEF NativePaddus, Paddus, Across, Each, Register
<1>7. NativePsubus(d, s) = Psubus(d, s) /\ Psubus(d, s) \in Register(n)
  BY <1>1, LaneSums DEF NativePsubus, Psubus, Across, Each, Register
<1>8. NativePavg(d, s) = Pavg(d, s) /\ Pavg(d, s) \in Register(n)
  BY <1>1, LaneSums DEF NativePavg, Pavg, Across, Each, Register
<1> QED BY <1>2, <1>3, <1>4, <1>5, <1>6, <1>7, <1>8

(* Sums of neighbours.                                                     *)
LEMMA NeighbourSums ==
  ASSUME NEW n, LaneCount(n), NEW d \in Register(n), NEW s \in Register(n)
  PROVE  NativePhadd(d, s) = Phadd(d, s) /\ Phadd(d, s) \in Register(n)
<1> DEFINE h == n \div 2
           pool == [i \in 0..2 * n - 1 |-> IF i < n THEN d[i] ELSE s[i - n]]
           sums(v, i) == Wrap(v[2 * i] + v[2 * i + 1])
<1>1. n \in Nat /\ h \in Nat \ {0} /\ n = 2 * h
  BY HalfFacts DEF LaneCount
<1>2. /\ DOMAIN d = 0..n - 1 /\ Count(d) = n /\ HalfOf(d) = h
      /\ \A i \in 0..n - 1 : d[i] \in Word
  BY LaneFacts
<1>3. \A i \in 0..n - 1 : s[i] \in Word
  BY LaneFacts
<1>4. /\ NativePhadd(d, s) = [i \in 0..n - 1 |-> Congruent(pool[2 * i] + pool[2 * i + 1], Size)]
      /\ Phadd(d, s) = [i \in 0..n - 1 |-> IF i < h THEN sums(d, i) ELSE sums(s, i - h)]
  BY <1>2 DEF NativePhadd, Phadd
<1> HIDE DEF h
<1>5. ASSUME NEW i \in 0..n - 1
      PROVE  /\ Congruent(pool[2 * i] + pool[2 * i + 1], Size) =
                  IF i < h THEN sums(d, i) ELSE sums(s, i - h)
             /\ (IF i < h THEN sums(d, i) ELSE sums(s, i - h)) \in Word
  <2>1. 2 * i \in 0..2 * n - 1 /\ 2 * i + 1 \in 0..2 * n - 1
    BY <1>1
  <2>2. CASE i < h
    <3>1. 2 * i \in 0..n - 1 /\ 2 * i + 1 \in 0..n - 1 /\ 2 * i < n /\ 2 * i + 1 < n
      BY <1>1, <2>2
    <3>2. pool[2 * i] = d[2 * i] /\ pool[2 * i + 1] = d[2 * i + 1]
      BY <2>1, <3>1
    <3>3. d[2 * i] \in Word /\ d[2 * i + 1] \in Word
      BY <1>2, <3>1
    <3> HIDE DEF pool
    <3>4. Congruent(d[2 * i] + d[2 * i + 1], Size) = sums(d, i) /\ sums(d, i) \in Word
      BY <3>3, LaneSums
    <3> QED BY <2>2, <3>2, <3>4
  <2>3. CASE ~(i < h)
    <3> DEFINE j == i - h
    <3>1. j \in Int /\ 2 * j = 2 * i - n /\ 2 * j + 1 = (2 * i + 1) - n
          /\ 2 * j \in 0..n - 1 /\ 2 * j + 1 \in 0..n - 1 /\ ~(2 * i < n) /\ ~(2 * i + 1 < n)
      BY <1>1, <2>3
    <3>2. pool[2 * i] = s[2 * j] /\ pool[2 * i + 1] = s[2 * j + 1]
      BY <2>1, <3>1
    <3>3. s[2 * j] \in Word /\ s[2 * j + 1] \in Word
      BY <1>3, <3>1
    <3> HIDE DEF pool, j
    <3>4. Congruent(s[2 * j] + s[2 * j + 1], Size) = sums(s, j) /\ sums(s, j) \in Word
      BY <3>3, LaneSums
    <3> QED BY <2>3, <3>2, <3>4 DEF j
  <2> QED BY <2>2, <2>3
<1> HIDE DEF pool, sums
<1> QED BY <1>4, <1>5 DEF Register

-----------------------------------------------------------------------------
(* Sums over a set of lanes: the loop of the emulator adds them in order,  *)
(* the sum of the processor takes its terms one by one out of the set.     *)

(* t adds, up to n, the numbers w of the set T.                            *)
Adds(w, T, n, t) ==
  /\ t[0] = 0 /\ \A i \in 0..n : t[i] \in Int
  /\ \A i \in 0..n - 1 : t[i + 1] = t[i] + IF i \in T THEN w[i] ELSE 0

Numbers(w, n) == n \in Nat /\ \A i \in 0..n - 1 : w[i] \in Int
TotalOf(w, T, n) == CHOOSE v : \E t : Adds(w, T, n, t) /\ v = t[n]

LEMMA AddsExist ==
  ASSUME NEW w, NEW n, Numbers(w, n), NEW T
  PROVE  \E t : Adds(w, T, n, t)
<1> DEFINE h == [i \in 1..n |-> [v \in Int |-> v + IF i - 1 \in T THEN w[i - 1] ELSE 0]]
<1>1. n \in Nat /\ \A i \in 0..n - 1 : w[i] \in Int /\ i + 1 \in 1..n /\ (i + 1) - 1 = i /\ i \in 0..n
  BY DEF Numbers
<1>2. \A i \in 1..n, v \in Int : h[i][v] \in Int
  <2> SUFFICES ASSUME NEW i \in 1..n, NEW v \in Int PROVE h[i][v] \in Int
    OBVIOUS
  <2>1. i - 1 \in 0..n - 1
    BY <1>1
  <2>2. w[i - 1] \in Int
    BY <1>1, <2>1
  <2> QED BY <2>2
<1>3. PICK t : Repeats(0, h, n, t) /\ \A k \in 0..n : t[k] \in Int
  <2> DEFINE o == 0
             A == Int
  <2>1. o \in A
    OBVIOUS
  <2>2. \A i \in 1..n, v \in A : h[i][v] \in A
    BY <1>2
  <2> HIDE DEF h, o, A
  <2>3. \E t : Repeats(o, h, n, t) /\ \A k \in 0..n : t[k] \in A
    BY <1>1, <2>1, <2>2, RecursionIn
  <2> QED BY <2>3 DEF o, A
<1>4. ASSUME NEW i \in 0..n - 1 PROVE t[i + 1] = t[i] + IF i \in T THEN w[i] ELSE 0
  <2>1. i + 1 \in 1..n /\ (i + 1) - 1 = i /\ t[i] \in Int
    BY <1>1, <1>3
  <2>2. t[i + 1] = h[i + 1][t[i]]
    BY <1>3, <2>1 DEF Repeats
  <2> QED BY <2>1, <2>2
<1>5. t[0] = 0
  BY <1>3 DEF Repeats
<1> QED BY <1>3, <1>4, <1>5 DEF Adds

(* An element less, and its number is missing from there on.               *)
LEMMA OneLess ==
  ASSUME NEW w, NEW n, Numbers(w, n), NEW T, NEW x \in 0..n - 1, x \in T,
         NEW t, Adds(w, T, n, t), NEW u, Adds(w, T \ {x}, n, u)
  PROVE  t[n] = w[x] + u[n]
<1> DEFINE G == {k \in 0..n : t[k] = u[k] + IF x < k THEN w[x] ELSE 0}
<1>1. n \in Nat /\ x \in Nat /\ w[x] \in Int /\ 0 \in 0..n
  BY DEF Numbers
<1>2. 0 \in G
  BY <1>1 DEF Adds
<1>3. ASSUME NEW k \in 0..n - 1, k \in G PROVE k + 1 \in G
  <2> DEFINE a == t[k + 1]
             b == u[k + 1]
  <2>1. a = t[k] + (IF k \in T THEN w[k] ELSE 0) /\ b = u[k] + (IF k \in T \ {x} THEN w[k] ELSE 0)
    BY DEF Adds
  <2>2. t[k] \in Int /\ u[k] \in Int /\ w[k] \in Int /\ k + 1 \in 0..n /\ k \in Int
    BY <1>1 DEF Adds, Numbers
  <2>3. t[k] = u[k] + IF x < k THEN w[x] ELSE 0
    BY <1>3
  <2> HIDE DEF a, b
  <2>4. a = b + IF x < k + 1 THEN w[x] ELSE 0
    <3>1. CASE k = x
      BY <1>1, <2>1, <2>2, <2>3, <3>1
    <3>2. CASE k # x
      <4>1. (x < k + 1 <=> x < k) /\ (k \in T \ {x} <=> k \in T)
        BY <1>1, <2>2, <3>2
      <4> QED BY <1>1, <2>1, <2>2, <2>3, <4>1
    <3> QED BY <3>1, <3>2
  <2> QED BY <2>2, <2>4 DEF a, b
<1>4. \A k \in 0..n : k \in G
  <2> HIDE DEF G
  <2> QED BY <1>1, <1>2, <1>3, UpTo
<1>5. n \in G /\ u[n] \in Int
  BY <1>1, <1>4 DEF Adds
<1> QED BY <1>1, <1>5

LEMMA AddsOnce ==
  ASSUME NEW w, NEW n, Numbers(w, n), NEW T,
         NEW t, Adds(w, T, n, t), NEW u, Adds(w, T, n, u)
  PROVE  t[n] = u[n]
<1> DEFINE G == {k \in 0..n : t[k] = u[k]}
<1>1. n \in Nat /\ 0 \in G
  BY DEF Adds, Numbers
<1>2. ASSUME NEW k \in 0..n - 1, k \in G PROVE k + 1 \in G
  <2>1. k + 1 \in 0..n
    BY <1>1
  <2>2. t[k] = u[k]
    BY <1>2
  <2>3. t[k + 1] = t[k] + (IF k \in T THEN w[k] ELSE 0) /\ u[k + 1] = u[k] + (IF k \in T THEN w[k] ELSE 0)
    BY DEF Adds
  <2> QED BY <2>1, <2>2, <2>3
<1>3. \A k \in 0..n : k \in G
  <2> HIDE DEF G
  <2> QED BY <1>1, <1>2, UpTo
<1> QED BY <1>1, <1>3

LEMMA TotalFacts ==
  ASSUME NEW w, NEW n, Numbers(w, n), NEW T
  PROVE  /\ \A t : Adds(w, T, n, t) => TotalOf(w, T, n) = t[n]
         /\ T = {} => TotalOf(w, T, n) = 0
         /\ \A x \in T : x \in 0..n - 1 => TotalOf(w, T, n) = w[x] + TotalOf(w, T \ {x}, n)
<1>1. ASSUME NEW A, NEW t, Adds(w, A, n, t) PROVE TotalOf(w, A, n) = t[n]
  <2>1. PICK u : Adds(w, A, n, u) /\ TotalOf(w, A, n) = u[n]
    BY <1>1 DEF TotalOf
  <2> QED BY <1>1, <2>1, AddsOnce
<1>2. ASSUME T = {} PROVE TotalOf(w, T, n) = 0
  <2> DEFINE t == [i \in 0..n |-> 0]
  <2>1. n \in Nat /\ \A i \in 0..n - 1 : i \in 0..n /\ i + 1 \in 0..n
    BY DEF Numbers
  <2>2. Adds(w, T, n, t)
    BY <1>2, <2>1 DEF Adds
  <2>3. t[n] = 0
    BY <2>1
  <2> HIDE DEF t
  <2> QED BY <1>1, <2>2, <2>3
<1>3. ASSUME NEW x \in T, x \in 0..n - 1
      PROVE  TotalOf(w, T, n) = w[x] + TotalOf(w, T \ {x}, n)
  <2>1. PICK t : Adds(w, T, n, t)
    BY AddsExist
  <2>2. PICK u : Adds(w, T \ {x}, n, u)
    BY AddsExist
  <2>3. t[n] = w[x] + u[n]
    BY <1>3, <2>1, <2>2, OneLess
  <2>4. TotalOf(w, T, n) = t[n] /\ TotalOf(w, T \ {x}, n) = u[n]
    BY <1>1, <2>1, <2>2
  <2> QED BY <2>3, <2>4
<1> QED BY <1>1, <1>2, <1>3

(* The library's sum over a set: it is defined on the subsets, by the      *)
(* element that is chosen.                                                 *)
Chosen(T) == CHOOSE x \in T : TRUE
Folds(w, S, g) ==
  g = [T \in SUBSET S |-> IF T = {} THEN 0 ELSE w[Chosen(T)] + g[T \ {Chosen(T)}]]

LEMMA FoldsExist ==
  ASSUME NEW w, NEW n, Numbers(w, n), NEW S, S \subseteq 0..n - 1
  PROVE  \E g : Folds(w, S, g)
<1> DEFINE g == [T \in SUBSET S |-> TotalOf(w, T, n)]
<1>1. ASSUME NEW T \in SUBSET S
      PROVE  g[T] = IF T = {} THEN 0 ELSE w[Chosen(T)] + g[T \ {Chosen(T)}]
  <2>1. CASE T = {}
    BY <2>1, TotalFacts
  <2>2. CASE T # {}
    <3> DEFINE x == Chosen(T)
    <3>1. x \in T
      BY <2>2 DEF Chosen
    <3> HIDE DEF x
    <3>2. x \in 0..n - 1 /\ T \ {x} \in SUBSET S
      BY <3>1
    <3>3. TotalOf(w, T, n) = w[x] + TotalOf(w, T \ {x}, n)
      BY <3>1, <3>2, TotalFacts
    <3>4. g[T] = w[x] + g[T \ {x}]
      BY <3>2, <3>3
    <3> QED BY <2>2, <3>4 DEF x
  <2> QED BY <2>1, <2>2
<1>2. g = [T \in SUBSET S |-> g[T]]
  OBVIOUS
<1> HIDE DEF g
<1>3. Folds(w, S, g)
  BY <1>1, <1>2 DEF Folds
<1> QED BY <1>3

LEMMA FoldIsTotal ==
  ASSUME NEW w, NEW n, Numbers(w, n), NEW S, S \subseteq 0..n - 1, NEW g, Folds(w, S, g)
  PROVE  g[S] = TotalOf(w, S, n)
<1> DEFINE Wrong == {T \in SUBSET S : g[T] # TotalOf(w, T, n)}
           Sizes == {Cardinality(T) : T \in Wrong}
<1>1. n \in Nat /\ IsFiniteSet(0..n - 1)
  <2>1. n \in Nat /\ 0 \in Int /\ n - 1 \in Int
    BY DEF Numbers
  <2> QED BY <2>1, FS_Interval
<1>2. \A T \in SUBSET S : IsFiniteSet(T) /\ Cardinality(T) \in Nat
  BY <1>1, FS_Subset, FS_CardinalityType
<1>3. ASSUME Wrong # {} PROVE FALSE
  <2>1. Sizes \subseteq Nat /\ Sizes # {}
    BY <1>2, <1>3
  <2>2. PICK k \in Sizes : \A j \in Sizes : k <= j
    <3> HIDE DEF Sizes
    <3> QED BY <2>1, Least
  <2>3. PICK T \in Wrong : k = Cardinality(T)
    OBVIOUS
  <2>4. T \in SUBSET S /\ g[T] # TotalOf(w, T, n) /\ IsFiniteSet(T)
    BY <1>2, <2>3
  <2>5. T # {}
    BY <2>4, TotalFacts DEF Folds
  <2> DEFINE x == Chosen(T)
             R == T \ {x}
  <2>6. x \in T
    BY <2>5 DEF Chosen
  <2>7. g[T] = w[x] + g[R]
    BY <2>4, <2>5 DEF Folds
  <2> HIDE DEF x
  <2>8. R \in SUBSET S /\ x \in 0..n - 1
    BY <2>4, <2>6
  <2>9. Cardinality(R) = Cardinality(T) - 1
    BY <2>4, <2>6, FS_RemoveElement
  <2>10. ~(k <= Cardinality(R))
    BY <1>2, <2>3, <2>4, <2>9
  <2>11. R \notin Wrong
    BY <2>2, <2>10
  <2>12. g[R] = TotalOf(w, R, n)
    BY <2>8, <2>11
  <2>13. TotalOf(w, T, n) = w[x] + TotalOf(w, R, n)
    BY <2>6, <2>8, TotalFacts
  <2> QED BY <2>4, <2>7, <2>12, <2>13
<1> QED BY <1>3

(* The sum of the distances of the lanes S, that are the numbers w.        *)
DistanceOver(d, s, S) == MapThenSumSet(LAMBDA i : Max({d[i] - s[i], s[i] - d[i]}), S)
AreDistances(d, s, S, w, n) ==
  /\ Numbers(w, n) /\ S \subseteq 0..n - 1
  /\ \A x \in S : Max({d[x] - s[x], s[x] - d[x]}) = w[x]

LEMMA DistanceSum ==
  ASSUME NEW d, NEW s, NEW S, NEW w, NEW n, AreDistances(d, s, S, w, n)
  PROVE  DistanceOver(d, s, S) = TotalOf(w, S, n)
<1> DEFINE P(h) == h = [T \in SUBSET S |->
             IF T = {} THEN 0
             ELSE LET x == CHOOSE x \in T : TRUE IN Max({d[x] - s[x], s[x] - d[x]}) + h[T \ {x}]]
           g == CHOOSE h : P(h)
<1>0. Numbers(w, n) /\ S \subseteq 0..n - 1
  BY DEF AreDistances
<1>1. DistanceOver(d, s, S) = g[S]
  BY DEF DistanceOver, MapThenSumSet, MapThenFoldSet
<1>2. ASSUME NEW T \in SUBSET S, T # {}, NEW x, x = Chosen(T) PROVE Max({d[x] - s[x], s[x] - d[x]}) = w[x]
  BY <1>2 DEF Chosen, AreDistances
<1>3. PICK f : Folds(w, S, f)
  BY <1>0, FoldsExist
<1>4. P(f)
  <2>1. [T \in SUBSET S |-> IF T = {} THEN 0 ELSE w[Chosen(T)] + f[T \ {Chosen(T)}]] =
        [T \in SUBSET S |-> IF T = {} THEN 0
           ELSE LET x == Chosen(T) IN Max({d[x] - s[x], s[x] - d[x]}) + f[T \ {x}]]
    BY <1>2
  <2> QED BY <1>3, <2>1 DEF Folds, Chosen
<1>5. P(g)
  <2> HIDE DEF P
  <2> QED BY <1>4
<1> HIDE DEF g
<1>6. Folds(w, S, g)
  <2>1. [T \in SUBSET S |-> IF T = {} THEN 0 ELSE w[Chosen(T)] + g[T \ {Chosen(T)}]] =
        [T \in SUBSET S |-> IF T = {} THEN 0
           ELSE LET x == Chosen(T) IN Max({d[x] - s[x], s[x] - d[x]}) + g[T \ {x}]]
    BY <1>2
  <2> QED BY <1>5, <2>1 DEF Folds, Chosen
<1> QED BY <1>0, <1>1, <1>6, FoldIsTotal

(* The sum of the set S of lanes, of the numbers w that are powers of two.  *)
LEMMA PowerSum ==
  ASSUME NEW n,
         NEW w, Numbers(w, n), NEW S, S \subseteq 0..n - 1,
         \A x \in S : 2^x = w[x]
  PROVE  MapThenSumSet(LAMBDA x : 2^x, S) = TotalOf(w, S, n)
<1> DEFINE P(h) == h = [T \in SUBSET S |->
             IF T = {} THEN 0
             ELSE LET x == CHOOSE x \in T : TRUE IN 2^x + h[T \ {x}]]
           g == CHOOSE h : P(h)
<1>1. MapThenSumSet(LAMBDA x : 2^x, S) = g[S]
  BY DEF MapThenSumSet, MapThenFoldSet
<1>2. ASSUME NEW T \in SUBSET S, T # {}, NEW x, x = Chosen(T) PROVE 2^x = w[x]
  BY <1>2 DEF Chosen
<1>3. PICK f : Folds(w, S, f)
  BY FoldsExist
<1>4. P(f)
  <2>1. [T \in SUBSET S |-> IF T = {} THEN 0 ELSE w[Chosen(T)] + f[T \ {Chosen(T)}]] =
        [T \in SUBSET S |-> IF T = {} THEN 0
           ELSE LET x == Chosen(T) IN 2^x + f[T \ {x}]]
    BY <1>2
  <2> QED BY <1>3, <2>1 DEF Folds, Chosen
<1>5. P(g)
  <2> HIDE DEF P
  <2> QED BY <1>4
<1> HIDE DEF g
<1>6. Folds(w, S, g)
  <2>1. [T \in SUBSET S |-> IF T = {} THEN 0 ELSE w[Chosen(T)] + g[T \ {Chosen(T)}]] =
        [T \in SUBSET S |-> IF T = {} THEN 0
           ELSE LET x == Chosen(T) IN 2^x + g[T \ {x}]]
    BY <1>2
  <2> QED BY <1>5, <2>1 DEF Folds, Chosen
<1> QED BY <1>1, <1>6, FoldIsTotal

(* A loop that adds a number for each lane.                                *)
Loop(e, n, g) == g = [i \in 0..n |-> IF i = 0 THEN 0 ELSE g[i - 1] + e[i - 1]]

LEMMA LoopExists ==
  ASSUME NEW e, NEW n, Numbers(e, n)
  PROVE  \E g : Loop(e, n, g)
<1>1. PICK t : Adds(e, 0..n - 1, n, t)
  BY AddsExist
<1> DEFINE g == [i \in 0..n |-> t[i]]
<1>2. n \in Nat /\ 0 \in 0..n
  BY DEF Numbers
<1>3. ASSUME NEW i \in 0..n PROVE g[i] = IF i = 0 THEN 0 ELSE g[i - 1] + e[i - 1]
  <2>1. CASE i = 0
    BY <1>1, <1>2, <2>1 DEF Adds
  <2>2. CASE i # 0
    <3> DEFINE k == i - 1
    <3>1. k \in 0..n - 1 /\ k \in 0..n /\ k + 1 = i
      BY <1>2, <2>2
    <3> HIDE DEF k
    <3>2. t[k + 1] = t[k] + e[k]
      BY <1>1, <3>1 DEF Adds
    <3>3. g[i] = g[k] + e[k]
      BY <3>1, <3>2
    <3> QED BY <2>2, <3>3 DEF k
  <2> QED BY <2>1, <2>2
<1>4. g = [i \in 0..n |-> g[i]]
  OBVIOUS
<1> HIDE DEF g
<1>5. Loop(e, n, g)
  BY <1>3, <1>4 DEF Loop
<1> QED BY <1>5

LEMMA LoopSum ==
  ASSUME NEW e, NEW w, NEW n, Numbers(e, n), Numbers(w, n), NEW T,
         \A i \in 0..n - 1 : e[i] = IF i \in T THEN w[i] ELSE 0,
         NEW g, Loop(e, n, g)
  PROVE  g[n] = TotalOf(w, T, n)
<1>1. n \in Nat /\ 0 \in 0..n /\ g[0] = 0
  BY DEF Numbers, Loop
<1>2. ASSUME NEW k \in 0..n - 1 PROVE g[k + 1] = g[k] + e[k] /\ k + 1 \in 0..n
  <2> DEFINE i == k + 1
  <2>1. i \in 0..n /\ i # 0 /\ i - 1 = k
    BY <1>1
  <2> HIDE DEF i
  <2>2. g[i] = g[i - 1] + e[i - 1]
    BY <2>1 DEF Loop
  <2> QED BY <2>1, <2>2 DEF i
<1>3. \A k \in 0..n : g[k] \in Int
  <2> DEFINE G == {k \in 0..n : g[k] \in Int}
  <2>1. 0 \in G
    BY <1>1
  <2>2. ASSUME NEW k \in 0..n - 1, k \in G PROVE k + 1 \in G
    <3>1. e[k] \in Int /\ g[k] \in Int
      BY <2>2 DEF Numbers
    <3> QED BY <1>2, <3>1
  <2> HIDE DEF G
  <2>3. \A k \in 0..n : k \in G
    BY <1>1, <2>1, <2>2, UpTo
  <2> QED BY <2>3 DEF G
<1>4. Adds(w, T, n, g)
  BY <1>1, <1>2, <1>3 DEF Adds
<1> QED BY <1>4, TotalFacts

(* The loop that adds the distances of the lanes of group h, m of them.    *)
Apart(d, s, i) == IF d[i] >= s[i] THEN d[i] - s[i] ELSE s[i] - d[i]
GroupLoop(d, s, m, h) ==
  CHOOSE sum : sum = [i \in 0..Lanes(d) |->
    IF i = 0 THEN 0
    ELSE sum[i - 1] + IF (i - 1) \div m = h THEN Apart(d, s, i - 1) ELSE 0]

LEMMA GroupDistance ==
  ASSUME NEW n, LaneCount(n), NEW d \in Register(n), NEW s \in Register(n), NEW m, NEW h
  PROVE  DistanceOver(d, s, {i \in DOMAIN d : i \div m = h}) = GroupLoop(d, s, m, h)[Lanes(d)]
<1> DEFINE w == [i \in 0..n - 1 |-> Apart(d, s, i)]
           T == {i \in DOMAIN d : i \div m = h}
           e == [i \in 0..n - 1 |-> IF i \div m = h THEN Apart(d, s, i) ELSE 0]
           P(f) == f = [i \in 0..n |-> IF i = 0 THEN 0
                     ELSE f[i - 1] + IF (i - 1) \div m = h THEN Apart(d, s, i - 1) ELSE 0]
           g == CHOOSE f : P(f)
<1>1. DOMAIN d = 0..n - 1 /\ Lanes(d) = n /\ n \in Nat
  BY LaneFacts DEF LaneCount
<1>2. \A i \in 0..n - 1 : d[i] \in Int /\ s[i] \in Int /\ Apart(d, s, i) \in Int
  <2>1. \A i \in 0..n - 1 : d[i] \in Int /\ s[i] \in Int
    BY EachLane, WordNumbers
  <2> QED BY <2>1 DEF Apart
<1>3. Numbers(w, n) /\ Numbers(e, n)
  <2> SUFFICES ASSUME NEW i \in 0..n - 1 PROVE w[i] \in Int /\ e[i] \in Int
    BY <1>1 DEF Numbers
  <2>1. Apart(d, s, i) \in Int /\ 0 \in Int
    BY <1>2
  <2>2. w[i] = Apart(d, s, i) /\ e[i] \in {Apart(d, s, i), 0}
    OBVIOUS
  <2> QED BY <2>1, <2>2
<1>4. \A x \in T : Max({d[x] - s[x], s[x] - d[x]}) = w[x]
  <2> SUFFICES ASSUME NEW x \in 0..n - 1 PROVE Max({d[x] - s[x], s[x] - d[x]}) = w[x]
    BY <1>1
  <2> DEFINE a == d[x] - s[x]
             b == s[x] - d[x]
  <2>1. a \in Int /\ b \in Int
    BY <1>2
  <2>2. w[x] = IF a < b THEN b ELSE a
    BY <1>2 DEF Apart
  <2> HIDE DEF a, b
  <2>3. Max({a, b}) = IF a < b THEN b ELSE a
    BY <2>1, MinMax
  <2> QED BY <2>2, <2>3 DEF a, b
<1>5. T \subseteq 0..n - 1 /\ \A i \in 0..n - 1 : e[i] = IF i \in T THEN w[i] ELSE 0
  BY <1>1
<1>6. DistanceOver(d, s, T) = TotalOf(w, T, n)
  <2> HIDE DEF w, T, e, P, g
  <2>1. AreDistances(d, s, T, w, n)
    BY <1>3, <1>4, <1>5 DEF AreDistances
  <2> QED BY <2>1, DistanceSum
<1>7. PICK f : Loop(e, n, f)
  BY <1>3, LoopExists
<1>8. \A f_1 : P(f_1) <=> Loop(e, n, f_1)
  <2> SUFFICES ASSUME NEW f_1 PROVE P(f_1) <=> Loop(e, n, f_1)
    OBVIOUS
  <2>1. \A i \in 0..n : i # 0 =>
          e[i - 1] = IF (i - 1) \div m = h THEN Apart(d, s, i - 1) ELSE 0
    BY <1>1
  <2> HIDE DEF e
  <2> QED BY <2>1 DEF Loop
<1>9. P(g)
  <2> HIDE DEF P
  <2> QED BY <1>7, <1>8
<1>10. GroupLoop(d, s, m, h) = g
  BY <1>1 DEF GroupLoop
<1> HIDE DEF P, g
<1>11. Loop(e, n, g)
  BY <1>8, <1>9
<1> HIDE DEF w, T, e
<1>12. g[n] = TotalOf(w, T, n)
  BY <1>3, <1>5, <1>11, LoopSum
<1> QED BY <1>1, <1>6, <1>10, <1>12 DEF T

(* The distances of the lanes, and the signs as bits.                      *)
LEMMA Distances ==
  ASSUME NEW n, LaneCount(n), NEW d \in Register(n), NEW s \in Register(n), NEW m
  PROVE  NativePsadbw(d, s, m) = Psadbw(d, s, m)
<1> DEFINE Sum(h) == DistanceOver(d, s, {i \in DOMAIN d : i \div m = h})
<1>1. NativePsadbw(d, s, m) = [h \in 0..Lanes(d) \div m - 1 |-> Sum(h)]
  BY DEF NativePsadbw, DistanceOver, Count, Lanes
<1>2. Psadbw(d, s, m) = [h \in 0..Lanes(d) \div m - 1 |-> GroupLoop(d, s, m, h)[Lanes(d)]]
  BY DEF Psadbw, GroupLoop, Apart
<1>3. \A h : Sum(h) = GroupLoop(d, s, m, h)[Lanes(d)]
  BY GroupDistance
<1> HIDE DEF Sum
<1> QED BY <1>1, <1>2, <1>3

LEMMA SignMasks ==
  ASSUME NEW n, LaneCount(n), NEW s \in Register(n)
  PROVE  NativeMovmsk(s) = Movmsk(s)
<1> DEFINE e == [i \in 0..n - 1 |-> (s[i] \div Half) * 2^i]
           w == [i \in 0..n - 1 |-> 2^i]
           T == {i \in 0..n - 1 : Negative(s[i])}
           P(h) == h = [i \in 0..n |-> IF i = 0 THEN 0
                     ELSE h[i - 1] + (s[i - 1] \div Half) * 2^(i - 1)]
           g == CHOOSE h : P(h)
<1>1. DOMAIN s = 0..n - 1 /\ Lanes(s) = n /\ n \in Nat
  BY LaneFacts DEF LaneCount
<1>2. \A i \in 0..n - 1 : s[i] \in Word /\ 2^i \in Int
  BY <1>1, EachLane, TwoPower
<1>3. \A i \in 0..n - 1 : s[i] \div Half = IF Negative(s[i]) THEN 1 ELSE 0
  <2> SUFFICES ASSUME NEW i \in 0..n - 1 PROVE s[i] \div Half = IF Negative(s[i]) THEN 1 ELSE 0
    OBVIOUS
  <2>1. s[i] \in Int /\ 0 <= s[i] /\ s[i] < 2 * Half /\ Half \in Int /\ Half >= 2
        /\ (Negative(s[i]) <=> s[i] >= Half)
    BY <1>2, WordFacts
  <2> DEFINE x == s[i]
             b == Half
  <2> HIDE DEF x, b
  <2>2. x \in Int /\ 0 <= x /\ x < 2 * b /\ b \in Int /\ b >= 2
    BY <2>1 DEF x, b
  <2>3. x \div b = IF x >= b THEN 1 ELSE 0
    <3>1. CASE x >= b
      <4>1. x = 1 * b + (x - b) /\ x - b \in 0..b - 1 /\ b \in Nat \ {0}
        BY <2>2, <3>1
      <4>2. x \div b = 1
        BY <4>1, Parts
      <4> QED BY <3>1, <4>2
    <3>2. CASE ~(x >= b)
      <4>1. x = 0 * b + x /\ x \in 0..b - 1 /\ b \in Nat \ {0}
        BY <2>2, <3>2
      <4>2. x \div b = 0
        BY <4>1, Parts
      <4> QED BY <3>2, <4>2
    <3> QED BY <3>1, <3>2
  <2> QED BY <2>1, <2>3 DEF x, b
<1>4. \A i \in 0..n - 1 : e[i] = IF i \in T THEN w[i] ELSE 0
  BY <1>2, <1>3
<1>5. Numbers(w, n)
  BY <1>1, <1>2 DEF Numbers
<1>6. Numbers(e, n)
  <2> HIDE DEF e, w, T
  <2> QED BY <1>4, <1>5 DEF Numbers
<1>7. T \subseteq 0..n - 1 /\ \A x \in T : 2^x = w[x]
  OBVIOUS
<1>8. NativeMovmsk(s) = TotalOf(w, T, n)
  <2>1. NativeMovmsk(s) = MapThenSumSet(LAMBDA x : 2^x, T)
    BY <1>1 DEF NativeMovmsk
  <2> HIDE DEF w, T
  <2>2. MapThenSumSet(LAMBDA x : 2^x, T) = TotalOf(w, T, n)
    BY <1>5, <1>7, PowerSum
  <2> QED BY <2>1, <2>2
<1>9. PICK f : Loop(e, n, f)
  BY <1>6, LoopExists
<1>10. \A h : P(h) <=> Loop(e, n, h)
  <2> SUFFICES ASSUME NEW h PROVE P(h) <=> Loop(e, n, h)
    OBVIOUS
  <2>1. \A i \in 0..n : i # 0 => i - 1 \in 0..n - 1
    BY <1>1
  <2> QED BY <2>1 DEF Loop
<1>11. P(g)
  <2> HIDE DEF P
  <2> QED BY <1>9, <1>10
<1>12. Movmsk(s) = g[n]
  BY <1>1 DEF Movmsk
<1> HIDE DEF P, g, e, w, T
<1>13. Loop(e, n, g)
  BY <1>10, <1>11
<1>14. g[n] = TotalOf(w, T, n)
  BY <1>4, <1>5, <1>6, <1>13, LoopSum
<1> QED BY <1>8, <1>12, <1>14

(* The packed sums of any two registers of one unit.                       *)
LEMMA SumsOfRegisters ==
  ASSUME NEW n, LaneCount(n), vdst \in Register(n), vsrc \in Register(n)
  PROVE  PackedSumsAgree
<1> DEFINE d == vdst
           s == vsrc
<1>1. d \in Register(n) /\ s \in Register(n)
  OBVIOUS
<1>2. PackedSumsAgree <=>
        /\ NativePadd(d, s) = Padd(d, s) /\ NativePsub(d, s) = Psub(d, s)
        /\ NativePadds(d, s) = Padds(d, s) /\ NativePsubs(d, s) = Psubs(d, s)
        /\ NativePaddus(d, s) = Paddus(d, s)
        /\ NativePsubus(d, s) = Psubus(d, s)
        /\ NativePavg(d, s) = Pavg(d, s) /\ NativePhadd(d, s) = Phadd(d, s)
        /\ NativePsadbw(d, s, MmxLanes) = Psadbw(d, s, MmxLanes)
  BY DEF PackedSumsAgree
<1> HIDE DEF d, s
<1> QED BY <1>1, <1>2, EachSum, NeighbourSums, Distances

-----------------------------------------------------------------------------
(* Comparisons and signs.                                                  *)

LEMMA LaneSigns ==
  ASSUME NEW x \in Word, NEW y \in Word
  PROVE  /\ Truth(x = y) = (IF x = y THEN Ones ELSE 0)
         /\ (IF x = y THEN Ones ELSE 0) \in Word
         /\ Truth(Signed(y) - Signed(x) < 0) = (IF Signed(x) > Signed(y) THEN Ones ELSE 0)
         /\ (IF Signed(x) > Signed(y) THEN Ones ELSE 0) \in Word
         /\ Max({x, y}) = (IF x < y THEN y ELSE x)
         /\ Min({x, y}) = (IF y < x THEN y ELSE x)
         /\ Lower(Max({Signed(x), Signed(y)})) = (IF Signed(x) < Signed(y) THEN y ELSE x)
         /\ Lower(Min({Signed(x), Signed(y)})) = (IF Signed(y) < Signed(x) THEN y ELSE x)
<1> DEFINE p == Signed(x)
           q == Signed(y)
<1>1. /\ x \in Int /\ y \in Int /\ p \in Int /\ q \in Int /\ Wrap(p) = x /\ Wrap(q) = y
      /\ Ones = Size - 1 /\ Ones \in Word /\ 0 \in Word
  BY WordNumbers, WidthFacts DEF Ones
<1> HIDE DEF p, q
<1>2. Max({x, y}) = (IF x < y THEN y ELSE x) /\ Min({x, y}) = (IF y < x THEN y ELSE x)
  BY <1>1, MinMax
<1>3. Max({p, q}) = (IF p < q THEN q ELSE p) /\ Min({p, q}) = (IF q < p THEN q ELSE p)
  BY <1>1, MinMax
<1>4. Lower(p) = x /\ Lower(q) = y
  BY <1>1, CongruentIsWrap
<1>5. Lower(Max({p, q})) = (IF p < q THEN y ELSE x) /\ Lower(Min({p, q})) = (IF q < p THEN y ELSE x)
  BY <1>3, <1>4
<1>6. Truth(q - p < 0) = (IF p > q THEN Ones ELSE 0)
  BY <1>1 DEF Truth
<1>7. Truth(x = y) = (IF x = y THEN Ones ELSE 0)
  BY <1>1 DEF Truth
<1> QED BY <1>1, <1>2, <1>5, <1>6, <1>7 DEF p, q

LEMMA Opposite ==
  ASSUME NEW x \in Word
  PROVE  /\ Wrap(-Signed(x)) \in Word /\ Wrap(-x) = Wrap(-Signed(x))
         /\ (IF Signed(x) >= 0 THEN Signed(x) ELSE -Signed(x)) \in Word
         /\ Max({Signed(x), -Signed(x)}) = (IF Signed(x) >= 0 THEN Signed(x) ELSE -Signed(x))
<1> DEFINE p == Signed(x)
           m == -x
           r == -p
           h == Half
<1>1. /\ x \in Int /\ p \in Int /\ m \in Int /\ r \in Int /\ h \in Nat /\ h >= 2
      /\ Size = 2 * h /\ Word = 0..Size - 1
      /\ p >= -h /\ p <= h - 1 /\ p = (IF x >= h THEN x - Size ELSE x) /\ x >= 0 /\ x <= Size - 1
  BY WordNumbers, WidthFacts
<1> HIDE DEF p, h
<1>2. (IF p >= 0 THEN p ELSE r) \in Word
  BY <1>1
<1>3. Max({p, r}) = (IF p < r THEN r ELSE p)
  <2> HIDE DEF r
  <2> QED BY <1>1, MinMax
<1>4. Max({p, r}) = (IF p >= 0 THEN p ELSE r)
  BY <1>1, <1>3
<1>5. m \in Int /\ r \in Int /\ (m = r \/ m = r - Size) /\ m <= 0 /\ m > -Size /\ (m # r => m < 0)
  BY <1>1
<1>6. r \in Word \/ r = m
  BY <1>1
<1> HIDE DEF m, r
<1>7. Wrap(m) = Wrap(r)
  <2>1. CASE m = r
    BY <2>1
  <2>2. CASE m # r
    <3>1. -Size <= m /\ m < 0 /\ m + Size = r /\ r \in Word
      BY <1>1, <1>5, <1>6, <2>2
    <3>2. Wrap(m) = m + Size
      BY <1>5, <3>1, WrapFacts
    <3>3. Wrap(r) = r
      BY <1>5, <3>1, WrapFacts
    <3> QED BY <3>1, <3>2, <3>3
  <2> QED BY <2>1, <2>2
<1>8. Wrap(r) \in Word
  BY <1>5, WrapFacts
<1> QED BY <1>2, <1>4, <1>7, <1>8 DEF p, m, r

LEMMA SignedLanes ==
  ASSUME NEW x \in Word, NEW y \in Word
  PROVE  /\ Lower(x * Sign(Signed(y))) =
              (IF Signed(y) < 0 THEN Wrap(-Signed(x)) ELSE IF Signed(y) > 0 THEN x ELSE 0)
         /\ (IF Signed(y) < 0 THEN Wrap(-Signed(x)) ELSE IF Signed(y) > 0 THEN x ELSE 0) \in Word
<1> DEFINE q == Signed(y)
           m == -x
<1>1. x \in Int /\ q \in Int /\ Wrap(x) = x /\ 0 \in Word /\ m \in Int
  BY WordNumbers, WidthFacts
<1>2. Wrap(m) = Wrap(-Signed(x)) /\ Wrap(m) \in Word
  BY Opposite
<1>3. x * Sign(q) = IF q < 0 THEN m ELSE IF q > 0 THEN x ELSE 0
  <2> HIDE DEF q
  <2> QED BY <1>1 DEF Sign
<1> HIDE DEF q, m
<1>4. Lower(m) = Wrap(m) /\ Lower(x) = x /\ Lower(0) = 0
  <2>1. Lower(m) = Wrap(m)
    BY <1>1, CongruentIsWrap
  <2>2. Lower(x) = Wrap(x)
    BY <1>1, CongruentIsWrap
  <2>3. Lower(0) = Wrap(0) /\ Wrap(0) = 0
    BY <1>1, CongruentIsWrap, WordNumbers
  <2> QED BY <1>1, <2>1, <2>2, <2>3
<1>5. Lower(x * Sign(q)) = IF q < 0 THEN Wrap(-Signed(x)) ELSE IF q > 0 THEN x ELSE 0
  BY <1>2, <1>3, <1>4
<1> QED BY <1>1, <1>2, <1>5 DEF q

LEMMA EachSign ==
  ASSUME NEW n, LaneCount(n), NEW d \in Register(n), NEW s \in Register(n)
  PROVE  /\ NativePcmpeq(d, s) = Pcmpeq(d, s) /\ NativePcmpgt(d, s) = Pcmpgt(d, s)
         /\ NativePmaxs(d, s) = Pmaxs(d, s) /\ NativePmins(d, s) = Pmins(d, s)
         /\ NativePmaxu(d, s) = Pmaxu(d, s) /\ NativePminu(d, s) = Pminu(d, s)
         /\ NativePabs(s) = Pabs(s) /\ NativePsign(d, s) = Psign(d, s)
         /\ {Pcmpeq(d, s), Pcmpgt(d, s), Pmaxs(d, s), Pmins(d, s), Pmaxu(d, s),
             Pminu(d, s), Pabs(s), Psign(d, s)} \subseteq Register(n)
<1>1. /\ \A i \in DOMAIN d : d[i] \in Word /\ s[i] \in Word
      /\ DOMAIN d = 0..n - 1 /\ DOMAIN s = 0..n - 1
  BY EachLane
<1>2. NativePcmpeq(d, s) = Pcmpeq(d, s) /\ Pcmpeq(d, s) \in Register(n)
  <2> DEFINE f == [i \in 0..n - 1 |-> Truth(d[i] = s[i])]
             g == [i \in 0..n - 1 |-> IF d[i] = s[i] THEN Ones ELSE 0]
  <2>1. NativePcmpeq(d, s) = f /\ Pcmpeq(d, s) = g
    BY <1>1 DEF NativePcmpeq, Pcmpeq, Across, Each
  <2>2. ASSUME NEW i \in 0..n - 1
        PROVE  Truth(d[i] = s[i]) = (IF d[i] = s[i] THEN Ones ELSE 0)
               /\ (IF d[i] = s[i] THEN Ones ELSE 0) \in Word
    <3>1. d[i] \in Word /\ s[i] \in Word
      BY <1>1
    <3> QED BY <3>1, LaneSigns
  <2>3. f = g /\ g \in Register(n)
    BY <2>2 DEF Register
  <2> QED BY <2>1, <2>3
<1>3. NativePcmpgt(d, s) = Pcmpgt(d, s) /\ Pcmpgt(d, s) \in Register(n)
  <2> DEFINE f == [i \in 0..n - 1 |-> Truth(Signed(s[i]) - Signed(d[i]) < 0)]
             g == [i \in 0..n - 1 |-> IF Signed(d[i]) > Signed(s[i]) THEN Ones ELSE 0]
  <2>1. NativePcmpgt(d, s) = f /\ Pcmpgt(d, s) = g
    BY <1>1 DEF NativePcmpgt, Pcmpgt, Across, Each
  <2>2. ASSUME NEW i \in 0..n - 1
        PROVE  Truth(Signed(s[i]) - Signed(d[i]) < 0) = (IF Signed(d[i]) > Signed(s[i]) THEN Ones ELSE 0)
               /\ (IF Signed(d[i]) > Signed(s[i]) THEN Ones ELSE 0) \in Word
    <3>1. d[i] \in Word /\ s[i] \in Word
      BY <1>1
    <3> QED BY <3>1, LaneSigns
  <2>3. f = g /\ g \in Register(n)
    BY <2>2 DEF Register
  <2> QED BY <2>1, <2>3
<1>4. NativePmaxs(d, s) = Pmaxs(d, s) /\ Pmaxs(d, s) \in Register(n)
  <2> DEFINE f == [i \in 0..n - 1 |-> Lower(Max({Signed(d[i]), Signed(s[i])}))]
             g == [i \in 0..n - 1 |-> IF Signed(d[i]) < Signed(s[i]) THEN s[i] ELSE d[i]]
  <2>1. NativePmaxs(d, s) = f /\ Pmaxs(d, s) = g
    BY <1>1 DEF NativePmaxs, Pmaxs, Across, Each
  <2>2. ASSUME NEW i \in 0..n - 1
        PROVE  Lower(Max({Signed(d[i]), Signed(s[i])})) = (IF Signed(d[i]) < Signed(s[i]) THEN s[i] ELSE d[i])
               /\ (IF Signed(d[i]) < Signed(s[i]) THEN s[i] ELSE d[i]) \in Word
    <3>1. d[i] \in Word /\ s[i] \in Word
      BY <1>1
    <3> QED BY <3>1, LaneSigns
  <2>3. f = g /\ g \in Register(n)
    BY <2>2 DEF Register
  <2> QED BY <2>1, <2>3
<1>5. NativePmins(d, s) = Pmins(d, s) /\ Pmins(d, s) \in Register(n)
  <2> DEFINE f == [i \in 0..n - 1 |-> Lower(Min({Signed(d[i]), Signed(s[i])}))]
             g == [i \in 0..n - 1 |-> IF Signed(s[i]) < Signed(d[i]) THEN s[i] ELSE d[i]]
  <2>1. NativePmins(d, s) = f /\ Pmins(d, s) = g
    BY <1>1 DEF NativePmins, Pmins, Across, Each
  <2>2. ASSUME NEW i \in 0..n - 1
        PROVE  Lower(Min({Signed(d[i]), Signed(s[i])})) = (IF Signed(s[i]) < Signed(d[i]) THEN s[i] ELSE d[i])
               /\ (IF Signed(s[i]) < Signed(d[i]) THEN s[i] ELSE d[i]) \in Word
    <3>1. d[i] \in Word /\ s[i] \in Word
      BY <1>1
    <3> QED BY <3>1, LaneSigns
  <2>3. f = g /\ g \in Register(n)
    BY <2>2 DEF Register
  <2> QED BY <2>1, <2>3
<1>6. NativePmaxu(d, s) = Pmaxu(d, s) /\ Pmaxu(d, s) \in Register(n)
  <2> DEFINE f == [i \in 0..n - 1 |-> Max({d[i], s[i]})]
             g == [i \in 0..n - 1 |-> IF d[i] < s[i] THEN s[i] ELSE d[i]]
  <2>1. NativePmaxu(d, s) = f /\ Pmaxu(d, s) = g
    BY <1>1 DEF NativePmaxu, Pmaxu, Across, Each
  <2>2. ASSUME NEW i \in 0..n - 1
        PROVE  Max({d[i], s[i]}) = (IF d[i] < s[i] THEN s[i] ELSE d[i])
               /\ (IF d[i] < s[i] THEN s[i] ELSE d[i]) \in Word
    <3>1. d[i] \in Word /\ s[i] \in Word
      BY <1>1
    <3> QED BY <3>1, LaneSigns
  <2>3. f = g /\ g \in Register(n)
    BY <2>2 DEF Register
  <2> QED BY <2>1, <2>3
<1>7. NativePminu(d, s) = Pminu(d, s) /\ Pminu(d, s) \in Register(n)
  <2> DEFINE f == [i \in 0..n - 1 |-> Min({d[i], s[i]})]
             g == [i \in 0..n - 1 |-> IF s[i] < d[i] THEN s[i] ELSE d[i]]
  <2>1. NativePminu(d, s) = f /\ Pminu(d, s) = g
    BY <1>1 DEF NativePminu, Pminu, Across, Each
  <2>2. ASSUME NEW i \in 0..n - 1
        PROVE  Min({d[i], s[i]}) = (IF s[i] < d[i] THEN s[i] ELSE d[i])
               /\ (IF s[i] < d[i] THEN s[i] ELSE d[i]) \in Word
    <3>1. d[i] \in Word /\ s[i] \in Word
      BY <1>1
    <3> QED BY <3>1, LaneSigns
  <2>3. f = g /\ g \in Register(n)
    BY <2>2 DEF Register
  <2> QED BY <2>1, <2>3
<1>8. NativePsign(d, s) = Psign(d, s) /\ Psign(d, s) \in Register(n)
  BY <1>1, SignedLanes DEF NativePsign, Psign, Across, Each, Register
<1>9. NativePabs(s) = Pabs(s) /\ Pabs(s) \in Register(n)
  <2> DEFINE size(x) == IF Signed(x) >= 0 THEN Signed(x) ELSE -Signed(x)
  <2>1. ASSUME NEW i \in 0..n - 1
        PROVE  /\ Max({Signed(s[i]), -Signed(s[i])}) = Wrap(size(s[i]))
               /\ Wrap(size(s[i])) \in Word
    <3> DEFINE v == size(s[i])
    <3>1. s[i] \in Word
      BY <1>1
    <3>2. Max({Signed(s[i]), -Signed(s[i])}) = v /\ v \in Word
      BY <3>1, Opposite
    <3> HIDE DEF v
    <3>3. Wrap(v) = v
      BY <3>2, WordNumbers
    <3> QED BY <3>2, <3>3 DEF v
  <2> HIDE DEF size
  <2>2. Pabs(s) = [i \in 0..n - 1 |-> Wrap(size(s[i]))]
    BY <1>1 DEF Pabs, size
  <2>3. NativePabs(s) = [i \in 0..n - 1 |-> Max({Signed(s[i]), -Signed(s[i])})]
    BY <1>1 DEF NativePabs
  <2> QED BY <2>1, <2>2, <2>3 DEF Register
<1> QED BY <1>2, <1>3, <1>4, <1>5, <1>6, <1>7, <1>8, <1>9

(* A word has no bit of another when their conjunction is zero.            *)
LEMMA Disjoint ==
  ASSUME NEW x \in Word, NEW y \in Word
  PROVE  And(x, y) = 0 <=> \A p \in Places : ~(Bit(x, p) = 1 /\ Bit(y, p) = 1)
<1> DEFINE z == And(x, y)
<1>1. /\ z \in Word
      /\ \A p \in Places : Bit(z, p) = IF Bit(x, p) = 1 /\ Bit(y, p) = 1 THEN 1 ELSE 0
  BY LogicBits
<1> HIDE DEF z
<1>2. ASSUME z = 0 PROVE \A p \in Places : Bit(z, p) = 0
  <2>1. \A p \in Places : p \in Nat
    BY WidthFacts DEF Places
  <2> QED BY <1>2, <2>1, ZeroBits
<1>3. ASSUME z # 0 PROVE \E p \in Places : Bit(z, p) = 1
  BY <1>1, <1>3, SomeBit DEF Bits
<1>4. z = 0 <=> \A p \in Places : ~(Bit(x, p) = 1 /\ Bit(y, p) = 1)
  BY <1>1, <1>2, <1>3
<1> QED BY <1>4 DEF z

LEMMA Tests ==
  ASSUME NEW n, LaneCount(n), NEW d \in Register(n), NEW s \in Register(n)
  PROVE  NativePtest(d, s) = Ptest(d, s)
<1> DEFINE ones(v) == {p \in (DOMAIN v) \X Places : Bit(v[p[1]], p[2]) = 1}
           A == \A i \in DOMAIN d : And(d[i], s[i]) = 0
           B == \A i \in DOMAIN d : And(Not(d[i]), s[i]) = 0
<1>1. /\ \A i \in DOMAIN d : d[i] \in Word /\ s[i] \in Word
      /\ DOMAIN d = 0..n - 1 /\ DOMAIN s = 0..n - 1
  BY EachLane
<1>2. \A v, i, p : DOMAIN v = 0..n - 1 /\ i \in 0..n - 1 /\ p \in Places =>
        (<<i, p>> \in ones(v) <=> Bit(v[i], p) = 1)
  OBVIOUS
<1>3. \A v, o : DOMAIN v = 0..n - 1 /\ o \in ones(v) =>
        \E i \in 0..n - 1, p \in Places : o = <<i, p>>
  OBVIOUS
<1> HIDE DEF ones
<1>4. ones(d) \cap ones(s) = {} <=>
        \A i \in 0..n - 1 : \A p \in Places : ~(Bit(d[i], p) = 1 /\ Bit(s[i], p) = 1)
  <2>1. ASSUME NEW o \in ones(d) \cap ones(s)
        PROVE  \E i \in 0..n - 1, p \in Places : Bit(d[i], p) = 1 /\ Bit(s[i], p) = 1
    <3>1. PICK i \in 0..n - 1, p \in Places : o = <<i, p>>
      BY <1>1, <1>3
    <3>2. <<i, p>> \in ones(d) /\ <<i, p>> \in ones(s)
      BY <3>1
    <3>3. Bit(d[i], p) = 1 /\ Bit(s[i], p) = 1
      BY <1>1, <1>2, <3>2
    <3> QED BY <3>3
  <2>2. ASSUME NEW i \in 0..n - 1, NEW p \in Places, Bit(d[i], p) = 1 /\ Bit(s[i], p) = 1
        PROVE  <<i, p>> \in ones(d) \cap ones(s)
    BY <1>1, <1>2, <2>2
  <2> QED BY <2>1, <2>2
<1>5. ones(s) \subseteq ones(d) <=>
        \A i \in 0..n - 1 : \A p \in Places : ~(Bit(d[i], p) # 1 /\ Bit(s[i], p) = 1)
  <2>1. ASSUME NEW o \in ones(s), o \notin ones(d)
        PROVE  \E i \in 0..n - 1, p \in Places : Bit(d[i], p) # 1 /\ Bit(s[i], p) = 1
    <3>1. PICK i \in 0..n - 1, p \in Places : o = <<i, p>>
      BY <1>1, <1>3
    <3>2. <<i, p>> \notin ones(d) /\ <<i, p>> \in ones(s)
      BY <2>1, <3>1
    <3>3. Bit(d[i], p) # 1 /\ Bit(s[i], p) = 1
      BY <1>1, <1>2, <3>2
    <3> QED BY <3>3
  <2>2. ASSUME NEW i \in 0..n - 1, NEW p \in Places, Bit(d[i], p) # 1 /\ Bit(s[i], p) = 1
        PROVE  <<i, p>> \in ones(s) /\ <<i, p>> \notin ones(d)
    BY <1>1, <1>2, <2>2
  <2> QED BY <2>1, <2>2
<1>6. A <=> ones(d) \cap ones(s) = {}
  <2>1. \A i \in 0..n - 1 : And(d[i], s[i]) = 0 <=>
          \A p \in Places : ~(Bit(d[i], p) = 1 /\ Bit(s[i], p) = 1)
    BY <1>1, Disjoint
  <2> QED BY <1>1, <1>4, <2>1
<1>7. B <=> ones(s) \subseteq ones(d)
  <2>1. \A i \in 0..n - 1 : Not(d[i]) \in Word /\
          \A p \in Places : (Bit(Not(d[i]), p) = 1 <=> Bit(d[i], p) # 1)
    <3> SUFFICES ASSUME NEW i \in 0..n - 1
                 PROVE  /\ Not(d[i]) \in Word
                        /\ \A p \in Places : (Bit(Not(d[i]), p) = 1 <=> Bit(d[i], p) # 1)
      OBVIOUS
    <3>1. d[i] \in Word
      BY <1>1
    <3>2. Not(d[i]) \in Word /\ \A p \in Places : Bit(Not(d[i]), p) = 1 - Bit(d[i], p)
      BY <3>1, NotBits
    <3>3. \A p \in Places : Bit(d[i], p) \in {0, 1}
      BY <3>1, WordBits
    <3>4. 1 - 0 = 1 /\ 1 - 1 = 0
      OBVIOUS
    <3> QED BY <3>2, <3>3, <3>4
  <2>2. \A i \in 0..n - 1 : And(Not(d[i]), s[i]) = 0 <=>
          \A p \in Places : ~(Bit(Not(d[i]), p) = 1 /\ Bit(s[i], p) = 1)
    BY <1>1, <2>1, Disjoint
  <2>3. \A i \in 0..n - 1 : And(Not(d[i]), s[i]) = 0 <=>
          \A p \in Places : ~(Bit(d[i], p) # 1 /\ Bit(s[i], p) = 1)
    BY <2>1, <2>2
  <2> QED BY <1>1, <1>5, <2>3
<1>8. Ptest(d, s) = <<A, B>>
  BY DEF Ptest
<1>9. NativePtest(d, s) = <<ones(d) \cap ones(s) = {}, ones(s) \subseteq ones(d)>>
  BY DEF NativePtest, ones
<1>10. A \in BOOLEAN /\ B \in BOOLEAN
  OBVIOUS
<1> HIDE DEF A, B
<1>11. (ones(d) \cap ones(s) = {}) = A /\ (ones(s) \subseteq ones(d)) = B
  BY <1>6, <1>7, <1>10
<1> QED BY <1>8, <1>9, <1>11

LEMMA SignsOfRegisters ==
  ASSUME NEW n, LaneCount(n), vdst \in Register(n), vsrc \in Register(n)
  PROVE  PackedSignsAgree
<1> DEFINE d == vdst
           s == vsrc
<1>1. d \in Register(n) /\ s \in Register(n)
  OBVIOUS
<1>2. PackedSignsAgree <=>
        /\ NativePcmpeq(d, s) = Pcmpeq(d, s) /\ NativePcmpgt(d, s) = Pcmpgt(d, s)
        /\ NativePmaxs(d, s) = Pmaxs(d, s) /\ NativePmins(d, s) = Pmins(d, s)
        /\ NativePmaxu(d, s) = Pmaxu(d, s) /\ NativePminu(d, s) = Pminu(d, s)
        /\ NativePabs(s) = Pabs(s) /\ NativePsign(d, s) = Psign(d, s)
        /\ NativeMovmsk(s) = Movmsk(s) /\ NativePtest(d, s) = Ptest(d, s)
  BY DEF PackedSignsAgree
<1> HIDE DEF d, s
<1> QED BY <1>1, <1>2, EachSign, SignMasks, Tests

-----------------------------------------------------------------------------
(* Packed products.                                                        *)

LEMMA UpperIs ==
  ASSUME NEW n \in Int
  PROVE  Upper(n) = Wrap(n \div Size) /\ Upper(n) \in Word
<1> DEFINE u == n \div Size
           l == Wrap(n)
           m == n - l
<1>1. u \in Int /\ l \in Word /\ n = u * Size + l /\ Size \in Nat
  BY TwoWords, WidthFacts
<1>2. Lower(n) = l
  BY CongruentIsWrap
<1> HIDE DEF u, l
<1> DEFINE o == 0
<1>3. m = u * Size + o /\ o \in Word
  <2>1. u * Size \in Int /\ l \in Int
    BY <1>1, WidthFacts
  <2> QED BY <1>1, <2>1, WidthFacts
<1> HIDE DEF m, o
<1>4. m \div Size = u
  BY <1>1, <1>3, WordsOf
<1>5. Congruent(u, Size) = Wrap(u) /\ Wrap(u) \in Word
  BY <1>1, CongruentIsWrap
<1> QED BY <1>2, <1>4, <1>5 DEF Upper, u, m

(* Whole words do not change the word of a number.                         *)
LEMMA WholeWords ==
  ASSUME NEW n \in Int, NEW k \in Int, NEW m, m = n + k * Size
  PROVE  Wrap(m) = Wrap(n)
<1> DEFINE u == n \div Size
           l == Wrap(n)
           v == u + k
<1>1. u \in Int /\ l \in Word /\ n = u * Size + l /\ Size \in Nat
  BY TwoWords, WidthFacts
<1> HIDE DEF u, l
<1>2. v \in Int /\ v * Size = u * Size + k * Size /\ u * Size \in Int /\ k * Size \in Int /\ l \in Int
  BY <1>1, WidthFacts
<1>3. m = v * Size + l
  BY <1>1, <1>2
<1> HIDE DEF v
<1>4. Wrap(m) = l
  BY <1>1, <1>2, <1>3, WordsOf
<1> QED BY <1>4 DEF l

(* The lower word of a product is that of the signed product.              *)
LEMMA LowerProduct ==
  ASSUME NEW x \in Word, NEW y \in Word
  PROVE  /\ Lower(x * y) = Wrap(Signed(x) * Signed(y))
         /\ Wrap(Signed(x) * Signed(y)) \in Word /\ Signed(x) * Signed(y) \in Int
<1> DEFINE p == Signed(x)
           q == Signed(y)
           m == x * y
           n == p * q
           z == Size
<1>1. /\ x \in Int /\ p \in Int /\ z \in Int /\ (p = x \/ p = x - z)
      /\ y \in Int /\ q \in Int /\ (q = y \/ q = y - z)
  BY WordNumbers, WidthFacts
<1>2. m \in Int /\ n \in Int
  <2> HIDE DEF p, q
  <2> QED BY <1>1
<1>3. \E k \in Int : m = n + k * z
  <2> HIDE DEF p, q, z
  <2>1. CASE p = x /\ q = y
    <3>1. m = n + 0 * z
      BY <1>1, <1>2, <2>1
    <3> QED BY <3>1
  <2>2. CASE p = x /\ q = y - z
    <3>1. n = x * y - x * z /\ x * z \in Int
      BY <1>1, <2>2
    <3>2. m = n + x * z
      BY <1>2, <3>1
    <3> QED BY <1>1, <3>2
  <2>3. CASE p = x - z /\ q = y
    <3>1. n = x * y - y * z /\ y * z \in Int
      BY <1>1, <2>3
    <3>2. m = n + y * z
      BY <1>2, <3>1
    <3> QED BY <1>1, <3>2
  <2>4. CASE p = x - z /\ q = y - z
    <3> DEFINE k == x + y - z
    <3>1. n = ((x * y - x * z) - y * z) + z * z
      BY <1>1, <2>4
    <3>2. k * z = (x * z + y * z) - z * z /\ k \in Int
      BY <1>1
    <3>3. x * z \in Int /\ y * z \in Int /\ z * z \in Int /\ k * z \in Int
      BY <1>1
    <3> HIDE DEF k
    <3>4. m = n + k * z
      BY <1>2, <3>1, <3>2, <3>3
    <3> QED BY <3>2, <3>4
  <2> QED BY <1>1, <2>1, <2>2, <2>3, <2>4
<1> HIDE DEF m, n, p, q
<1>4. Wrap(m) = Wrap(n)
  BY <1>2, <1>3, WholeWords
<1>5. Lower(m) = Wrap(m)
  BY <1>2, CongruentIsWrap
<1>6. Wrap(n) \in Word
  BY <1>2, WrapFacts
<1> QED BY <1>2, <1>4, <1>5, <1>6 DEF m, n, p, q

(* The signed product is at most the square of half the words.             *)
LEMMA SignedProduct ==
  ASSUME NEW x \in Word, NEW y \in Word
  PROVE  /\ Signed(x) * Signed(y) \in Int
         /\ Signed(x) * Signed(y) <= Half * Half /\ Signed(x) * Signed(y) >= -(Half * Half)
<1> DEFINE p == Signed(x)
           q == Signed(y)
           h == Half
           a == IF p < 0 THEN -p ELSE p
           b == IF q < 0 THEN -q ELSE q
<1>1. /\ p \in Int /\ q \in Int /\ h \in Nat /\ p >= -h /\ p <= h /\ q >= -h /\ q <= h
  BY WordNumbers, WidthFacts
<1> HIDE DEF p, q, h
<1>2. a \in 0..h /\ b \in 0..h /\ (p = a \/ p = -a) /\ (q = b \/ q = -b)
  BY <1>1
<1> HIDE DEF a, b
<1>3. a * b \in Nat /\ h * h \in Nat /\ a * b <= h * h
  BY <1>1, <1>2, BoundedProduct
<1>4. p * q = a * b \/ p * q = -(a * b)
  <2>1. a \in Int /\ b \in Int
    BY <1>1, <1>2
  <2>2. a * (-b) = -(a * b) /\ (-a) * b = -(a * b) /\ (-a) * (-b) = a * b
    BY <2>1
  <2> QED BY <1>2, <2>2
<1>5. p * q \in Int /\ p * q <= h * h /\ p * q >= -(h * h)
  BY <1>1, <1>3, <1>4
<1> QED BY <1>5 DEF p, q, h

(* A product rounded to a fraction: twice the quotient by half of Half is  *)
(* between the two halves that it is rounded from.                         *)
LEMMA Rounded ==
  ASSUME NEW n \in Int, n <= Half * Half, n >= -(Half * Half)
  PROVE  (CHOOSE m \in -Half..Half :
            Half * (2 * m - 1) <= 2 * n /\ 2 * n < Half * (2 * m + 1)) =
           (n \div (Half \div 2) + 1) \div 2
         /\ (n \div (Half \div 2) + 1) \div 2 \in Int
<1> DEFINE h == Half
           k == h \div 2
           q == n \div k
           r == (q + 1) \div 2
<1>1. h \in Nat /\ k \in Nat \ {0} /\ h = 2 * k
  <2>1. Width \in Nat /\ Width >= 2 /\ 2 * Half = 2^Width /\ Half \in Nat
    BY WidthFacts, WidthAssumption
  <2> DEFINE w == Width - 2
  <2>2. w \in Nat /\ (w + 1) + 1 = Width
    BY <2>1
  <2> HIDE DEF w
  <2>3. 2^(w + 1) = 2 * 2^w /\ 2^((w + 1) + 1) = 2 * 2^(w + 1) /\ 2^w \in Nat \ {0} /\ w + 1 \in Nat
    BY <2>2, TwoPower
  <2>4. Half = 2 * 2^w
    BY <2>1, <2>2, <2>3
  <2> QED BY <2>1, <2>3, <2>4
<1> HIDE DEF h, k
<1>2. q \in Int /\ k * q <= n /\ n < k * q + k
  BY <1>1
<1> HIDE DEF q
<1>3. r \in Int /\ 2 * r <= q + 1 /\ q + 1 < 2 * r + 2
  BY <1>2
<1> HIDE DEF r
<1>4. ASSUME NEW m \in Int
      PROVE  (h * (2 * m - 1) <= 2 * n /\ 2 * n < h * (2 * m + 1)) <=> m = r
  <2> DEFINE a == 2 * m - 1
             b == 2 * m + 1
  <2>1. a \in Int /\ b \in Int
    OBVIOUS
  <2>2. h * a <= 2 * n <=> a <= q
    <3> HIDE DEF a
    <3>1. h * a = 2 * (k * a) /\ k * a \in Int /\ k * q \in Int
      BY <1>1, <1>2, <2>1
    <3>2. a <= q => k * a <= k * q
      BY <1>1, <1>2, <2>1
    <3>3. a > q => k * a >= k * q + k
      <4>1. a > q => a >= q + 1 /\ k * a >= k * (q + 1) /\ k * (q + 1) = k * q + k
        BY <1>1, <1>2, <2>1
      <4> QED BY <4>1
    <3> QED BY <1>1, <1>2, <2>1, <3>1, <3>2, <3>3
  <2>3. 2 * n < h * b <=> q < b
    <3> HIDE DEF b
    <3>1. h * b = 2 * (k * b) /\ k * b \in Int /\ k * q \in Int
      BY <1>1, <1>2, <2>1
    <3>2. b <= q => k * b <= k * q
      BY <1>1, <1>2, <2>1
    <3>3. b > q => k * b >= k * q + k
      <4>1. b > q => b >= q + 1 /\ k * b >= k * (q + 1) /\ k * (q + 1) = k * q + k
        BY <1>1, <1>2, <2>1
      <4> QED BY <4>1
    <3> QED BY <1>1, <1>2, <2>1, <3>1, <3>2, <3>3
  <2>4. (a <= q /\ q < b) <=> m = r
    BY <1>2, <1>3
  <2> HIDE DEF a, b
  <2>5. (h * a <= 2 * n /\ 2 * n < h * b) <=> m = r
    BY <2>2, <2>3, <2>4
  <2> QED BY <2>5 DEF a, b
<1>5. q <= 2 * h /\ q >= -(2 * h)
  <2> DEFINE f == 4 * k
  <2>1. f \in Int /\ k * f \in Int /\ h * h = k * f /\ f = 2 * h /\ k * q \in Int
    BY <1>1, <1>2
  <2>2. k * f >= n /\ n >= -(k * f)
    BY <2>1 DEF h
  <2> HIDE DEF f
  <2>3. q > f => k * q >= k * f + k
    <3>1. q > f => q >= f + 1 /\ k * q >= k * (f + 1) /\ k * (f + 1) = k * f + k
      BY <1>1, <1>2, <2>1
    <3> QED BY <3>1
  <2>4. q < -f => k * q + k <= -(k * f)
    <3>1. q < -f => q <= -f - 1 /\ k * q <= k * (-f - 1) /\ k * (-f - 1) = -(k * f) - k
      BY <1>1, <1>2, <2>1
    <3> QED BY <1>1, <2>1, <3>1
  <2> QED BY <1>1, <1>2, <2>1, <2>2, <2>3, <2>4
<1>6. r \in -h..h
  BY <1>1, <1>2, <1>3, <1>5
<1>7. (CHOOSE m \in -h..h : h * (2 * m - 1) <= 2 * n /\ 2 * n < h * (2 * m + 1)) = r
  <2>1. \A m \in -h..h : m \in Int
    BY <1>1
  <2>2. \A m \in -h..h : (h * (2 * m - 1) <= 2 * n /\ 2 * n < h * (2 * m + 1)) <=> m = r
    BY <1>4, <2>1
  <2>3. (CHOOSE m \in -h..h : h * (2 * m - 1) <= 2 * n /\ 2 * n < h * (2 * m + 1)) =
        (CHOOSE m \in -h..h : m = r)
    BY <2>2
  <2>4. (CHOOSE m \in -h..h : m = r) = r
    BY <1>6
  <2> QED BY <2>3, <2>4
<1> QED BY <1>3, <1>7 DEF h, k, q, r

LEMMA EachProduct ==
  ASSUME NEW n, LaneCount(n), NEW d \in Register(n), NEW s \in Register(n)
  PROVE  /\ NativePmulhuw(d, s) = Pmulhuw(d, s) /\ NativePmulhw(d, s) = Pmulhw(d, s)
         /\ NativePmull(d, s) = Pmullw(d, s) /\ NativePmulhrsw(d, s) = Pmulhrsw(d, s)
         /\ {Pmulhuw(d, s), Pmulhw(d, s), Pmullw(d, s), Pmulhrsw(d, s)} \subseteq Register(n)
<1>1. /\ \A i \in DOMAIN d : d[i] \in Word /\ s[i] \in Word
      /\ DOMAIN d = 0..n - 1
  BY EachLane
<1>2. NativePmulhuw(d, s) = Pmulhuw(d, s) /\ Pmulhuw(d, s) \in Register(n)
  <2> DEFINE f == [i \in 0..n - 1 |-> Upper(d[i] * s[i])]
             g == [i \in 0..n - 1 |-> (d[i] * s[i]) \div Size]
  <2>1. NativePmulhuw(d, s) = f /\ Pmulhuw(d, s) = g
    BY <1>1 DEF NativePmulhuw, Pmulhuw, Across, Each
  <2>2. ASSUME NEW i \in 0..n - 1
        PROVE  Upper(d[i] * s[i]) = (d[i] * s[i]) \div Size /\ (d[i] * s[i]) \div Size \in Word
    <3> DEFINE m == d[i] * s[i]
    <3>1. d[i] \in Word /\ s[i] \in Word
      BY <1>1
    <3>2. m \in Nat /\ m \div Size \in Word /\ Wrap(m \div Size) = m \div Size
      BY <3>1, UnsignedProduct
    <3> HIDE DEF m
    <3>3. Upper(m) = Wrap(m \div Size)
      BY <3>2, UpperIs
    <3> QED BY <3>2, <3>3 DEF m
  <2>3. f = g /\ g \in Register(n)
    BY <2>2 DEF Register
  <2> QED BY <2>1, <2>3
<1>3. NativePmulhw(d, s) = Pmulhw(d, s) /\ Pmulhw(d, s) \in Register(n)
  <2> DEFINE f == [i \in 0..n - 1 |-> Upper(Signed(d[i]) * Signed(s[i]))]
             g == [i \in 0..n - 1 |-> Wrap((Signed(d[i]) * Signed(s[i])) \div Size)]
  <2>1. NativePmulhw(d, s) = f /\ Pmulhw(d, s) = g
    BY <1>1 DEF NativePmulhw, Pmulhw, Across, Each
  <2>2. ASSUME NEW i \in 0..n - 1
        PROVE  /\ Upper(Signed(d[i]) * Signed(s[i])) = Wrap((Signed(d[i]) * Signed(s[i])) \div Size)
               /\ Wrap((Signed(d[i]) * Signed(s[i])) \div Size) \in Word
    <3> DEFINE m == Signed(d[i]) * Signed(s[i])
    <3>1. d[i] \in Word /\ s[i] \in Word
      BY <1>1
    <3>2. m \in Int
      BY <3>1, SignedProduct
    <3> HIDE DEF m
    <3>3. Upper(m) = Wrap(m \div Size) /\ Upper(m) \in Word
      BY <3>2, UpperIs
    <3> QED BY <3>3 DEF m
  <2>3. f = g /\ g \in Register(n)
    BY <2>2 DEF Register
  <2> QED BY <2>1, <2>3
<1>4. NativePmull(d, s) = Pmullw(d, s) /\ Pmullw(d, s) \in Register(n)
  <2> DEFINE f == [i \in 0..n - 1 |-> Lower(d[i] * s[i])]
             g == [i \in 0..n - 1 |-> Wrap(Signed(d[i]) * Signed(s[i]))]
  <2>1. NativePmull(d, s) = f /\ Pmullw(d, s) = g
    BY <1>1 DEF NativePmull, Pmullw, Across, Each
  <2>2. ASSUME NEW i \in 0..n - 1
        PROVE  /\ Lower(d[i] * s[i]) = Wrap(Signed(d[i]) * Signed(s[i]))
               /\ Wrap(Signed(d[i]) * Signed(s[i])) \in Word
    <3>1. d[i] \in Word /\ s[i] \in Word
      BY <1>1
    <3> QED BY <3>1, LowerProduct
  <2>3. f = g /\ g \in Register(n)
    BY <2>2 DEF Register
  <2> QED BY <2>1, <2>3
<1>5. NativePmulhrsw(d, s) = Pmulhrsw(d, s) /\ Pmulhrsw(d, s) \in Register(n)
  <2> DEFINE chosen(i) ==
               CHOOSE m \in -Half..Half :
                 /\ Half * (2 * m - 1) <= 2 * Signed(d[i]) * Signed(s[i])
                 /\ 2 * Signed(d[i]) * Signed(s[i]) < Half * (2 * m + 1)
             rounded(i) == ((Signed(d[i]) * Signed(s[i])) \div (Half \div 2) + 1) \div 2
             f == [i \in 0..n - 1 |-> Congruent(chosen(i), Size)]
             g == [i \in 0..n - 1 |-> Wrap(rounded(i))]
  <2>1. NativePmulhrsw(d, s) = f
    BY <1>1 DEF NativePmulhrsw, Across
  <2>2. Pmulhrsw(d, s) = g
    BY <1>1 DEF Pmulhrsw, Each
  <2>3. ASSUME NEW i \in 0..n - 1
        PROVE  Congruent(chosen(i), Size) = Wrap(rounded(i)) /\ Wrap(rounded(i)) \in Word
    <3> DEFINE m == Signed(d[i]) * Signed(s[i])
               c == CHOOSE k \in -Half..Half : Half * (2 * k - 1) <= 2 * m /\ 2 * m < Half * (2 * k + 1)
               r == (m \div (Half \div 2) + 1) \div 2
    <3>1. d[i] \in Word /\ s[i] \in Word
      BY <1>1
    <3>2. m \in Int /\ m <= Half * Half /\ m >= -(Half * Half)
      BY <3>1, SignedProduct
    <3>3. 2 * Signed(d[i]) * Signed(s[i]) = 2 * m
      <4> DEFINE a == Signed(d[i])
                 b == Signed(s[i])
      <4>1. a \in Int /\ b \in Int
        BY <3>1, WordNumbers
      <4> HIDE DEF a, b
      <4>2. 2 * a * b = 2 * (a * b)
        BY <4>1
      <4> QED BY <4>2 DEF a, b
    <3>4. chosen(i) = c
      BY <3>3
    <3>5. rounded(i) = r
      OBVIOUS
    <3> HIDE DEF m, chosen, rounded
    <3>6. c = r /\ r \in Int
      BY <3>2, Rounded
    <3> HIDE DEF c, r
    <3>7. Congruent(r, Size) = Wrap(r) /\ Wrap(r) \in Word
      BY <3>6, CongruentIsWrap
    <3> QED BY <3>4, <3>5, <3>6, <3>7
  <2> HIDE DEF chosen, rounded
  <2>4. f = g /\ g \in Register(n)
    BY <2>3 DEF Register
  <2> QED BY <2>1, <2>2, <2>4
<1> QED BY <1>2, <1>3, <1>4, <1>5

(* The two words of a double word.                                         *)
DoubleWord == 0..DoubleSize - 1

LEMMA DoubleFacts ==
  ASSUME NEW v \in DoubleWord
  PROVE  /\ v \in Int /\ v \div Size \in Word /\ v % Size \in Word
         /\ (CHOOSE x \in Word : \E y \in Word : v = x + Size * y) = v % Size
         /\ (CHOOSE x \in Word : \E y \in Word : v = y + Size * x) = v \div Size
         /\ v = (v % Size) + Size * (v \div Size)
<1> DEFINE z == Size
           q == v \div z
           r == v % z
<1>1. z \in Nat \ {0} /\ v \in Int /\ 0 <= v /\ v < z * z /\ Word = 0..z - 1
  <2>1. z \in Nat \ {0} /\ z * z \in Int /\ Word = 0..z - 1 /\ v \in 0..z * z - 1
    BY WidthFacts DEF DoubleWord, DoubleSize
  <2> QED BY <2>1
<1> HIDE DEF z
<1>2. q \in Int /\ r \in 0..z - 1 /\ v = z * q + r
  BY <1>1
<1> HIDE DEF q, r
<1>3. q \in 0..z - 1
  <2>1. q < 0 => z * q <= -z
    BY <1>1, <1>2
  <2>2. q >= z => z * q >= z * z
    BY <1>1, <1>2
  <2>3. z * q \in Int /\ z * z \in Int /\ r \in Int /\ 0 <= r /\ r < z
    BY <1>1, <1>2
  <2> QED BY <1>1, <1>2, <2>1, <2>2, <2>3
<1>4. ASSUME NEW x \in Word, NEW y \in Word, v = x + z * y
      PROVE  x = r /\ y = q
  <2>1. z * y = y * z /\ y * z \in Int /\ x \in Int /\ y \in Int /\ x \in 0..z - 1
    BY <1>1, <1>4
  <2>2. v = y * z + x
    BY <1>4, <2>1
  <2>3. v \div z = y /\ v % z = x
    BY <1>1, <2>1, <2>2, Parts
  <2> QED BY <2>3 DEF q, r
<1>5. r \in Word /\ q \in Word /\ v = r + z * q
  <2>1. z * q \in Int /\ r \in Int
    BY <1>1, <1>2
  <2> QED BY <1>1, <1>2, <1>3, <2>1
<1>6. (CHOOSE x \in Word : \E y \in Word : v = x + z * y) = r
  BY <1>4, <1>5
<1>7. (CHOOSE x \in Word : \E y \in Word : v = y + z * x) = q
  BY <1>4, <1>5
<1> QED BY <1>1, <1>5, <1>6, <1>7 DEF z, q, r

LEMMA SplitIsSingles ==
  ASSUME NEW h \in Nat \ {0}, NEW w \in [0..h - 1 -> DoubleWord]
  PROVE  Split(w) = Singles(w) /\ Singles(w) \in Register(2 * h)
<1> DEFINE value(i) == IF i % 2 = 0 THEN w[i \div 2] % Size ELSE w[i \div 2] \div Size
           lane(i) == CHOOSE x \in Word : \E y \in Word :
                        w[i \div 2] = IF i % 2 = 0 THEN x + Size * y ELSE y + Size * x
<1>1. Cardinality(0..h - 1) = h
  <2>1. 0 \in Int /\ h - 1 \in Int /\ ~(0 > h - 1) /\ (h - 1) - 0 + 1 = h
    OBVIOUS
  <2> QED BY <2>1, FS_Interval
<1>2. DOMAIN w = 0..h - 1 /\ Lanes(w) = h /\ Count(w) = h
  BY <1>1 DEF Lanes, Count
<1>3. ASSUME NEW i \in 0..2 * h - 1 PROVE lane(i) = value(i) /\ value(i) \in Word
  <2>1. i \div 2 \in 0..h - 1
    OBVIOUS
  <2> DEFINE v == w[i \div 2]
  <2>2. v \in DoubleWord
    BY <2>1
  <2> HIDE DEF v
  <2>3. /\ v \div Size \in Word /\ v % Size \in Word
        /\ (CHOOSE x \in Word : \E y \in Word : v = x + Size * y) = v % Size
        /\ (CHOOSE x \in Word : \E y \in Word : v = y + Size * x) = v \div Size
    BY <2>2, DoubleFacts
  <2>4. CASE i % 2 = 0
    BY <2>3, <2>4 DEF v
  <2>5. CASE i % 2 # 0
    BY <2>3, <2>5 DEF v
  <2> QED BY <2>4, <2>5
<1>4. Split(w) = [i \in 0..2 * h - 1 |-> lane(i)]
  BY <1>2 DEF Split
<1>5. Singles(w) = [i \in 0..2 * h - 1 |-> value(i)]
  BY <1>2 DEF Singles
<1> HIDE DEF lane, value
<1> QED BY <1>3, <1>4, <1>5 DEF Register

(* The double words of an instruction that makes them of pairs of lanes.   *)
LEMMA EveryDouble ==
  ASSUME NEW n, LaneCount(n), NEW f, \A i \in 0..n \div 2 - 1 : f[i] \in Int
  PROVE  /\ Split([i \in 0..n \div 2 - 1 |-> Congruent(f[i], Size * Size)]) =
              Singles([i \in 0..n \div 2 - 1 |-> f[i] % DoubleSize])
         /\ Singles([i \in 0..n \div 2 - 1 |-> f[i] % DoubleSize]) \in Register(n)
<1> DEFINE h == n \div 2
           w == [i \in 0..h - 1 |-> f[i] % DoubleSize]
<1>1. h \in Nat \ {0} /\ n = 2 * h
  BY HalfFacts
<1>2. Size * Size = DoubleSize /\ DoubleSize \in Nat \ {0}
  <2>1. Size * Size \in Nat \ {0}
    BY WidthFacts
  <2> QED BY <2>1 DEF DoubleSize
<1> HIDE DEF h
<1>3. ASSUME NEW i \in 0..h - 1
      PROVE  Congruent(f[i], Size * Size) = f[i] % DoubleSize /\ f[i] % DoubleSize \in DoubleWord
  <2>1. f[i] \in Int
    BY DEF h
  <2>2. Congruent(f[i], DoubleSize) = f[i] % DoubleSize /\ f[i] % DoubleSize \in 0..DoubleSize - 1
    BY <1>2, <2>1, CongruentFacts
  <2> QED BY <1>2, <2>2 DEF DoubleWord
<1>4. [i \in 0..h - 1 |-> Congruent(f[i], Size * Size)] = w
  BY <1>3
<1>5. w \in [0..h - 1 -> DoubleWord]
  BY <1>3
<1> HIDE DEF w
<1>6. Split(w) = Singles(w) /\ Singles(w) \in Register(2 * h)
  BY <1>1, <1>5, SplitIsSingles
<1> QED BY <1>1, <1>4, <1>6 DEF w, h

(* The pairs of lanes that a double word is made of.                       *)
LEMMA Pairs ==
  ASSUME NEW n, LaneCount(n), NEW d \in Register(n), NEW i \in 0..n \div 2 - 1
  PROVE  /\ 2 * i \in 0..n - 1 /\ 2 * i + 1 \in 0..n - 1 /\ i \in 0..n - 1
         /\ d[2 * i] \in Word /\ d[2 * i + 1] \in Word /\ d[i] \in Word
<1>1. n \in Nat /\ n \div 2 \in Nat /\ n = 2 * (n \div 2)
  BY HalfFacts DEF LaneCount
<1>2. 2 * i \in 0..n - 1 /\ 2 * i + 1 \in 0..n - 1 /\ i \in 0..n - 1
  BY <1>1
<1>3. \A k \in 0..n - 1 : d[k] \in Word
  BY EachLane
<1> QED BY <1>2, <1>3

LEMMA SaturatedSums ==
  ASSUME NEW a \in Int, NEW b \in Int
  PROVE  /\ Nearest(a + b, -Half * Size..Half * Size - 1) = SignSaturatedAdd(a, b)
         /\ SignSaturatedAdd(a, b) \in Int
<1> DEFINE l == Half * Size
           m == l - 1
           o == -l
           e == a + b
<1>1. l \in Nat \ {0} /\ -Half * Size = o
  BY WidthFacts
<1> HIDE DEF l
<1>2. m \in Int /\ o \in Int /\ o <= m /\ e \in Int
  <2>1. l \in Int /\ l >= 1
    BY <1>1
  <2> QED BY <2>1
<1>3. SignSaturatedAdd(a, b) = IF e > m THEN m ELSE IF e < o THEN o ELSE e
  BY DEF SignSaturatedAdd, l
<1> HIDE DEF m, o, e
<1>4. Nearest(e, o..m) = (IF e > m THEN m ELSE IF e < o THEN o ELSE e) /\ Nearest(e, o..m) \in o..m
  BY <1>2, NearestFacts
<1>5. Nearest(e, o..m) = SignSaturatedAdd(a, b)
  BY <1>3, <1>4
<1>6. SignSaturatedAdd(a, b) \in Int
  BY <1>2, <1>4, <1>5
<1>7. -Half * Size..Half * Size - 1 = o..m
  BY <1>1 DEF m, l
<1> QED BY <1>5, <1>6, <1>7 DEF e

LEMMA DoubleProducts ==
  ASSUME NEW n, LaneCount(n), NEW d \in Register(n), NEW s \in Register(n)
  PROVE  /\ NativePmuludq(d, s) = Pmuludq(d, s) /\ NativePmaddwd(d, s) = Pmaddwd(d, s)
         /\ NativePmaddubsw(d, s) = Pmaddubsw(d, s)
         /\ {Pmuludq(d, s), Pmaddwd(d, s), Pmaddubsw(d, s)} \subseteq Register(n)
<1> DEFINE h == n \div 2
<1>1. Count(d) = n /\ HalfOf(d) = h
  BY LaneFacts
<1>2. \A i \in 0..h - 1 :
        d[2 * i] \in Word /\ d[2 * i + 1] \in Word /\ s[2 * i] \in Word /\ s[2 * i + 1] \in Word
  BY Pairs
<1>3. NativePmuludq(d, s) = Pmuludq(d, s) /\ Pmuludq(d, s) \in Register(n)
  <2> DEFINE f == [i \in 0..h - 1 |-> d[2 * i] * s[2 * i]]
  <2>1. \A i \in 0..h - 1 : f[i] \in Int /\ f[i] % DoubleSize = f[i]
    <3> SUFFICES ASSUME NEW i \in 0..h - 1 PROVE f[i] \in Int /\ f[i] % DoubleSize = f[i]
      OBVIOUS
    <3> DEFINE x == d[2 * i]
               y == s[2 * i]
               z == Size
    <3>1. x \in 0..z - 1 /\ y \in 0..z - 1 /\ z \in Nat \ {0}
      BY <1>2, WidthFacts
    <3> HIDE DEF x, y, z
    <3>2. x * y \in Nat /\ x * y <= (z - 1) * (z - 1)
      <4>1. z - 1 \in Nat
        BY <3>1
      <4> QED BY <3>1, <4>1, BoundedProduct
    <3>3. (z - 1) * (z - 1) < z * z /\ z * z \in Nat \ {0} /\ (z - 1) * (z - 1) \in Int
      BY <3>1
    <3>4. (x * y) % (z * z) = x * y
      <4> DEFINE o == 0
                 p == x * y
                 q == z * z
                 m == (z - 1) * (z - 1)
      <4>1. p \in Nat /\ p <= m /\ m < q /\ m \in Int /\ q \in Nat \ {0}
        BY <3>2, <3>3
      <4> HIDE DEF p, q, m
      <4>2. p = o * q + p /\ o \in Int /\ p \in 0..q - 1
        BY <4>1
      <4> HIDE DEF o
      <4>3. p % q = p
        <5> DEFINE e == o * q + p
        <5>0. e = p
          BY <4>2
        <5>1. q \in Nat \ {0} /\ o \in Int /\ p \in 0..q - 1 /\ e = o * q + p
          BY <4>1, <4>2
        <5> HIDE DEF e
        <5>2. e % q = p
          BY <5>1, Parts
        <5> QED BY <5>0, <5>2
      <4> QED BY <4>3 DEF p, q
    <3>5. f[i] = x * y /\ DoubleSize = z * z
      BY DEF x, y, z, DoubleSize
    <3> HIDE DEF f
    <3> QED BY <3>2, <3>4, <3>5
  <2>2. NativePmuludq(d, s) = Split([i \in 0..h - 1 |-> Congruent(f[i], Size * Size)])
    BY <1>1 DEF NativePmuludq, Every
  <2>3. Pmuludq(d, s) = Singles([i \in 0..h - 1 |-> f[i]])
    BY <1>1 DEF Pmuludq
  <2> HIDE DEF f
  <2>4. Pmuludq(d, s) = Singles([i \in 0..h - 1 |-> f[i] % DoubleSize])
    <3>1. [i \in 0..h - 1 |-> f[i]] = [i \in 0..h - 1 |-> f[i] % DoubleSize]
      BY <2>1
    <3> QED BY <2>3, <3>1
  <2> QED BY <2>1, <2>2, <2>4, EveryDouble
<1>4. NativePmaddwd(d, s) = Pmaddwd(d, s) /\ Pmaddwd(d, s) \in Register(n)
  <2> DEFINE f == [i \in 0..h - 1 |-> Signed(d[2 * i]) * Signed(s[2 * i])
                                      + Signed(d[2 * i + 1]) * Signed(s[2 * i + 1])]
  <2>1. \A i \in 0..h - 1 : f[i] \in Int
    <3> SUFFICES ASSUME NEW i \in 0..h - 1 PROVE f[i] \in Int
      OBVIOUS
    <3>1. Signed(d[2 * i]) * Signed(s[2 * i]) \in Int
      BY <1>2, SignedProduct
    <3>2. Signed(d[2 * i + 1]) * Signed(s[2 * i + 1]) \in Int
      BY <1>2, SignedProduct
    <3> QED BY <3>1, <3>2
  <2>2. NativePmaddwd(d, s) = Split([i \in 0..h - 1 |-> Congruent(f[i], Size * Size)])
    BY <1>1 DEF NativePmaddwd, Every
  <2>3. Pmaddwd(d, s) = Singles([i \in 0..h - 1 |-> f[i] % DoubleSize])
    BY <1>1 DEF Pmaddwd
  <2> HIDE DEF f
  <2> QED BY <2>1, <2>2, <2>3, EveryDouble
<1>5. NativePmaddubsw(d, s) = Pmaddubsw(d, s) /\ Pmaddubsw(d, s) \in Register(n)
  <2> DEFINE f == [i \in 0..h - 1 |->
                     SignSaturatedAdd(d[2 * i] * Signed(s[2 * i]),
                                      d[2 * i + 1] * Signed(s[2 * i + 1]))]
             near(i) == Nearest(d[2 * i] * Signed(s[2 * i]) + d[2 * i + 1] * Signed(s[2 * i + 1]),
                                -Half * Size..Half * Size - 1)
  <2>1. \A i \in 0..h - 1 : f[i] \in Int /\ near(i) = f[i]
    <3> SUFFICES ASSUME NEW i \in 0..h - 1 PROVE f[i] \in Int /\ near(i) = f[i]
      OBVIOUS
    <3> DEFINE a == d[2 * i] * Signed(s[2 * i])
               b == d[2 * i + 1] * Signed(s[2 * i + 1])
    <3>1. a \in Int
      <4>1. d[2 * i] \in Int /\ Signed(s[2 * i]) \in Int
        BY <1>2, WordNumbers
      <4> QED BY <4>1
    <3>2. b \in Int
      <4>1. d[2 * i + 1] \in Int /\ Signed(s[2 * i + 1]) \in Int
        BY <1>2, WordNumbers
      <4> QED BY <4>1
    <3>3. f[i] = SignSaturatedAdd(a, b) /\ near(i) = Nearest(a + b, -Half * Size..Half * Size - 1)
      OBVIOUS
    <3> HIDE DEF a, b, f, near
    <3> QED BY <3>1, <3>2, <3>3, SaturatedSums
  <2>2. NativePmaddubsw(d, s) = Split([i \in 0..h - 1 |-> Congruent(near(i), Size * Size)])
    BY <1>1 DEF NativePmaddubsw, Every
  <2>3. Pmaddubsw(d, s) = Singles([i \in 0..h - 1 |-> f[i] % DoubleSize])
    BY <1>1 DEF Pmaddubsw
  <2> HIDE DEF f, near
  <2>4. [i \in 0..h - 1 |-> Congruent(near(i), Size * Size)] =
        [i \in 0..h - 1 |-> Congruent(f[i], Size * Size)]
    BY <2>1
  <2> QED BY <2>1, <2>2, <2>3, <2>4, EveryDouble
<1> QED BY <1>3, <1>4, <1>5

LEMMA ProductsOfRegisters ==
  ASSUME NEW n, LaneCount(n), vdst \in Register(n), vsrc \in Register(n)
  PROVE  PackedProductsAgree
<1> DEFINE d == vdst
           s == vsrc
<1>1. d \in Register(n) /\ s \in Register(n)
  OBVIOUS
<1>2. PackedProductsAgree <=>
        /\ NativePmulhuw(d, s) = Pmulhuw(d, s) /\ NativePmulhw(d, s) = Pmulhw(d, s)
        /\ NativePmull(d, s) = Pmullw(d, s) /\ NativePmuludq(d, s) = Pmuludq(d, s)
        /\ NativePmaddwd(d, s) = Pmaddwd(d, s) /\ NativePmaddubsw(d, s) = Pmaddubsw(d, s)
        /\ NativePmulhrsw(d, s) = Pmulhrsw(d, s)
  BY DEF PackedProductsAgree
<1> HIDE DEF d, s
<1> QED BY <1>1, <1>2, EachProduct, DoubleProducts

-----------------------------------------------------------------------------
(* Shifts within lanes.                                                    *)

(* A division in two steps, of any number.                                 *)
LEMMA DivTwice ==
  ASSUME NEW a \in Nat \ {0}, NEW b \in Nat \ {0}, NEW x \in Int
  PROVE  a * b \in Nat \ {0} /\ x \div (a * b) = (x \div a) \div b
<1> DEFINE q == x \div a
           r == x % a
           p == q \div b
           s == q % b
<1>1. q \in Int /\ r \in 0..a - 1 /\ r \in Nat /\ x = q * a + r
  OBVIOUS
<1> HIDE DEF q, r
<1>2. p \in Int /\ s \in 0..b - 1 /\ s \in Nat /\ q = p * b + s
  BY <1>1
<1> HIDE DEF p, s
<1>3. a * b \in Nat \ {0} /\ s * a \in Nat /\ p * b \in Int /\ p * (a * b) = (p * b) * a
  BY <1>2
<1> DEFINE c == a * b
           l == s * a + r
<1>4. x = p * c + l
  <2>1. q * a = (p * b) * a + s * a
    BY <1>2, <1>3
  <2>2. q * a \in Int /\ (p * b) * a \in Int /\ r \in Int
    BY <1>1, <1>3
  <2> QED BY <1>1, <1>3, <2>1, <2>2
<1>5. l \in 0..c - 1
  <2>1. s * a <= (b - 1) * a /\ (b - 1) * a = c - a
    BY <1>2
  <2>2. r \in Int /\ r >= 0 /\ r < a /\ c \in Int
    BY <1>1, <1>3
  <2> QED BY <1>3, <2>1, <2>2
<1>6. c \in Nat \ {0}
  BY <1>3
<1> HIDE DEF c, l
<1>7. x \div c = p
  BY <1>2, <1>4, <1>5, <1>6, Parts
<1> QED BY <1>6, <1>7 DEF p, q, c

(* No bit is at the width or above.                                        *)
LEMMA NoBit ==
  ASSUME NEW x \in Word, NEW k \in Nat, k >= Width
  PROVE  Bit(x, k) = 0
<1> DEFINE w == Width
           s == 2^w
           d == 2^(k - w)
           o == 0
<1>1. w \in Nat /\ w <= k /\ x \in Nat /\ x < s
  BY WidthFacts, WordPower
<1>2. s \in Nat \ {0} /\ d \in Nat \ {0} /\ 2^k = s * d
  <2> HIDE DEF w
  <2> QED BY <1>1, PowerSplit
<1> HIDE DEF w, s, d
<1>3. x \div (s * d) = (x \div s) \div d
  BY <1>1, <1>2, DivDiv
<1>4. x \div s = o
  <2>1. x = o * s + x /\ o \in Int /\ x \in 0..s - 1
    BY <1>1, <1>2
  <2> HIDE DEF o
  <2> QED BY <1>2, <2>1, Parts
<1>5. o \div d = o
  <2>1. o = o * d + o /\ o \in Int /\ o \in 0..d - 1
    BY <1>2
  <2> HIDE DEF o
  <2> QED BY <1>2, <2>1, Parts
<1> QED BY <1>2, <1>3, <1>4, <1>5 DEF Bit

LEMMA RightBits ==
  ASSUME NEW x \in Word, NEW c \in Nat
  PROVE  /\ x \div 2^c \in Word
         /\ \A p \in Places : Bit(x \div 2^c, p) =
              IF p + c < Width /\ Bit(x, p + c) = 1 THEN 1 ELSE 0
<1> DEFINE y == x \div 2^c
<1>1. y \in Word /\ x \in Nat
  BY ShiftedRight, WordNumbers
<1>2. ASSUME NEW p \in Places PROVE Bit(y, p) = Bit(x, p + c) /\ p + c \in Nat
  <2>1. p \in Nat
    BY WidthFacts DEF Places
  <2>2. 2^c \in Nat \ {0} /\ 2^p \in Nat \ {0} /\ 2^(c + p) = 2^c * 2^p
    BY <2>1, TwoPower, PowersMultiply
  <2>3. x \div (2^c * 2^p) = (x \div 2^c) \div 2^p
    BY <1>1, <2>2, DivDiv
  <2>4. p + c = c + p
    BY <2>1
  <2>5. Bit(x, p + c) = (x \div (2^c * 2^p)) % 2
    BY <2>2, <2>4 DEF Bit
  <2> QED BY <2>1, <2>3, <2>5 DEF Bit
<1> HIDE DEF y
<1>3. ASSUME NEW p \in Places
      PROVE  Bit(y, p) = IF p + c < Width /\ Bit(x, p + c) = 1 THEN 1 ELSE 0
  <2> DEFINE k == p + c
  <2>1. Bit(y, p) = Bit(x, k) /\ k \in Nat
    BY <1>2
  <2> HIDE DEF k
  <2>2. CASE k < Width
    <3>1. k \in Places
      BY <2>1, <2>2, WidthFacts DEF Places
    <3>2. Bit(x, k) \in {0, 1}
      BY <3>1, WordBits
    <3>3. Bit(y, p) = IF k < Width /\ Bit(x, k) = 1 THEN 1 ELSE 0
      BY <2>1, <2>2, <3>2
    <3> QED BY <3>3 DEF k
  <2>3. CASE ~(k < Width)
    <3>1. Bit(x, k) = 0
      BY <2>1, <2>3, NoBit, WidthFacts
    <3>2. Bit(y, p) = IF k < Width /\ Bit(x, k) = 1 THEN 1 ELSE 0
      BY <2>1, <2>3, <3>1
    <3> QED BY <3>2 DEF k
  <2> QED BY <2>2, <2>3
<1> QED BY <1>1, <1>3 DEF y

LEMMA LeftBits ==
  ASSUME NEW x \in Word, NEW c \in Nat
  PROVE  /\ Wrap(x * 2^c) \in Word
         /\ \A p \in Places : Bit(Wrap(x * 2^c), p) =
              IF p >= c /\ Bit(x, p - c) = 1 THEN 1 ELSE 0
<1> DEFINE m == x * 2^c
           y == Wrap(m)
<1>1. x \in Nat /\ m \in Nat /\ 2^c \in Nat \ {0}
  <2>1. x \in Nat /\ 2^c \in Nat \ {0}
    BY WordNumbers, TwoPower
  <2> QED BY <2>1
<1>2. Joins(m, x, c, 0)
  <2> DEFINE t == 2^c
  <2>1. t \in Nat
    BY <1>1
  <2>2. x * t = x * t + 0
    BY <1>1, <2>1
  <2> QED BY <2>2 DEF Joins
<1> HIDE DEF m
<1>3. y \in Word
  BY <1>1, WrapFacts
<1>4. PICK u \in Nat, r \in 0..2^Width - 1 :
        Joins(m, u, Width, r) /\ r = m % 2^Width /\ r \in Nat
  BY <1>1, WidthFacts, Joined
<1>5. r = y
  BY <1>4, WordPower DEF Wrap
<1> HIDE DEF y
<1>6. ASSUME NEW p \in Places
      PROVE  Bit(y, p) = IF p >= c /\ Bit(x, p - c) = 1 THEN 1 ELSE 0
  <2>1. p \in Nat /\ p < Width /\ Width \in Nat
    BY WidthFacts DEF Places
  <2>2. Bit(m, p) = Bit(y, p)
    BY <1>4, <1>5, <2>1, LowBit
  <2>3. CASE p < c
    <3>1. 0 \in Nat
      OBVIOUS
    <3>2. Bit(m, p) = Bit(0, p)
      BY <1>1, <1>2, <2>1, <2>3, <3>1, LowBit
    <3>3. Bit(0, p) = 0
      BY <2>1, ZeroBits
    <3>4. ~(p >= c)
      BY <2>1, <2>3
    <3> QED BY <2>2, <3>2, <3>3, <3>4
  <2>4. CASE ~(p < c)
    <3> DEFINE k == p - c
    <3>1. c <= p /\ 0 \in 0..2^c - 1 /\ k \in Nat /\ p >= c
      BY <1>1, <2>1, <2>4
    <3>2. Bit(m, p) = Bit(x, k)
      BY <1>1, <1>2, <2>1, <3>1, HighBit
    <3> HIDE DEF k
    <3>3. Bit(x, k) \in {0, 1}
      BY <1>1, <3>1, BitFacts
    <3>4. Bit(y, p) = IF Bit(x, k) = 1 THEN 1 ELSE 0
      BY <2>2, <3>2, <3>3
    <3> QED BY <3>1, <3>4 DEF k
  <2> QED BY <2>3, <2>4
<1> QED BY <1>3, <1>6 DEF y, m

(* LanesShifted by its width but one or more, a word is its sign everywhere.    *)
LEMMA OnlySign ==
  ASSUME NEW x \in Word, NEW t \in Nat, t >= Half
  PROVE  (Signed(x) \div t) % 2 = IF Signed(x) < 0 THEN 1 ELSE 0
<1> DEFINE p == Signed(x)
<1>1. p \in Int /\ p >= -Half /\ p <= Half - 1 /\ Half \in Int /\ Half >= 2
  BY WordNumbers, WidthFacts
<1> HIDE DEF p
<1>2. CASE p < 0
  <2> DEFINE u == -1
             l == p + t
  <2>1. p = u * t + l /\ u \in Int /\ l \in 0..t - 1 /\ t \in Nat \ {0}
    BY <1>1, <1>2
  <2>2. u % 2 = 1
    <3> DEFINE e == 2
               o == 1
    <3>1. u = u * e + o /\ u \in Int /\ e \in Nat \ {0} /\ o \in 0..e - 1
      OBVIOUS
    <3> HIDE DEF u, e, o
    <3>2. u % e = o
      BY <3>1, Parts
    <3> QED BY <3>2 DEF e, o
  <2> HIDE DEF u, l
  <2>3. p \div t = u
    BY <2>1, Parts
  <2> QED BY <1>2, <2>2, <2>3 DEF p
<1>3. CASE ~(p < 0)
  <2> DEFINE u == 0
  <2>1. p = u * t + p /\ u \in Int /\ p \in 0..t - 1 /\ t \in Nat \ {0}
    BY <1>1, <1>3
  <2>2. u % 2 = 0
    OBVIOUS
  <2> HIDE DEF u
  <2>3. p \div t = u
    BY <2>1, Parts
  <2> QED BY <1>3, <2>2, <2>3 DEF p
<1> QED BY <1>2, <1>3

LEMMA SignedRightBits ==
  ASSUME NEW x \in Word, NEW c \in Nat
  PROVE  /\ Wrap(Signed(x) \div 2^c) \in Word
         /\ \A p \in Places :
              Bit(Wrap(Signed(x) \div 2^c), p) = IF Bit(x, Min({p + c, Width - 1})) = 1 THEN 1 ELSE 0
<1> DEFINE a == Signed(x)
           t == 2^c
           y == a \div t
           z == Wrap(y)
           h == Half
<1>1. a \in Int /\ a >= -h /\ a <= h - 1 /\ h \in Nat /\ h >= 2 /\ t \in Nat \ {0}
  BY WordNumbers, WidthFacts, TwoPower
<1> HIDE DEF a, t, h
<1>2. y \in Int /\ t * y <= a /\ a < t * y + t
  BY <1>1
<1> HIDE DEF y
<1>3. y \in (-h)..(h - 1)
  <2>1. y >= h => t * y >= h
    <3>1. y >= h => t * y >= t * h
      BY <1>1, <1>2
    <3>2. t * h >= h /\ t * h \in Int /\ t * y \in Int
      BY <1>1, <1>2
    <3> QED BY <1>1, <3>1, <3>2
  <2>2. y < -h => t * y + t <= -h
    <3> DEFINE e == y + 1
    <3>1. e \in Int /\ t * e = t * y + t /\ t * e \in Int
      BY <1>1, <1>2
    <3>2. y < -h => e <= -h
      BY <1>1, <1>2
    <3> HIDE DEF e
    <3>3. e <= -h => t * e <= t * (-h)
      BY <1>1, <3>1
    <3>4. t * (-h) <= -h /\ t * (-h) \in Int
      BY <1>1
    <3>5. e <= -h => t * e <= -h
      BY <1>1, <3>1, <3>3, <3>4
    <3> QED BY <3>1, <3>2, <3>5
  <2>3. t * y \in Int
    BY <1>1, <1>2
  <2> QED BY <1>1, <1>2, <2>1, <2>2, <2>3
<1>4. z \in Word /\ Signed(z) = y
  <2>1. y \in (-Half)..(Half - 1)
    BY <1>3 DEF h
  <2>2. y = Signed(Wrap(y))
    BY <1>2, <2>1, Fits
  <2>3. Wrap(y) \in Word
    BY <1>2, WrapFacts
  <2> QED BY <2>2, <2>3
<1> HIDE DEF z
<1>5. ASSUME NEW p \in Places
      PROVE  Bit(z, p) = IF Bit(x, Min({p + c, Width - 1})) = 1 THEN 1 ELSE 0
  <2> DEFINE k == p + c
             w == Width - 1
  <2>1. p \in Nat /\ k \in Nat /\ w \in Nat /\ w \in Int /\ k \in Int /\ w \in Places
        /\ (k < Width <=> ~(w < k)) /\ (k < Width => k \in Places) /\ w + 1 = Width
    BY WidthFacts DEF Places
  <2>2. 2^p \in Nat \ {0} /\ 2^(c + p) = t * 2^p
    BY <2>1, TwoPower, PowersMultiply DEF t
  <2>3. y \div 2^p = a \div (t * 2^p)
    BY <1>1, <2>2, DivTwice DEF y
  <2>4. c + p = k
    BY <2>1
  <2>5. y \div 2^p = a \div 2^k
    BY <2>2, <2>3, <2>4
  <2>6. Bit(z, p) = (y \div 2^p) % 2
    BY <1>4, SignedBit
  <2>7. Bit(z, p) = (a \div 2^k) % 2
    BY <2>5, <2>6
  <2> HIDE DEF k, w
  <2>8. Min({k, w}) = IF w < k THEN w ELSE k
    BY <2>1, MinMax
  <2>9. CASE k < Width
    <3>1. (a \div 2^k) % 2 = Bit(x, k)
      BY <2>1, <2>9, SignedBit DEF a
    <3>2. Bit(x, k) \in {0, 1}
      BY <2>1, <2>9, WordBits
    <3>3. Min({k, w}) = k
      BY <2>1, <2>8, <2>9
    <3>4. Bit(z, p) = IF Bit(x, Min({k, w})) = 1 THEN 1 ELSE 0
      BY <2>7, <3>1, <3>2, <3>3
    <3> QED BY <3>4 DEF k, w
  <2>10. CASE ~(k < Width)
    <3>1. 2^w = Half
      <4>1. 2^(w + 1) = 2 * 2^w /\ 2^w \in Nat
        BY <2>1, TwoPower
      <4>2. 2 * Half = 2^Width /\ Half \in Nat
        BY WidthAssumption
      <4> QED BY <2>1, <4>1, <4>2
    <3>2. 2^k \in Nat /\ 2^k >= Half
      <4>1. w \in Nat /\ k \in Nat /\ w < k
        BY <2>1, <2>10
      <4>2. 2^w < 2^k /\ 2^k \in Nat /\ 2^w \in Nat
        BY <4>1, PowerSplit
      <4> QED BY <3>1, <4>2
    <3>3. (a \div 2^k) % 2 = IF a < 0 THEN 1 ELSE 0
      BY <3>2, OnlySign DEF a
    <3>4. (a \div 2^w) % 2 = IF a < 0 THEN 1 ELSE 0
      <4>1. 2^w \in Nat /\ 2^w >= Half
        BY <3>1, WidthFacts
      <4> QED BY <4>1, OnlySign DEF a
    <3>5. (a \div 2^w) % 2 = Bit(x, w)
      BY <2>1, SignedBit DEF a
    <3>6. Min({k, w}) = w
      BY <2>1, <2>8, <2>10
    <3>7. Bit(z, p) = IF Bit(x, Min({k, w})) = 1 THEN 1 ELSE 0
      <4>1. Bit(z, p) = IF a < 0 THEN 1 ELSE 0
        BY <2>7, <3>3
      <4>2. Bit(x, w) = IF a < 0 THEN 1 ELSE 0
        BY <3>4, <3>5
      <4> QED BY <3>6, <4>1, <4>2
    <3> QED BY <3>7 DEF k, w
  <2> QED BY <2>9, <2>10
<1> QED BY <1>4, <1>5 DEF z, y, a, t

(* A word is known by its bits, also when they are given as a set.         *)
LEMMA SetOfBits ==
  ASSUME NEW y \in Word, NEW B, B \subseteq Places,
         \A p \in Places : Bit(y, p) = IF p \in B THEN 1 ELSE 0
  PROVE  WordOf(B) = y
<1>1. Bits(y) = B \cap Places
  BY DEF Bits
<1> QED BY <1>1, BitsOfWord

LEMMA LaneShifts ==
  ASSUME NEW x \in Word, NEW c \in Nat
  PROVE  /\ WordOf({p \in Places : p >= c /\ Bit(x, p - c) = 1}) = Wrap(x * 2^c)
         /\ WordOf({p \in Places : p + c < Width /\ Bit(x, p + c) = 1}) = x \div 2^c
         /\ WordOf({p \in Places : Bit(x, Min({p + c, Width - 1})) = 1}) = Wrap(Signed(x) \div 2^c)
         /\ Wrap(x * 2^c) \in Word /\ x \div 2^c \in Word /\ Wrap(Signed(x) \div 2^c) \in Word
<1> DEFINE A == {p \in Places : p >= c /\ Bit(x, p - c) = 1}
           B == {p \in Places : p + c < Width /\ Bit(x, p + c) = 1}
           C == {p \in Places : Bit(x, Min({p + c, Width - 1})) = 1}
           u == Wrap(x * 2^c)
           v == x \div 2^c
           w == Wrap(Signed(x) \div 2^c)
<1>1. u \in Word /\ \A p \in Places : Bit(u, p) = IF p \in A THEN 1 ELSE 0
  <2>1. /\ u \in Word
        /\ \A p \in Places : Bit(u, p) = IF p >= c /\ Bit(x, p - c) = 1 THEN 1 ELSE 0
    BY LeftBits
  <2> HIDE DEF u
  <2> QED BY <2>1
<1>2. v \in Word /\ \A p \in Places : Bit(v, p) = IF p \in B THEN 1 ELSE 0
  <2>1. /\ v \in Word
        /\ \A p \in Places : Bit(v, p) = IF p + c < Width /\ Bit(x, p + c) = 1 THEN 1 ELSE 0
    BY RightBits
  <2> HIDE DEF v
  <2> QED BY <2>1
<1>3. w \in Word /\ \A p \in Places : Bit(w, p) = IF p \in C THEN 1 ELSE 0
  <2>1. /\ w \in Word
        /\ \A p \in Places : Bit(w, p) = IF Bit(x, Min({p + c, Width - 1})) = 1 THEN 1 ELSE 0
    BY SignedRightBits
  <2> HIDE DEF w
  <2> QED BY <2>1
<1>4. A \subseteq Places /\ B \subseteq Places /\ C \subseteq Places
  OBVIOUS
<1> HIDE DEF A, B, C, u, v, w
<1>5. WordOf(A) = u
  BY <1>1, <1>4, SetOfBits
<1>6. WordOf(B) = v
  BY <1>2, <1>4, SetOfBits
<1>7. WordOf(C) = w
  BY <1>3, <1>4, SetOfBits
<1> QED BY <1>1, <1>2, <1>3, <1>5, <1>6, <1>7 DEF A, B, C, u, v, w

LEMMA EachShift ==
  ASSUME NEW n, LaneCount(n), NEW d \in Register(n), NEW c \in Nat
  PROVE  /\ NativePsll(d, c) = Psll(d, c) /\ NativePsrl(d, c) = Psrl(d, c)
         /\ NativePsra(d, c) = Psra(d, c)
         /\ {Psll(d, c), Psrl(d, c), Psra(d, c)} \subseteq Register(n)
<1>1. DOMAIN d = 0..n - 1 /\ \A i \in 0..n - 1 : d[i] \in Word
  BY LaneFacts
<1>2. \A i \in 0..n - 1 :
        /\ WordOf({p \in Places : p >= c /\ Bit(d[i], p - c) = 1}) = Wrap(d[i] * 2^c)
        /\ WordOf({p \in Places : p + c < Width /\ Bit(d[i], p + c) = 1}) = d[i] \div 2^c
        /\ WordOf({p \in Places : Bit(d[i], Min({p + c, Width - 1})) = 1}) =
             Wrap(Signed(d[i]) \div 2^c)
        /\ Wrap(d[i] * 2^c) \in Word /\ d[i] \div 2^c \in Word
        /\ Wrap(Signed(d[i]) \div 2^c) \in Word
  BY <1>1, LaneShifts
<1>3. NativePsll(d, c) = Psll(d, c) /\ Psll(d, c) \in Register(n)
  BY <1>1, <1>2 DEF NativePsll, Psll, Register
<1>4. NativePsrl(d, c) = Psrl(d, c) /\ Psrl(d, c) \in Register(n)
  BY <1>1, <1>2 DEF NativePsrl, Psrl, Register
<1>5. NativePsra(d, c) = Psra(d, c) /\ Psra(d, c) \in Register(n)
  BY <1>1, <1>2 DEF NativePsra, Psra, Register
<1> QED BY <1>3, <1>4, <1>5

-----------------------------------------------------------------------------
(* Shifts of whole registers: every half that the emulator puts together   *)
(* is a window of the lanes that are shifted.                              *)

(* The lanes of V, numbered below m.                                       *)
Bank(V, m) == m \in Nat /\ DOMAIN V = 0..m - 1 /\ \A i \in 0..m - 1 : V[i] \in Word
LaneAt(V, m, j) == IF j \in 0..m - 1 THEN V[j] ELSE 0
(* a shows the h lanes of V from p on.                                     *)
Shows(a, h, V, m, p) ==
  /\ a \in Register(h) /\ p \in Int
  /\ \A i \in 0..h - 1, j \in Int : j = i + p => a[i] = LaneAt(V, m, j)

LEMMA HalfLanes ==
  ASSUME NEW h \in Nat \ {0}, NEW a \in Register(h)
  PROVE  /\ Lanes(a) = h /\ DOMAIN a = 0..h - 1 /\ a = [i \in 0..h - 1 |-> a[i]]
         /\ \A i \in 0..h - 1 : a[i] \in Word
<1>1. h - 1 \in Int /\ ~(0 > h - 1) /\ ((h - 1) - 0) + 1 = h /\ 0 \in Int
  OBVIOUS
<1>2. Cardinality(0..h - 1) = ((h - 1) - 0) + 1
  BY <1>1, FS_Interval
<1> QED BY <1>1, <1>2 DEF Register, Lanes

LEMMA ShownOnce ==
  ASSUME NEW h \in Nat \ {0}, NEW V, NEW m, NEW p, NEW a, Shows(a, h, V, m, p),
         NEW b, Shows(b, h, V, m, p)
  PROVE  a = b
<1>1. a = [i \in 0..h - 1 |-> a[i]] /\ b = [i \in 0..h - 1 |-> b[i]]
  BY HalfLanes DEF Shows
<1>2. ASSUME NEW i \in 0..h - 1 PROVE a[i] = b[i]
  <2> DEFINE j == i + p
  <2>1. j \in Int /\ j = i + p
    BY DEF Shows
  <2> HIDE DEF j
  <2> QED BY <2>1 DEF Shows
<1> QED BY <1>1, <1>2

LEMMA ShownWindow ==
  ASSUME NEW V, NEW m, Bank(V, m), NEW h \in Nat \ {0}, NEW p \in Int
  PROVE  Shows(Window(V, p, h), h, V, m, p)
<1> DEFINE w == Window(V, p, h)
<1>1. DOMAIN V = 0..m - 1 /\ 0 \in Word /\ \A i \in 0..m - 1 : V[i] \in Word
  BY WidthFacts DEF Bank
<1>2. w = [i \in 0..h - 1 |-> LaneAt(V, m, i + p)]
  BY <1>1 DEF Window, LaneAt
<1>3. \A j \in Int : LaneAt(V, m, j) \in Word
  BY <1>1 DEF LaneAt
<1>4. w \in Register(h)
  <2>1. \A i \in 0..h - 1 : i + p \in Int
    OBVIOUS
  <2> HIDE DEF w
  <2> QED BY <1>2, <1>3, <2>1 DEF Register
<1> HIDE DEF w
<1>5. ASSUME NEW i \in 0..h - 1, NEW j \in Int, j = i + p
      PROVE  w[i] = LaneAt(V, m, j)
  BY <1>2, <1>5
<1> QED BY <1>4, <1>5 DEF Shows, w

(* Shifts of one half.                                                     *)
LeftIs(l, h, a, k) ==
  /\ l \in Register(h) /\ \A i \in 0..h - 1 : i < k => l[i] = 0
  /\ \A i \in 0..h - 1, j \in 0..h - 1 : j = i - k => l[i] = a[j]
RightIs(r, h, a, k) ==
  /\ r \in Register(h) /\ \A i \in 0..h - 1 : i + k >= h => r[i] = 0
  /\ \A i \in 0..h - 1, j \in 0..h - 1 : j = i + k => r[i] = a[j]

LEMMA ShiftedHalf ==
  ASSUME NEW h \in Nat \ {0}, NEW a \in Register(h), NEW k \in Nat
  PROVE  LeftIs(Left(a, k), h, a, k) /\ RightIs(Right(a, k), h, a, k)
<1>1. Lanes(a) = h /\ DOMAIN a = 0..h - 1 /\ 0 \in Word /\ \A i \in 0..h - 1 : a[i] \in Word
  BY HalfLanes, WidthFacts
<1> DEFINE l == Left(a, k)
           r == Right(a, k)
<1>2. l = [i \in 0..h - 1 |-> IF i >= k THEN a[i - k] ELSE 0]
  BY <1>1 DEF Left
<1>3. r = [i \in 0..h - 1 |-> IF i + k < h THEN a[i + k] ELSE 0]
  BY <1>1 DEF Right
<1> HIDE DEF l, r
<1>4. \A i \in 0..h - 1 : (i >= k => i - k \in 0..h - 1) /\ (i + k < h => i + k \in 0..h - 1)
  OBVIOUS
<1>5. l \in Register(h) /\ r \in Register(h)
  BY <1>1, <1>2, <1>3, <1>4 DEF Register
<1>6. ASSUME NEW i \in 0..h - 1
      PROVE  (i < k => l[i] = 0) /\ (i + k >= h => r[i] = 0)
  BY <1>2, <1>3
<1>7. ASSUME NEW i \in 0..h - 1, NEW j \in 0..h - 1
      PROVE  (j = i - k => l[i] = a[j]) /\ (j = i + k => r[i] = a[j])
  <2>1. ASSUME j = i - k PROVE l[i] = a[j]
    <3>1. i >= k
      BY <2>1
    <3> QED BY <1>2, <2>1, <3>1
  <2>2. ASSUME j = i + k PROVE r[i] = a[j]
    <3>1. i + k < h
      BY <2>2
    <3> QED BY <1>3, <2>2, <3>1
  <2> QED BY <2>1, <2>2
<1>8. LeftIs(l, h, a, k)
  BY <1>5, <1>6, <1>7 DEF LeftIs
<1>9. RightIs(r, h, a, k)
  BY <1>5, <1>6, <1>7 DEF RightIs
<1> QED BY <1>8, <1>9 DEF l, r

LEMMA OrZero ==
  ASSUME NEW x \in Word
  PROVE  Or(x, 0) = x /\ Or(0, x) = x
<1>1. Bits(0) = {} /\ Bits(x) = Bits(x) \cap Places
  BY ZeroBits DEF Bits
<1>2. WordOf(Bits(x)) = x
  BY <1>1, BitsOfWord
<1>3. Bits(x) \cup Bits(0) = Bits(x) /\ Bits(0) \cup Bits(x) = Bits(x)
  BY <1>1
<1> QED BY <1>2, <1>3 DEF Or

LEMMA PutTogether ==
  ASSUME NEW h \in Nat \ {0}, NEW a \in Register(h), NEW b \in Register(h)
  PROVE  /\ Both(a, b) \in Register(h)
         /\ \A i \in 0..h - 1 : /\ b[i] = 0 => Both(a, b)[i] = a[i]
                                /\ a[i] = 0 => Both(a, b)[i] = b[i]
<1>1. DOMAIN a = 0..h - 1 /\ (\A i \in 0..h - 1 : a[i] \in Word) /\ \A i \in 0..h - 1 : b[i] \in Word
  BY HalfLanes
<1> DEFINE c == Both(a, b)
<1>2. c = [i \in 0..h - 1 |-> Or(a[i], b[i])]
  BY <1>1 DEF Both, Each
<1> HIDE DEF c
<1>3. \A i \in 0..h - 1 : Or(a[i], b[i]) \in Word
  BY <1>1, LogicBits
<1>4. c \in Register(h)
  BY <1>2, <1>3 DEF Register
<1>5. ASSUME NEW i \in 0..h - 1
      PROVE  (b[i] = 0 => c[i] = a[i]) /\ (a[i] = 0 => c[i] = b[i])
  <2>1. c[i] = Or(a[i], b[i]) /\ a[i] \in Word /\ b[i] \in Word
    BY <1>1, <1>2
  <2> QED BY <2>1, OrZero
<1> QED BY <1>4, <1>5 DEF c

(* Of two neighbouring halves, the end of the first and the beginning of   *)
(* the second, in either order.                                            *)
LEMMA Straddling ==
  ASSUME NEW V, NEW m, Bank(V, m), NEW h \in Nat \ {0}, NEW p \in Int, NEW q, q = p + h,
         NEW a, Shows(a, h, V, m, p), NEW b, Shows(b, h, V, m, q),
         NEW k \in 0..h, NEW l, l = h - k, NEW o, o = p + k
  PROVE  /\ Shows(Both(Right(a, k), Left(b, l)), h, V, m, o)
         /\ Shows(Both(Left(b, l), Right(a, k)), h, V, m, o)
<1>1. k \in Nat /\ l \in Nat /\ o \in Int /\ q \in Int /\ a \in Register(h) /\ b \in Register(h)
  BY DEF Shows
<1> DEFINE r == Right(a, k)
           f == Left(b, l)
<1>2. RightIs(r, h, a, k) /\ LeftIs(f, h, b, l)
  BY <1>1, ShiftedHalf
<1> HIDE DEF r, f
<1>3. ASSUME NEW i \in 0..h - 1, NEW j \in Int, j = i + o
      PROVE  (r[i] = 0 /\ f[i] = LaneAt(V, m, j)) \/ (f[i] = 0 /\ r[i] = LaneAt(V, m, j))
  <2>1. CASE i < l
    <3> DEFINE e == i + k
    <3>1. e \in 0..h - 1 /\ e = i + k /\ j = e + p
      BY <1>1, <1>3, <2>1
    <3> HIDE DEF e
    <3>2. f[i] = 0 /\ r[i] = a[e]
      BY <1>2, <2>1, <3>1 DEF RightIs, LeftIs
    <3>3. a[e] = LaneAt(V, m, j)
      BY <3>1 DEF Shows
    <3> QED BY <3>2, <3>3
  <2>2. CASE ~(i < l)
    <3> DEFINE e == i - l
    <3>1. e \in 0..h - 1 /\ e = i - l /\ j = e + q /\ i + k >= h
      BY <1>1, <1>3, <2>2
    <3> HIDE DEF e
    <3>2. r[i] = 0 /\ f[i] = b[e]
      BY <1>2, <3>1 DEF RightIs, LeftIs
    <3>3. b[e] = LaneAt(V, m, j)
      BY <3>1 DEF Shows
    <3> QED BY <3>2, <3>3
  <2> QED BY <2>1, <2>2
<1>4. /\ Both(r, f) \in Register(h)
      /\ \A i \in 0..h - 1 : (f[i] = 0 => Both(r, f)[i] = r[i]) /\ (r[i] = 0 => Both(r, f)[i] = f[i])
  BY <1>2, PutTogether DEF RightIs, LeftIs
<1>5. /\ Both(f, r) \in Register(h)
      /\ \A i \in 0..h - 1 : (r[i] = 0 => Both(f, r)[i] = f[i]) /\ (f[i] = 0 => Both(f, r)[i] = r[i])
  BY <1>2, PutTogether DEF RightIs, LeftIs
<1>6. \A i \in 0..h - 1, j \in Int : j = i + o =>
        Both(r, f)[i] = LaneAt(V, m, j) /\ Both(f, r)[i] = LaneAt(V, m, j)
  BY <1>3, <1>4, <1>5
<1> QED BY <1>1, <1>4, <1>5, <1>6 DEF Shows, r, f

(* The last half and what follows it, the first and what precedes it.      *)
LEMMA Ending ==
  ASSUME NEW V, NEW m, Bank(V, m), NEW h \in Nat \ {0}, NEW p \in Int, p + h = m,
         NEW a, Shows(a, h, V, m, p), NEW k \in Nat, NEW o, o = p + k
  PROVE  Shows(Right(a, k), h, V, m, o)
<1>1. o \in Int /\ a \in Register(h) /\ m \in Nat
  BY DEF Shows, Bank
<1> DEFINE r == Right(a, k)
<1>2. RightIs(r, h, a, k)
  BY <1>1, ShiftedHalf
<1> HIDE DEF r
<1>3. ASSUME NEW i \in 0..h - 1, NEW j \in Int, j = i + o
      PROVE  r[i] = LaneAt(V, m, j)
  <2> DEFINE e == i + k
  <2>1. CASE e < h
    <3>1. e \in 0..h - 1 /\ e = i + k /\ j = e + p
      BY <1>1, <1>3, <2>1
    <3> HIDE DEF e
    <3>2. a[e] = LaneAt(V, m, j)
      BY <3>1 DEF Shows
    <3> QED BY <1>2, <3>1, <3>2 DEF RightIs
  <2>2. CASE ~(e < h)
    <3>1. j \notin 0..m - 1 /\ i + k >= h
      BY <1>1, <1>3, <2>2
    <3> QED BY <1>2, <3>1 DEF LaneAt, RightIs
  <2> QED BY <2>1, <2>2
<1> QED BY <1>1, <1>2, <1>3 DEF Shows, r, RightIs

LEMMA Beginning ==
  ASSUME NEW V, NEW m, Bank(V, m), NEW h \in Nat \ {0},
         NEW a, Shows(a, h, V, m, 0), NEW k \in Nat, NEW o, o = -k
  PROVE  Shows(Left(a, k), h, V, m, o)
<1>1. o \in Int /\ a \in Register(h) /\ m \in Nat
  BY DEF Shows, Bank
<1> DEFINE r == Left(a, k)
<1>2. LeftIs(r, h, a, k)
  BY <1>1, ShiftedHalf
<1> HIDE DEF r
<1>3. ASSUME NEW i \in 0..h - 1, NEW j \in Int, j = i + o
      PROVE  r[i] = LaneAt(V, m, j)
  <2> DEFINE e == i - k
  <2>1. CASE ~(i < k)
    <3>1. e \in 0..h - 1 /\ e = i - k /\ j = e + 0
      BY <1>1, <1>3, <2>1
    <3> HIDE DEF e
    <3>2. a[e] = LaneAt(V, m, j)
      BY <3>1 DEF Shows
    <3> QED BY <1>2, <3>1, <3>2 DEF LeftIs
  <2>2. CASE i < k
    <3>1. j \notin 0..m - 1
      BY <1>1, <1>3, <2>2
    <3> QED BY <1>2, <2>2, <3>1 DEF LaneAt, LeftIs
  <2> QED BY <2>1, <2>2
<1> QED BY <1>1, <1>2, <1>3 DEF Shows, r, LeftIs

(* Nothing is before the first lane or after the last.                     *)
LEMMA Outside ==
  ASSUME NEW V, NEW m, Bank(V, m), NEW h \in Nat \ {0}, NEW p \in Int,
         p >= m \/ p + h <= 0
  PROVE  Shows(Zeros(h), h, V, m, p)
<1> DEFINE z == Zeros(h)
<1>1. z = [i \in 0..h - 1 |-> 0] /\ 0 \in Word /\ m \in Nat
  BY WidthFacts DEF Zeros, Bank
<1> HIDE DEF z
<1>2. z \in Register(h) /\ \A i \in 0..h - 1 : z[i] = 0
  BY <1>1 DEF Register
<1>3. ASSUME NEW i \in 0..h - 1, NEW j \in Int, j = i + p
      PROVE  z[i] = LaneAt(V, m, j)
  <2>1. j \notin 0..m - 1
    BY <1>1, <1>3
  <2> QED BY <1>2, <2>1 DEF LaneAt
<1> QED BY <1>2, <1>3 DEF Shows, z

(* Two neighbouring halves are a register.                                 *)
LEMMA TwoHalves ==
  ASSUME NEW V, NEW m, Bank(V, m), NEW h \in Nat \ {0}, NEW p \in Int, NEW q, q = p + h,
         NEW a, Shows(a, h, V, m, p), NEW b, Shows(b, h, V, m, q)
  PROVE  Shows(Xmm(a, b), 2 * h, V, m, p)
<1> DEFINE c == Xmm(a, b)
           n == 2 * h
<1>1. q \in Int /\ a \in Register(h) /\ b \in Register(h) /\ n \in Nat \ {0}
  BY DEF Shows
<1>2. Lanes(a) = h /\ (\A i \in 0..h - 1 : a[i] \in Word) /\ \A i \in 0..h - 1 : b[i] \in Word
  BY <1>1, HalfLanes
<1>3. c = [i \in 0..n - 1 |-> IF i < h THEN a[i] ELSE b[i - h]]
  BY <1>2 DEF Xmm
<1> HIDE DEF c
<1>4. \A i \in 0..n - 1 : (i < h => i \in 0..h - 1) /\ (~(i < h) => i - h \in 0..h - 1)
  OBVIOUS
<1>5. c \in Register(n)
  <2> HIDE DEF n
  <2> QED BY <1>2, <1>3, <1>4 DEF Register
<1>6. ASSUME NEW i \in 0..n - 1, NEW j \in Int, j = i + p
      PROVE  c[i] = LaneAt(V, m, j)
  <2>1. CASE i < h
    <3>1. i \in 0..h - 1 /\ c[i] = a[i]
      BY <1>3, <1>4, <2>1
    <3> QED BY <1>6, <3>1 DEF Shows
  <2>2. CASE ~(i < h)
    <3> DEFINE e == i - h
    <3>1. e \in 0..h - 1 /\ c[i] = b[e] /\ j = e + q
      BY <1>3, <1>4, <1>6, <2>2
    <3> HIDE DEF e
    <3> QED BY <3>1 DEF Shows
  <2> QED BY <2>1, <2>2
<1> QED BY <1>5, <1>6 DEF Shows, c, n

LEMMA HalvesShow ==
  ASSUME NEW n, LaneCount(n), NEW h, h = n \div 2, NEW V, NEW m, Bank(V, m),
         NEW p \in Int, NEW a, Shows(a, n, V, m, p), NEW q, q = p + h
  PROVE  Shows(Lo(a), h, V, m, p) /\ Shows(Hi(a), h, V, m, q)
<1>1. h \in Nat \ {0} /\ n = 2 * h /\ a \in Register(n) /\ q \in Int
  BY HalfFacts DEF Shows
<1>2. HalfOf(a) = h /\ \A i \in 0..n - 1 : a[i] \in Word
  BY <1>1, LaneFacts
<1> DEFINE l == Lo(a)
           r == Hi(a)
<1>3. l = [i \in 0..h - 1 |-> a[i]] /\ r = [i \in 0..h - 1 |-> a[h + i]]
  BY <1>2 DEF Lo, Hi
<1>4. \A i \in 0..h - 1 : i \in 0..n - 1 /\ h + i \in 0..n - 1
  BY <1>1
<1> HIDE DEF l, r
<1>5. l \in Register(h) /\ r \in Register(h)
  BY <1>2, <1>3, <1>4 DEF Register
<1>6. ASSUME NEW i \in 0..h - 1, NEW j \in Int, j = i + p
      PROVE  l[i] = LaneAt(V, m, j)
  BY <1>3, <1>4, <1>6 DEF Shows
<1>7. ASSUME NEW i \in 0..h - 1, NEW j \in Int, j = i + q
      PROVE  r[i] = LaneAt(V, m, j)
  <2> DEFINE e == h + i
  <2>1. e \in 0..n - 1 /\ j = e + p /\ r[i] = a[e]
    BY <1>1, <1>3, <1>4, <1>7
  <2> HIDE DEF e
  <2> QED BY <2>1 DEF Shows
<1> QED BY <1>1, <1>5, <1>6, <1>7 DEF Shows, l, r

LEMMA ShowsItself ==
  ASSUME NEW n, LaneCount(n), NEW d \in Register(n)
  PROVE  Bank(d, n) /\ Shows(d, n, d, n, 0)
<1>1. n \in Nat /\ DOMAIN d = 0..n - 1 /\ \A i \in 0..n - 1 : d[i] \in Word
  BY LaneFacts DEF LaneCount
<1>2. \A i \in 0..n - 1, j \in Int : j = i + 0 => d[i] = LaneAt(d, n, j)
  BY DEF LaneAt
<1> QED BY <1>1, <1>2 DEF Bank, Shows

(* The two registers of an alignment.                                      *)
LEMMA ShowsBeside ==
  ASSUME NEW n, LaneCount(n), NEW d \in Register(n), NEW s \in Register(n)
  PROVE  /\ Bank(Beside(s, d), 2 * n) /\ 2 * n \in Nat
         /\ Shows(s, n, Beside(s, d), 2 * n, 0) /\ Shows(d, n, Beside(s, d), 2 * n, n)
<1> DEFINE V == Beside(s, d)
           m == 2 * n
<1>1. n \in Nat /\ m \in Nat /\ Count(d) = n /\ \A i \in 0..n - 1 : d[i] \in Word
  BY LaneFacts DEF LaneCount
<1>2. \A i \in 0..n - 1 : s[i] \in Word
  BY LaneFacts
<1>3. V = [i \in 0..m - 1 |-> IF i < n THEN s[i] ELSE d[i - n]]
  BY <1>1 DEF Beside
<1> HIDE DEF V
<1>4. \A i \in 0..m - 1 : (i < n => i \in 0..n - 1) /\ (~(i < n) => i - n \in 0..n - 1)
  BY <1>1
<1> HIDE DEF m
<1>5. Bank(V, m)
  BY <1>1, <1>2, <1>3, <1>4 DEF Bank
<1>6. ASSUME NEW i \in 0..n - 1, NEW j \in Int, j = i + 0
      PROVE  s[i] = LaneAt(V, m, j)
  <2>1. j = i /\ j \in 0..m - 1 /\ j < n
    BY <1>1, <1>6 DEF m
  <2> QED BY <1>3, <2>1 DEF LaneAt
<1>7. ASSUME NEW i \in 0..n - 1, NEW j \in Int, j = i + n
      PROVE  d[i] = LaneAt(V, m, j)
  <2>1. j \in 0..m - 1 /\ ~(j < n) /\ j - n = i
    BY <1>1, <1>7 DEF m
  <2>2. V[j] = d[j - n]
    BY <1>3, <2>1
  <2>3. LaneAt(V, m, j) = V[j]
    BY <2>1 DEF LaneAt
  <2> QED BY <2>1, <2>2, <2>3
<1> QED BY <1>1, <1>5, <1>6, <1>7 DEF Shows, V, m

LEMMA MovedLeft ==
  ASSUME NEW n, LaneCount(n), NEW d \in Register(n), NEW c \in Nat
  PROVE  NativePslldq(d, c) = Pslldq(d, c) /\ Pslldq(d, c) \in Register(n)
<1> DEFINE h == n \div 2
           v == Pslldq(d, c)
           p == -c
           q == h - c
           o == 0
<1>1. h \in Nat \ {0} /\ n = 2 * h /\ HalfOf(d) = h /\ Count(d) = n /\ n \in Nat \ {0}
  BY HalfFacts, LaneFacts
<1>2. Bank(d, n) /\ Shows(d, n, d, n, o)
  BY ShowsItself
<1>3. h = n \div 2 /\ o \in Int /\ h = o + h
  BY <1>1
<1> HIDE DEF h
<1>4. p \in Int /\ q \in Int /\ q = p + h
  BY <1>1
<1>5. Shows(Lo(d), h, d, n, o) /\ Shows(Hi(d), h, d, n, h)
  <2> HIDE DEF o
  <2> QED BY <1>2, <1>3, HalvesShow
<1>6. Shows(v, n, d, n, p)
  <2>1. CASE c >= 2 * h
    <3>1. v = Zeros(n)
      BY <1>1, <2>1 DEF Pslldq
    <3>2. p + n <= 0
      BY <1>1, <2>1
    <3> HIDE DEF p
    <3> QED BY <1>1, <1>2, <1>4, <3>1, <3>2, Outside
  <2>2. CASE c >= h /\ ~(c >= 2 * h)
    <3> DEFINE k == c - h
    <3>1. v = Xmm(Zeros(h), Left(Lo(d), k))
      BY <1>1, <2>2 DEF Pslldq
    <3>2. k \in Nat /\ q = -k /\ p + h <= 0
      BY <1>1, <2>2
    <3> HIDE DEF p, q, k
    <3>3. Shows(Zeros(h), h, d, n, p)
      BY <1>1, <1>2, <1>4, <3>2, Outside
    <3>4. Shows(Left(Lo(d), k), h, d, n, q)
      BY <1>1, <1>2, <1>5, <3>2, Beginning
    <3> QED BY <1>1, <1>2, <1>4, <3>1, <3>3, <3>4, TwoHalves
  <2>3. CASE ~(c >= h)
    <3> DEFINE k == h - c
    <3>1. v = Xmm(Left(Lo(d), c), Both(Left(Hi(d), c), Right(Lo(d), k)))
      BY <1>1, <2>3 DEF Pslldq
    <3>2. k \in 0..h /\ c = h - k /\ q = o + k
      BY <1>1, <2>3
    <3> HIDE DEF q, k
    <3>3. Shows(Left(Lo(d), c), h, d, n, p)
      BY <1>1, <1>2, <1>5, Beginning
    <3> HIDE DEF p, o
    <3>4. Shows(Both(Left(Hi(d), c), Right(Lo(d), k)), h, d, n, q)
      BY <1>1, <1>2, <1>3, <1>5, <3>2, Straddling
    <3> QED BY <1>1, <1>2, <1>4, <3>1, <3>3, <3>4, TwoHalves
  <2> QED BY <2>1, <2>2, <2>3
<1>7. NativePslldq(d, c) = Window(d, p, n)
  BY <1>1 DEF NativePslldq
<1> HIDE DEF p, v
<1>8. Shows(Window(d, p, n), n, d, n, p)
  BY <1>1, <1>2, <1>4, ShownWindow
<1>9. v = Window(d, p, n)
  BY <1>1, <1>6, <1>8, ShownOnce
<1> QED BY <1>6, <1>7, <1>9 DEF Shows, v

LEMMA MovedRight ==
  ASSUME NEW n, LaneCount(n), NEW d \in Register(n), NEW c \in Nat
  PROVE  NativePsrldq(d, c) = Psrldq(d, c) /\ Psrldq(d, c) \in Register(n)
<1> DEFINE h == n \div 2
           v == Psrldq(d, c)
           q == c + h
           o == 0
<1>1. h \in Nat \ {0} /\ n = 2 * h /\ HalfOf(d) = h /\ Count(d) = n /\ n \in Nat \ {0}
  BY HalfFacts, LaneFacts
<1>2. Bank(d, n) /\ Shows(d, n, d, n, o)
  BY ShowsItself
<1>3. h = n \div 2 /\ o \in Int /\ h = o + h /\ h + h = n /\ h \in Int
  BY <1>1
<1> HIDE DEF h
<1>4. c \in Int /\ q \in Int /\ q = c + h
  BY <1>1
<1>5. Shows(Lo(d), h, d, n, o) /\ Shows(Hi(d), h, d, n, h)
  <2> HIDE DEF o
  <2> QED BY <1>2, <1>3, HalvesShow
<1>6. Shows(v, n, d, n, c)
  <2>1. CASE c >= 2 * h
    <3>1. v = Zeros(n) /\ c >= n
      BY <1>1, <2>1 DEF Psrldq
    <3> QED BY <1>1, <1>2, <1>4, <3>1, Outside
  <2>2. CASE c >= h /\ ~(c >= 2 * h)
    <3> DEFINE k == c - h
    <3>1. v = Xmm(Right(Hi(d), k), Zeros(h))
      BY <1>1, <2>2 DEF Psrldq
    <3>2. k \in Nat /\ c = h + k /\ q >= n
      BY <1>1, <2>2
    <3> HIDE DEF q, k
    <3>3. Shows(Zeros(h), h, d, n, q)
      BY <1>1, <1>2, <1>4, <3>2, Outside
    <3>4. Shows(Right(Hi(d), k), h, d, n, c)
      BY <1>1, <1>2, <1>3, <1>5, <3>2, Ending
    <3> QED BY <1>1, <1>2, <1>4, <3>1, <3>3, <3>4, TwoHalves
  <2>3. CASE ~(c >= h)
    <3> DEFINE k == h - c
    <3>1. v = Xmm(Both(Right(Lo(d), c), Left(Hi(d), k)), Right(Hi(d), c))
      BY <1>1, <2>3 DEF Psrldq
    <3>2. c \in 0..h /\ k = h - c /\ c = o + c /\ q = h + c
      BY <1>1, <2>3
    <3> HIDE DEF q, k, o
    <3>3. Shows(Right(Hi(d), c), h, d, n, q)
      BY <1>1, <1>2, <1>3, <1>5, <3>2, Ending
    <3>4. Shows(Both(Right(Lo(d), c), Left(Hi(d), k)), h, d, n, c)
      BY <1>1, <1>2, <1>3, <1>5, <3>2, Straddling
    <3> QED BY <1>1, <1>2, <1>4, <3>1, <3>3, <3>4, TwoHalves
  <2> QED BY <2>1, <2>2, <2>3
<1>7. NativePsrldq(d, c) = Window(d, c, n)
  BY <1>1 DEF NativePsrldq
<1> HIDE DEF v
<1>8. Shows(Window(d, c, n), n, d, n, c)
  BY <1>1, <1>2, <1>4, ShownWindow
<1>9. v = Window(d, c, n)
  BY <1>1, <1>6, <1>8, ShownOnce
<1> QED BY <1>6, <1>7, <1>9 DEF Shows, v

LEMMA AlignedHalves ==
  ASSUME NEW n, LaneCount(n), NEW d \in Register(n), NEW s \in Register(n), NEW c \in Nat
  PROVE  NativePalignr(d, s, c) = Palignr64(d, s, c) /\ Palignr64(d, s, c) \in Register(n)
<1> DEFINE v == Palignr64(d, s, c)
           V == Beside(s, d)
           m == 2 * n
           o == 0
<1>1. n \in Nat \ {0} /\ Lanes(d) = n /\ Count(d) = n /\ c \in Int
  <2>1. n \in Nat \ {0}
    BY DEF LaneCount
  <2> QED BY <2>1, LaneFacts
<1>2. Bank(V, m) /\ m \in Nat /\ Shows(s, n, V, m, o) /\ Shows(d, n, V, m, n)
  BY ShowsBeside
<1> HIDE DEF V
<1>3. n \in Int /\ o \in Int /\ n = o + n /\ n + n = m
  BY <1>1
<1>4. Shows(v, n, V, m, c)
  <2>1. CASE c = 0
    <3>1. v = s
      BY <2>1 DEF Palignr64
    <3> QED BY <1>2, <2>1, <3>1
  <2>2. CASE c # 0 /\ c >= 2 * n
    <3>1. v = Zeros(n)
      BY <1>1, <2>2 DEF Palignr64
    <3>2. c >= m
      BY <2>2
    <3> HIDE DEF m
    <3> QED BY <1>1, <1>2, <3>1, <3>2, Outside
  <2>3. CASE c # 0 /\ ~(c >= 2 * n) /\ c >= n
    <3> DEFINE k == c - n
    <3>1. v = Right(d, k)
      BY <1>1, <2>3 DEF Palignr64
    <3>2. k \in Nat /\ c = n + k
      BY <1>1, <2>3
    <3> HIDE DEF k, m
    <3> QED BY <1>1, <1>2, <1>3, <3>1, <3>2, Ending
  <2>4. CASE c # 0 /\ ~(c >= n)
    <3> DEFINE k == n - c
    <3>1. v = Both(Right(s, c), Left(d, k))
      BY <1>1, <2>4 DEF Palignr64
    <3>2. c \in 0..n /\ k = n - c /\ c = o + c
      BY <1>1, <2>4
    <3> HIDE DEF k, m, o
    <3> QED BY <1>1, <1>2, <1>3, <3>1, <3>2, Straddling
  <2> QED BY <2>1, <2>2, <2>3, <2>4
<1>5. NativePalignr(d, s, c) = Window(V, c, n)
  BY <1>1 DEF NativePalignr, V
<1> HIDE DEF v, m
<1>6. Shows(Window(V, c, n), n, V, m, c)
  BY <1>1, <1>2, ShownWindow
<1>7. v = Window(V, c, n)
  BY <1>1, <1>4, <1>6, ShownOnce
<1> QED BY <1>4, <1>5, <1>7 DEF Shows, v

(* The eight cases of an XMM register.                                     *)
LEMMA AlignedRegisters ==
  ASSUME NEW n, LaneCount(n), NEW d \in Register(n), NEW s \in Register(n), NEW c \in Nat
  PROVE  NativePalignr(d, s, c) = Palignr128(d, s, c) /\ Palignr128(d, s, c) \in Register(n)
<1> DEFINE v == Palignr128(d, s, c)
           V == Beside(s, d)
           m == 2 * n
           h == n \div 2
           h2 == 2 * h
           h3 == 3 * h
           q == c + h
           o == 0
<1>1. n \in Nat \ {0} /\ n = h2 /\ h \in Nat \ {0} /\ HalfOf(d) = h /\ Count(d) = n /\ c \in Int
  <2>1. n \in Nat \ {0}
    BY DEF LaneCount
  <2> QED BY <2>1, LaneFacts, HalfFacts
<1>2. Bank(V, m) /\ m \in Nat /\ Shows(s, n, V, m, o) /\ Shows(d, n, V, m, n)
  BY ShowsBeside
<1> HIDE DEF V
<1>3. /\ h = n \div 2 /\ o \in Int /\ n \in Int /\ h \in Int /\ h2 \in Int /\ h3 \in Int /\ q \in Int
      /\ h = o + h /\ h2 = h + h /\ h3 = h2 + h /\ h3 = n + h /\ h3 + h = m /\ h2 = n /\ q = c + h
  BY <1>1
<1>4. /\ Shows(Lo(s), h, V, m, o) /\ Shows(Hi(s), h, V, m, h)
      /\ Shows(Lo(d), h, V, m, h2) /\ Shows(Hi(d), h, V, m, h3)
  <2> HIDE DEF h, h2, h3, o, m
  <2>1. Shows(Lo(s), h, V, m, o) /\ Shows(Hi(s), h, V, m, h)
    BY <1>2, <1>3, HalvesShow
  <2>2. Shows(Lo(d), h, V, m, n) /\ Shows(Hi(d), h, V, m, h3)
    BY <1>2, <1>3, HalvesShow
  <2> QED BY <1>3, <2>1, <2>2
<1> HIDE DEF h
<1>5. Shows(v, n, V, m, c)
  <2>1. CASE c = 0
    <3>1. /\ ~(c >= 4 * h) /\ c \notin 3 * h..4 * h - 1 /\ c \notin 2 * h + 1..3 * h - 1
          /\ c # 2 * h /\ c \notin h + 1..2 * h - 1 /\ c # h /\ c \notin 1..h - 1
      BY <1>1, <2>1
    <3>2. v = s
      BY <1>1, <2>1, <3>1 DEF Palignr128
    <3> QED BY <1>2, <2>1, <3>2
  <2>2. CASE c >= 4 * h
    <3>1. c # 0 /\ c >= m
      BY <1>1, <2>2
    <3>2. v = Zeros(n)
      BY <1>1, <2>2, <3>1 DEF Palignr128
    <3> HIDE DEF m
    <3> QED BY <1>1, <1>2, <3>1, <3>2, Outside
  <2>3. CASE c \in 3 * h..4 * h - 1
    <3> DEFINE k == c - 3 * h
    <3>1. c # 0 /\ ~(c >= 4 * h) /\ k \in Nat /\ c = h3 + k /\ q >= m
      BY <1>1, <2>3
    <3>2. v = Xmm(Right(Hi(d), k), Zeros(h))
      BY <1>1, <2>3, <3>1 DEF Palignr128
    <3> HIDE DEF k, m, q, h2, h3, o
    <3>3. Shows(Right(Hi(d), k), h, V, m, c)
      BY <1>1, <1>2, <1>3, <1>4, <3>1, Ending
    <3>4. Shows(Zeros(h), h, V, m, q)
      BY <1>1, <1>2, <1>3, <3>1, Outside
    <3>5. Shows(Xmm(Right(Hi(d), k), Zeros(h)), 2 * h, V, m, c)
      BY <1>1, <1>2, <1>3, <3>3, <3>4, TwoHalves
    <3> QED BY <1>1, <3>2, <3>5 DEF h2
  <2>4. CASE c \in 2 * h + 1..3 * h - 1
    <3> DEFINE k == c - 2 * h
               l == 3 * h - c
    <3>1. /\ c # 0 /\ ~(c >= 4 * h) /\ c \notin 3 * h..4 * h - 1
          /\ k \in 0..h /\ k \in Nat /\ l = h - k /\ c = h2 + k /\ q = h3 + k
      BY <1>1, <2>4
    <3>2. v = Xmm(Both(Right(Lo(d), k), Left(Hi(d), l)), Right(Hi(d), k))
      BY <1>1, <2>4, <3>1 DEF Palignr128
    <3> HIDE DEF k, l, m, q, h2, h3, o
    <3>3. Shows(Both(Right(Lo(d), k), Left(Hi(d), l)), h, V, m, c)
      BY <1>1, <1>2, <1>3, <1>4, <3>1, Straddling
    <3>4. Shows(Right(Hi(d), k), h, V, m, q)
      BY <1>1, <1>2, <1>3, <1>4, <3>1, Ending
    <3>5. Shows(v, 2 * h, V, m, c)
      BY <1>1, <1>2, <1>3, <3>2, <3>3, <3>4, TwoHalves
    <3> QED BY <1>1, <3>5 DEF h2
  <2>5. CASE c = 2 * h
    <3>1. /\ c # 0 /\ ~(c >= 4 * h) /\ c \notin 3 * h..4 * h - 1 /\ c \notin 2 * h + 1..3 * h - 1
          /\ c = n
      BY <1>1, <2>5
    <3>2. v = d
      BY <1>1, <2>5, <3>1 DEF Palignr128
    <3> QED BY <1>2, <3>1, <3>2
  <2>6. CASE c \in h + 1..2 * h - 1
    <3> DEFINE k == c - h
               l == 2 * h - c
    <3>1. /\ c # 0 /\ ~(c >= 4 * h) /\ c \notin 3 * h..4 * h - 1 /\ c \notin 2 * h + 1..3 * h - 1
          /\ c # 2 * h
          /\ k \in 0..h /\ l = h - k /\ c = h + k /\ q = h2 + k
      BY <1>1, <2>6
    <3>2. v = Xmm(Both(Right(Hi(s), k), Left(Lo(d), l)), Both(Right(Lo(d), k), Left(Hi(d), l)))
      BY <1>1, <2>6, <3>1 DEF Palignr128
    <3> HIDE DEF k, l, m, q, h2, h3, o
    <3>3. Shows(Both(Right(Hi(s), k), Left(Lo(d), l)), h, V, m, c)
      BY <1>1, <1>2, <1>3, <1>4, <3>1, Straddling
    <3>4. Shows(Both(Right(Lo(d), k), Left(Hi(d), l)), h, V, m, q)
      BY <1>1, <1>2, <1>3, <1>4, <3>1, Straddling
    <3>5. Shows(v, 2 * h, V, m, c)
      BY <1>1, <1>2, <1>3, <3>2, <3>3, <3>4, TwoHalves
    <3> QED BY <1>1, <3>5 DEF h2
  <2>7. CASE c = h
    <3>1. /\ c # 0 /\ ~(c >= 4 * h) /\ c \notin 3 * h..4 * h - 1 /\ c \notin 2 * h + 1..3 * h - 1
          /\ c # 2 * h /\ c \notin h + 1..2 * h - 1 /\ q = h2
      BY <1>1, <2>7
    <3>2. v = Xmm(Hi(s), Lo(d))
      BY <1>1, <2>7, <3>1 DEF Palignr128
    <3> HIDE DEF m, q, h2, h3, o
    <3>3. Shows(Hi(s), h, V, m, c) /\ Shows(Lo(d), h, V, m, q)
      BY <1>4, <2>7, <3>1
    <3>4. Shows(v, 2 * h, V, m, c)
      BY <1>1, <1>2, <1>3, <3>2, <3>3, TwoHalves
    <3> QED BY <1>1, <3>4 DEF h2
  <2>8. CASE c \in 1..h - 1
    <3> DEFINE k == h - c
    <3>1. /\ c # 0 /\ ~(c >= 4 * h) /\ c \notin 3 * h..4 * h - 1 /\ c \notin 2 * h + 1..3 * h - 1
          /\ c # 2 * h /\ c \notin h + 1..2 * h - 1 /\ c # h
          /\ c \in 0..h /\ k = h - c /\ c = o + c /\ q = h + c
      BY <1>1, <2>8
    <3>2. v = Xmm(Both(Right(Lo(s), c), Left(Hi(s), k)), Both(Right(Hi(s), c), Left(Lo(d), k)))
      BY <1>1, <2>8, <3>1 DEF Palignr128
    <3> HIDE DEF k, m, q, h2, h3, o
    <3>3. Shows(Both(Right(Lo(s), c), Left(Hi(s), k)), h, V, m, c)
      BY <1>1, <1>2, <1>3, <1>4, <3>1, Straddling
    <3>4. Shows(Both(Right(Hi(s), c), Left(Lo(d), k)), h, V, m, q)
      BY <1>1, <1>2, <1>3, <1>4, <3>1, Straddling
    <3>5. Shows(v, 2 * h, V, m, c)
      BY <1>1, <1>2, <1>3, <3>2, <3>3, <3>4, TwoHalves
    <3> QED BY <1>1, <3>5 DEF h2
  <2> QED BY <1>1, <2>1, <2>2, <2>3, <2>4, <2>5, <2>6, <2>7, <2>8
<1>6. NativePalignr(d, s, c) = Window(V, c, n)
  BY <1>1 DEF NativePalignr, V
<1> HIDE DEF v, m, h2, h3, q
<1>7. Shows(Window(V, c, n), n, V, m, c)
  BY <1>1, <1>2, ShownWindow
<1>8. v = Window(V, c, n)
  BY <1>1, <1>5, <1>7, ShownOnce
<1> QED BY <1>5, <1>6, <1>8 DEF Shows, v

LEMMA WindowsOfRegisters ==
  ASSUME ConstantsFit, NEW n, LaneCount(n), vdst \in Register(n), vsrc \in Register(n)
  PROVE  WindowsAgree
<1> DEFINE d == vdst
           s == vsrc
<1>1. d \in Register(n) /\ s \in Register(n) /\ XmmLanes \in Nat
  BY DEF ConstantsFit
<1>2. ShiftCounts \subseteq Nat /\ LaneCounts \subseteq Nat /\ Alignments \subseteq Nat
  BY <1>1, WidthFacts DEF ShiftCounts, LaneCounts, Alignments
<1> HIDE DEF d, s
<1>3. \A c \in ShiftCounts :
        NativePsll(d, c) = Psll(d, c) /\ NativePsrl(d, c) = Psrl(d, c)
        /\ NativePsra(d, c) = Psra(d, c)
  BY <1>1, <1>2, EachShift
<1>4. \A c \in LaneCounts : NativePslldq(d, c) = Pslldq(d, c) /\ NativePsrldq(d, c) = Psrldq(d, c)
  BY <1>1, <1>2, MovedLeft, MovedRight
<1>5. \A c \in Alignments : /\ NativePalignr(d, s, c) = Palignr64(d, s, c)
                            /\ NativePalignr(d, s, c) = Palignr128(d, s, c)
  BY <1>1, <1>2, AlignedHalves, AlignedRegisters
<1> QED BY <1>3, <1>4, <1>5 DEF WindowsAgree, d, s

-----------------------------------------------------------------------------
(* Shuffles.                                                               *)

LEMMA BesideAt ==
  ASSUME NEW n, LaneCount(n), NEW d \in Register(n), NEW s \in Register(n)
  PROVE  /\ \A j \in 0..n - 1 : Beside(d, s)[j] = d[j]
         /\ \A j \in 0..n - 1 : \A k : k = j + n => Beside(d, s)[k] = s[j]
<1>1. n \in Nat /\ Count(s) = n
  BY LaneFacts DEF LaneCount
<1>2. Beside(d, s) = [i \in 0..2 * n - 1 |-> IF i < n THEN d[i] ELSE s[i - n]]
  BY <1>1 DEF Beside
<1> DEFINE V == Beside(d, s)
<1> HIDE DEF V
<1>3. V = [i \in 0..2 * n - 1 |-> IF i < n THEN d[i] ELSE s[i - n]]
  BY <1>2 DEF V
<1>4. ASSUME NEW j \in 0..n - 1 PROVE V[j] = d[j]
  <2>1. j \in 0..2 * n - 1 /\ j < n
    BY <1>1
  <2> QED BY <1>3, <2>1
<1>5. ASSUME NEW j \in 0..n - 1, NEW k, k = j + n PROVE V[k] = s[j]
  <2>1. k \in 0..2 * n - 1 /\ ~(k < n) /\ k - n = j
    BY <1>1, <1>5
  <2> QED BY <1>3, <2>1
<1> QED BY <1>4, <1>5 DEF V

(* A register is known by its lanes.                                       *)
LEMMA SameLanes ==
  ASSUME NEW n, NEW f, NEW g, f = [i \in 0..n - 1 |-> f[i]], g = [i \in 0..n - 1 |-> g[i]],
         \A i \in 0..n - 1 : f[i] = g[i] /\ g[i] \in Word
  PROVE  f = g /\ g \in Register(n)
BY DEF Register

LEMMA Unpacks ==
  ASSUME NEW n, LaneCount(n), NEW d \in Register(n), NEW s \in Register(n)
  PROVE  /\ NativePunpckl(d, s) = Punpckl(d, s) /\ Punpckl(d, s) \in Register(n)
         /\ NativePunpckh(d, s) = Punpckh(d, s) /\ Punpckh(d, s) \in Register(n)
<1> DEFINE h == n \div 2
           V == Beside(d, s)
<1>1. n \in Nat /\ h \in Nat \ {0} /\ n = 2 * h
  BY HalfFacts DEF LaneCount
<1>2. DOMAIN d = 0..n - 1 /\ Count(d) = n /\ HalfOf(d) = h
  BY LaneFacts
<1>3. \A i \in 0..n - 1 : d[i] \in Word /\ s[i] \in Word
  BY <1>2, EachLane
<1>4. /\ \A j \in 0..n - 1 : V[j] = d[j]
      /\ \A j \in 0..n - 1 : \A k : k = j + n => V[k] = s[j]
  BY BesideAt
<1> HIDE DEF V, h
<1>5. NativePunpckl(d, s) = Punpckl(d, s) /\ Punpckl(d, s) \in Register(n)
  <2> DEFINE f == [i \in 0..n - 1 |-> V[i \div 2 + (i % 2) * n]]
             g == [i \in 0..n - 1 |-> IF i % 2 = 0 THEN d[i \div 2] ELSE s[i \div 2]]
  <2>1. NativePunpckl(d, s) = f /\ Punpckl(d, s) = g
    BY <1>2 DEF NativePunpckl, Punpckl, Picked, V
  <2>2. ASSUME NEW i \in 0..n - 1 PROVE f[i] = g[i] /\ g[i] \in Word
    <3> DEFINE j == i \div 2
               k == i \div 2 + (i % 2) * n
    <3>1. j \in 0..n - 1 /\ (i % 2 = 0 => k = j) /\ (i % 2 # 0 => k = j + n)
      <4>1. i % 2 = 0 \/ i % 2 = 1
        BY <1>1
      <4> QED BY <1>1, <4>1
    <3>2. f[i] = V[k] /\ g[i] = IF i % 2 = 0 THEN d[j] ELSE s[j]
      OBVIOUS
    <3> HIDE DEF f, g, j, k
    <3> QED BY <1>3, <1>4, <3>1, <3>2
  <2>3. f = [i \in 0..n - 1 |-> f[i]] /\ g = [i \in 0..n - 1 |-> g[i]]
    OBVIOUS
  <2> HIDE DEF f, g
  <2>4. f = g /\ g \in Register(n)
    BY <2>2, <2>3, SameLanes
  <2> QED BY <2>1, <2>4
<1>6. NativePunpckh(d, s) = Punpckh(d, s) /\ Punpckh(d, s) \in Register(n)
  <2> DEFINE f == [i \in 0..n - 1 |-> V[(n + i) \div 2 + (i % 2) * n]]
             g == [i \in 0..n - 1 |-> IF i % 2 = 0 THEN d[h + i \div 2] ELSE s[h + i \div 2]]
  <2>1. NativePunpckh(d, s) = f /\ Punpckh(d, s) = g
    BY <1>2 DEF NativePunpckh, Punpckh, Picked, V
  <2>2. ASSUME NEW i \in 0..n - 1 PROVE f[i] = g[i] /\ g[i] \in Word
    <3> DEFINE j == h + i \div 2
               k == (n + i) \div 2 + (i % 2) * n
    <3>1. j \in 0..n - 1 /\ (i % 2 = 0 => k = j) /\ (i % 2 # 0 => k = j + n)
      <4>1. i % 2 = 0 \/ i % 2 = 1
        BY <1>1
      <4>2. (n + i) \div 2 = j
        BY <1>1
      <4>3. j \in 0..n - 1
        BY <1>1
      <4> QED BY <1>1, <4>1, <4>2, <4>3
    <3>2. f[i] = V[k] /\ g[i] = IF i % 2 = 0 THEN d[j] ELSE s[j]
      OBVIOUS
    <3> HIDE DEF f, g, j, k
    <3> QED BY <1>3, <1>4, <3>1, <3>2
  <2>3. f = [i \in 0..n - 1 |-> f[i]] /\ g = [i \in 0..n - 1 |-> g[i]]
    OBVIOUS
  <2> HIDE DEF f, g
  <2>4. f = g /\ g \in Register(n)
    BY <2>2, <2>3, SameLanes
  <2> QED BY <2>1, <2>4
<1> QED BY <1>5, <1>6

(* A shuffle by an order of the lanes.                                     *)
Ordered(o, n) == \A i \in 0..n - 1 : o[i] \in 0..n - 1

LEMMA OrderedShuffles ==
  ASSUME NEW n, LaneCount(n), NEW d \in Register(n), NEW s \in Register(n),
         NEW o, Ordered(o, n)
  PROVE  /\ NativeShufps(d, s, o) = Shufps(d, s, o) /\ Shufps(d, s, o) \in Register(n)
         /\ NativePshufd(s, o) = Pshufd(s, o) /\ Pshufd(s, o) \in Register(n)
<1> DEFINE h == n \div 2
           V == Beside(d, s)
           W == Beside(s, s)
<1>1. n \in Nat /\ h \in Nat \ {0} /\ n = 2 * h
  BY HalfFacts DEF LaneCount
<1>2. DOMAIN d = 0..n - 1 /\ Count(d) = n /\ HalfOf(d) = h
  BY LaneFacts
<1>3. DOMAIN s = 0..n - 1 /\ \A i \in 0..n - 1 : d[i] \in Word /\ s[i] \in Word
  BY <1>2, EachLane
<1>4. /\ \A j \in 0..n - 1 : V[j] = d[j]
      /\ \A j \in 0..n - 1 : \A k : k = j + n => V[k] = s[j]
  BY BesideAt
<1>5. \A j \in 0..n - 1 : W[j] = s[j]
  BY BesideAt
<1> HIDE DEF V, W, h
<1>6. NativeShufps(d, s, o) = Shufps(d, s, o) /\ Shufps(d, s, o) \in Register(n)
  <2> DEFINE f == [i \in 0..n - 1 |-> V[o[i] + IF 2 * i < n THEN 0 ELSE n]]
             g == [i \in 0..n - 1 |-> IF i < h THEN d[o[i]] ELSE s[o[i]]]
  <2>1. NativeShufps(d, s, o) = f /\ Shufps(d, s, o) = g
    BY <1>2 DEF NativeShufps, Shufps, Picked, V
  <2>2. ASSUME NEW i \in 0..n - 1 PROVE f[i] = g[i] /\ g[i] \in Word
    <3> DEFINE j == o[i]
               k == o[i] + IF 2 * i < n THEN 0 ELSE n
    <3>1. j \in 0..n - 1
      BY DEF Ordered
    <3>2. (i < h => k = j) /\ (~(i < h) => k = j + n)
      BY <1>1, <3>1
    <3>3. f[i] = V[k] /\ g[i] = IF i < h THEN d[j] ELSE s[j]
      OBVIOUS
    <3> HIDE DEF f, g, j, k
    <3> QED BY <1>3, <1>4, <3>1, <3>2, <3>3
  <2>3. f = [i \in 0..n - 1 |-> f[i]] /\ g = [i \in 0..n - 1 |-> g[i]]
    OBVIOUS
  <2> HIDE DEF f, g
  <2>4. f = g /\ g \in Register(n)
    BY <2>2, <2>3, SameLanes
  <2> QED BY <2>1, <2>4
<1>7. NativePshufd(s, o) = Pshufd(s, o) /\ Pshufd(s, o) \in Register(n)
  <2> DEFINE f == [i \in 0..n - 1 |-> W[o[i]]]
             g == [i \in 0..n - 1 |-> s[o[i]]]
  <2>1. NativePshufd(s, o) = f /\ Pshufd(s, o) = g
    BY <1>3 DEF NativePshufd, Pshufd, Picked, W
  <2>2. ASSUME NEW i \in 0..n - 1 PROVE f[i] = g[i] /\ g[i] \in Word
    <3>1. o[i] \in 0..n - 1
      BY DEF Ordered
    <3> QED BY <1>3, <1>5, <3>1
  <2>3. f = [i \in 0..n - 1 |-> f[i]] /\ g = [i \in 0..n - 1 |-> g[i]]
    OBVIOUS
  <2> HIDE DEF f, g
  <2>4. f = g /\ g \in Register(n)
    BY <2>2, <2>3, SameLanes
  <2> QED BY <2>1, <2>4
<1> QED BY <1>6, <1>7

(* A shuffle of one half by an order of its lanes.                         *)
LEMMA HalfShuffles ==
  ASSUME NEW n, LaneCount(n), NEW s \in Register(n), NEW h, h = n \div 2,
         NEW o, Ordered(o, h)
  PROVE  /\ NativePshuflw(s, o) = Pshuflw(s, o) /\ Pshuflw(s, o) \in Register(n)
         /\ NativePshufhw(s, o) = Pshufhw(s, o) /\ Pshufhw(s, o) \in Register(n)
<1> DEFINE W == Beside(s, s)
<1>1. n \in Nat /\ h \in Nat \ {0} /\ n = 2 * h
  BY HalfFacts DEF LaneCount
<1>2. DOMAIN s = 0..n - 1 /\ Count(s) = n /\ HalfOf(s) = h /\ \A i \in 0..n - 1 : s[i] \in Word
  BY LaneFacts
<1>3. \A j \in 0..n - 1 : W[j] = s[j]
  BY BesideAt
<1> HIDE DEF W
<1>4. NativePshuflw(s, o) = Pshuflw(s, o) /\ Pshuflw(s, o) \in Register(n)
  <2> DEFINE f == [i \in 0..n - 1 |-> W[IF 2 * i < n THEN o[i] ELSE i]]
             g == [i \in 0..n - 1 |-> IF i < h THEN s[o[i]] ELSE s[i]]
  <2>1. NativePshuflw(s, o) = f /\ Pshuflw(s, o) = g
    BY <1>2 DEF NativePshuflw, Pshuflw, Picked, W
  <2>2. ASSUME NEW i \in 0..n - 1 PROVE f[i] = g[i] /\ g[i] \in Word
    <3>1. (2 * i < n <=> i < h) /\ (i < h => i \in 0..h - 1)
      BY <1>1
    <3>2. i < h => o[i] \in 0..n - 1
      BY <1>1, <3>1 DEF Ordered
    <3> QED BY <1>2, <1>3, <3>1, <3>2
  <2>3. f = [i \in 0..n - 1 |-> f[i]] /\ g = [i \in 0..n - 1 |-> g[i]]
    OBVIOUS
  <2> HIDE DEF f, g
  <2>4. f = g /\ g \in Register(n)
    BY <2>2, <2>3, SameLanes
  <2> QED BY <2>1, <2>4
<1>5. NativePshufhw(s, o) = Pshufhw(s, o) /\ Pshufhw(s, o) \in Register(n)
  <2> DEFINE f == [i \in 0..n - 1 |-> W[IF i < h THEN i ELSE h + o[i - h]]]
             g == [i \in 0..n - 1 |-> IF i < h THEN s[i] ELSE s[h + o[i - h]]]
  <2>1. NativePshufhw(s, o) = f /\ Pshufhw(s, o) = g
    BY <1>2 DEF NativePshufhw, Pshufhw, Picked, W
  <2>2. ASSUME NEW i \in 0..n - 1 PROVE f[i] = g[i] /\ g[i] \in Word
    <3> DEFINE j == i - h
               k == h + o[j]
    <3>1. ~(i < h) => j \in 0..h - 1
      BY <1>1
    <3> HIDE DEF j
    <3>2. ~(i < h) => k \in 0..n - 1
      BY <1>1, <3>1 DEF Ordered
    <3>3. f[i] = W[IF i < h THEN i ELSE k] /\ g[i] = IF i < h THEN s[i] ELSE s[k]
      BY DEF j
    <3> HIDE DEF k, f, g
    <3> QED BY <1>2, <1>3, <3>2, <3>3
  <2>3. f = [i \in 0..n - 1 |-> f[i]] /\ g = [i \in 0..n - 1 |-> g[i]]
    OBVIOUS
  <2> HIDE DEF f, g
  <2>4. f = g /\ g \in Register(n)
    BY <2>2, <2>3, SameLanes
  <2> QED BY <2>1, <2>4
<1> QED BY <1>4, <1>5

(* Selections that clear lanes; the cleared lanes are those of a register  *)
(* of zeros beside the first.                                              *)
LEMMA ZeroLanes ==
  ASSUME NEW n, LaneCount(n), NEW d \in Register(n)
  PROVE  /\ Zeros(n) \in Register(n) /\ [i \in DOMAIN d |-> 0] = Zeros(n)
         /\ \A i \in 0..n - 1 : Zeros(n)[i] = 0
<1>1. 0 \in Word /\ DOMAIN d = 0..n - 1
  BY WidthFacts, LaneFacts
<1> QED BY <1>1 DEF Zeros, Register

LEMMA Clearing ==
  ASSUME NEW n, LaneCount(n), NEW d \in Register(n), NEW s \in Register(n)
  PROVE  NativePshufb(d, s) = Pshufb(d, s) /\ Pshufb(d, s) \in Register(n)
<1> DEFINE z == Zeros(n)
           V == Beside(d, z)
           f == [i \in 0..n - 1 |-> V[IF Signed(s[i]) < 0 THEN n ELSE s[i] % n]]
           g == [i \in 0..n - 1 |-> IF Negative(s[i]) THEN 0 ELSE d[s[i] % n]]
<1>1. n \in Nat \ {0} /\ DOMAIN d = 0..n - 1 /\ Count(d) = n /\ Lanes(d) = n
  BY LaneFacts DEF LaneCount
<1>2. DOMAIN s = 0..n - 1 /\ 0 \in Word /\ \A i \in 0..n - 1 : d[i] \in Word /\ s[i] \in Word
  BY <1>1, EachLane, WidthFacts
<1>3. z \in Register(n) /\ [i \in DOMAIN d |-> 0] = z /\ \A i \in 0..n - 1 : z[i] = 0
  BY ZeroLanes
<1>4. NativePshufb(d, s) = f
  BY <1>1, <1>3 DEF NativePshufb, Picked
<1>5. Pshufb(d, s) = g
  BY <1>1 DEF Pshufb
<1> HIDE DEF z
<1>6. /\ \A j \in 0..n - 1 : V[j] = d[j]
      /\ \A j \in 0..n - 1 : \A k : k = j + n => V[k] = z[j]
  BY <1>3, BesideAt
<1> HIDE DEF V
<1>7. V[n] = 0
  <2>1. 0 \in 0..n - 1 /\ n = 0 + n
    BY <1>1
  <2> QED BY <1>3, <1>6, <2>1
<1>8. ASSUME NEW i \in 0..n - 1 PROVE f[i] = g[i] /\ g[i] \in Word
  <2> DEFINE x == s[i]
             j == x % n
  <2>1. x \in Word /\ x \in Int
    BY <1>2, WordNumbers
  <2>2. f[i] = V[IF Signed(x) < 0 THEN n ELSE j] /\ g[i] = IF Negative(x) THEN 0 ELSE d[j]
    OBVIOUS
  <2> HIDE DEF f, g, x
  <2>3. j \in 0..n - 1
    BY <1>1, <2>1
  <2>4. Negative(x) <=> Signed(x) < 0
    BY <2>1, SignedFacts
  <2> HIDE DEF j
  <2> QED BY <1>2, <1>6, <1>7, <2>2, <2>3, <2>4
<1>9. f = [i \in 0..n - 1 |-> f[i]] /\ g = [i \in 0..n - 1 |-> g[i]]
  OBVIOUS
<1> HIDE DEF f, g
<1>10. f = g /\ g \in Register(n)
  BY <1>8, <1>9, SameLanes
<1> QED BY <1>4, <1>5, <1>10

LEMMA Inserting ==
  ASSUME NEW n, LaneCount(n), NEW d \in Register(n), NEW s \in Register(n),
         NEW from \in 0..n - 1, NEW to \in 0..n - 1, NEW zmask
  PROVE  /\ NativeInsertps(d, s, from, to, zmask) = Insertps(d, s, from, to, zmask)
         /\ Insertps(d, s, from, to, zmask) \in Register(n)
<1> DEFINE z == Zeros(n)
           e == [d EXCEPT ![to] = s[from]]
           V == Beside(e, z)
           f == [i \in 0..n - 1 |-> V[IF i \in zmask THEN n ELSE i]]
           g == [i \in 0..n - 1 |-> IF i \in zmask THEN 0 ELSE IF i = to THEN s[from] ELSE d[i]]
<1>1. n \in Nat \ {0} /\ DOMAIN d = 0..n - 1 /\ Count(d) = n /\ d = [i \in 0..n - 1 |-> d[i]]
  BY LaneFacts DEF LaneCount
<1>2. 0 \in Word /\ \A i \in 0..n - 1 : d[i] \in Word /\ s[i] \in Word
  BY <1>1, EachLane, WidthFacts
<1>3. z \in Register(n) /\ [i \in DOMAIN d |-> 0] = z /\ \A i \in 0..n - 1 : z[i] = 0
  BY ZeroLanes
<1>4. e \in Register(n) /\ DOMAIN e = 0..n - 1 /\ \A i \in 0..n - 1 : e[i] = IF i = to THEN s[from] ELSE d[i]
  BY <1>1, <1>2 DEF Register
<1>5. Count(e) = n
  BY <1>4, LaneFacts
<1>6. NativeInsertps(d, s, from, to, zmask) = f
  BY <1>1, <1>3, <1>4, <1>5 DEF NativeInsertps, Picked
<1>7. Insertps(d, s, from, to, zmask) = g
  BY <1>1 DEF Insertps
<1> HIDE DEF z, e
<1>8. /\ \A j \in 0..n - 1 : V[j] = e[j]
      /\ \A j \in 0..n - 1 : \A k : k = j + n => V[k] = z[j]
  <2>1. e \in Register(n) /\ z \in Register(n)
    BY <1>3, <1>4
  <2> QED BY <2>1, BesideAt
<1> HIDE DEF V
<1>9. V[n] = 0
  <2>1. 0 \in 0..n - 1 /\ n = 0 + n
    BY <1>1
  <2> QED BY <1>3, <1>8, <2>1
<1>10. ASSUME NEW i \in 0..n - 1 PROVE f[i] = g[i] /\ g[i] \in Word
  BY <1>2, <1>4, <1>8, <1>9
<1>11. f = [i \in 0..n - 1 |-> f[i]] /\ g = [i \in 0..n - 1 |-> g[i]]
  OBVIOUS
<1> HIDE DEF f, g
<1>12. f = g /\ g \in Register(n)
  BY <1>10, <1>11, SameLanes
<1> QED BY <1>6, <1>7, <1>12

LEMMA SameRemainder ==
  ASSUME NEW n \in Nat \ {0}, NEW at \in Int, NEW i \in 0..n - 1
  PROVE  (at - i) % n = 0 <=> i = at % n
<1> DEFINE q == at \div n
           r == at % n
           e == at - i
           o == 0
<1>1. q \in Int /\ r \in 0..n - 1 /\ at = q * n + r
  OBVIOUS
<1> HIDE DEF q, r
<1>2. o \in 0..n - 1 /\ e \in Int /\ i \in Int /\ r \in Int
  BY <1>1
<1> HIDE DEF o
<1>3. ASSUME i = r PROVE e % n = o
  <2>1. e = q * n + o
    <3>1. q * n \in Int
      BY <1>1
    <3> QED BY <1>1, <1>2, <1>3, <3>1 DEF e, o
  <2> HIDE DEF e
  <2> QED BY <1>1, <1>2, <2>1, Parts
<1>4. ASSUME e % n = o PROVE i = r
  <2> DEFINE k == e \div n
  <2>1. k \in Int /\ e = k * n + o
    <3> HIDE DEF e
    <3> QED BY <1>2, <1>4
  <2> HIDE DEF k
  <2>2. at = k * n + i
    <3>1. k * n \in Int
      BY <2>1
    <3> QED BY <1>1, <1>2, <2>1, <3>1 DEF e, o
  <2>3. at % n = i
    BY <2>1, <2>2, Parts
  <2> QED BY <2>3 DEF r
<1> QED BY <1>3, <1>4 DEF e, o, r

(* One lane put into a register, or taken from it.                         *)
LEMMA OneLane ==
  ASSUME NEW n, LaneCount(n), NEW d \in Register(n), NEW at \in Nat, NEW word \in Word
  PROVE  /\ NativePinsr(d, word, at) = Pinsr(d, word, at)
         /\ Pinsr(d, word, at) \in Register(n)
         /\ NativePextr(d, at) = Pextr(d, at) /\ Pextr(d, at) \in Word
<1> DEFINE r == at % n
           W == Beside(d, d)
<1>1. n \in Nat \ {0} /\ DOMAIN d = 0..n - 1 /\ Count(d) = n /\ Lanes(d) = n /\ d = [i \in 0..n - 1 |-> d[i]]
  BY LaneFacts DEF LaneCount
<1>2. \A i \in 0..n - 1 : d[i] \in Word
  BY <1>1, EachLane
<1>3. r \in 0..n - 1 /\ r \in Int
  BY <1>1
<1>4. ASSUME NEW i \in 0..n - 1 PROVE (at - i) % n = 0 <=> i = r
  <2>1. n \in Nat \ {0} /\ at \in Int
    BY <1>1
  <2> QED BY <2>1, SameRemainder
<1>5. NativePinsr(d, word, at) = Pinsr(d, word, at) /\ Pinsr(d, word, at) \in Register(n)
  <2> DEFINE f == [i \in 0..n - 1 |-> IF (at - i) % n = 0 THEN word ELSE d[i]]
             g == [i \in 0..n - 1 |-> IF i = r THEN word ELSE d[i]]
  <2>1. NativePinsr(d, word, at) = f
    BY <1>1 DEF NativePinsr
  <2>2. Pinsr(d, word, at) = g
    BY <1>1, <1>3 DEF Pinsr
  <2> HIDE DEF r
  <2>3. f = g /\ g \in Register(n)
    BY <1>2, <1>4 DEF Register
  <2> QED BY <2>1, <2>2, <2>3
<1>6. NativePextr(d, at) = Pextr(d, at) /\ Pextr(d, at) \in Word
  <2>1. W[r] = d[r]
    BY <1>3, BesideAt
  <2>2. r \in DOMAIN W /\ 0 + r = r
    BY <1>1, <1>3 DEF Beside
  <2>3. NativePextr(d, at) = Window(W, r, 1)[0]
    BY <1>1 DEF NativePextr
  <2>4. Pextr(d, at) = d[r]
    BY <1>1 DEF Pextr
  <2> HIDE DEF W, r
  <2>5. Window(W, r, 1)[0] = W[r]
    <3>1. 0 \in 0..1 - 1
      OBVIOUS
    <3> QED BY <2>2, <3>1 DEF Window
  <2> QED BY <1>2, <1>3, <2>1, <2>3, <2>4, <2>5
<1> QED BY <1>5, <1>6

(* Lanes that are doubled.                                                 *)
LEMMA Doubling ==
  ASSUME NEW n, LaneCount(n), NEW s \in Register(n)
  PROVE  /\ NativeMovshdup(s) = Movshdup(s) /\ Movshdup(s) \in Register(n)
         /\ NativeMovddup(s) = Movddup(s) /\ Movddup(s) \in Register(n)
<1> DEFINE h == n \div 2
           W == Beside(s, s)
<1>1. n \in Nat /\ h \in Nat \ {0} /\ n = 2 * h
  BY HalfFacts DEF LaneCount
<1>2. DOMAIN s = 0..n - 1 /\ Count(s) = n /\ HalfOf(s) = h /\ \A i \in 0..n - 1 : s[i] \in Word
  BY LaneFacts
<1>3. \A j \in 0..n - 1 : W[j] = s[j]
  BY BesideAt
<1> HIDE DEF W, h
<1>4. NativeMovshdup(s) = Movshdup(s) /\ Movshdup(s) \in Register(n)
  <2> DEFINE f == [i \in 0..n - 1 |-> W[IF i % 2 = 0 THEN i + 1 ELSE i]]
             g == [i \in 0..n - 1 |-> s[2 * (i \div 2) + 1]]
  <2>1. NativeMovshdup(s) = f /\ Movshdup(s) = g
    BY <1>2 DEF NativeMovshdup, Movshdup, Picked, W
  <2>2. ASSUME NEW i \in 0..n - 1 PROVE f[i] = g[i] /\ g[i] \in Word
    <3> DEFINE j == 2 * (i \div 2) + 1
               k == IF i % 2 = 0 THEN i + 1 ELSE i
    <3>1. j \in 0..n - 1 /\ k = j
      BY <1>1
    <3>2. f[i] = W[k] /\ g[i] = s[j]
      OBVIOUS
    <3> HIDE DEF f, g, j, k
    <3> QED BY <1>2, <1>3, <3>1, <3>2
  <2>3. f = [i \in 0..n - 1 |-> f[i]] /\ g = [i \in 0..n - 1 |-> g[i]]
    OBVIOUS
  <2> HIDE DEF f, g
  <2>4. f = g /\ g \in Register(n)
    BY <2>2, <2>3, SameLanes
  <2> QED BY <2>1, <2>4
<1>5. NativeMovddup(s) = Movddup(s) /\ Movddup(s) \in Register(n)
  <2> DEFINE f == [i \in 0..n - 1 |-> W[i % h]]
             l == [i \in 0..h - 1 |-> s[i]]
             g == [i \in 0..n - 1 |-> IF i < h THEN l[i] ELSE l[i - h]]
  <2>1. NativeMovddup(s) = f
    BY <1>2 DEF NativeMovddup, Picked, W, h
  <2>2. Lo(s) = l /\ l \in Register(h)
    BY <1>1, <1>2 DEF Lo, Register
  <2>3. Lanes(l) = h
    BY <1>1, <2>2, HalfLanes
  <2>4. Movddup(s) = g
    BY <1>1, <2>2, <2>3 DEF Movddup, Xmm
  <2>5. ASSUME NEW i \in 0..n - 1 PROVE f[i] = g[i] /\ g[i] \in Word
    <3> DEFINE j == IF i < h THEN i ELSE i - h
               o == IF i < h THEN 0 ELSE 1
    <3>1. j \in 0..h - 1 /\ j \in 0..n - 1 /\ o \in Int /\ i = o * h + j
      BY <1>1
    <3>2. g[i] = s[j] /\ f[i] = W[i % h]
      BY <3>1
    <3> HIDE DEF f, g, j, o
    <3>3. i % h = j
      BY <1>1, <3>1, Parts
    <3> QED BY <1>2, <1>3, <3>1, <3>2, <3>3
  <2>6. f = [i \in 0..n - 1 |-> f[i]] /\ g = [i \in 0..n - 1 |-> g[i]]
    OBVIOUS
  <2> HIDE DEF f, g
  <2>7. f = g /\ g \in Register(n)
    BY <2>5, <2>6, SameLanes
  <2> QED BY <2>1, <2>4, <2>7
<1> QED BY <1>4, <1>5

LEMMA Blends ==
  ASSUME NEW n, LaneCount(n), NEW d \in Register(n), NEW s \in Register(n), NEW m
  PROVE  /\ NativeBlend(d, s, m) = Blend(d, s, m) /\ Blend(d, s, m) \in Register(n)
         /\ m \in Register(n) => /\ NativeBlendv(d, s, m) = Pblendv(d, s, m)
                                 /\ Pblendv(d, s, m) \in Register(n)
<1> DEFINE V == Beside(d, s)
<1>1. DOMAIN d = 0..n - 1 /\ Count(d) = n /\ n \in Nat
  BY LaneFacts DEF LaneCount
<1>2. \A i \in 0..n - 1 : d[i] \in Word /\ s[i] \in Word
  BY <1>1, EachLane
<1>3. /\ \A j \in 0..n - 1 : V[j] = d[j]
      /\ \A j \in 0..n - 1 : \A k : k = j + n => V[k] = s[j]
  BY BesideAt
<1> HIDE DEF V
<1>4. \A S : NativeBlend(d, s, S) = Blend(d, s, S) /\ Blend(d, s, S) \in Register(n)
  <2> SUFFICES ASSUME NEW S PROVE NativeBlend(d, s, S) = Blend(d, s, S) /\ Blend(d, s, S) \in Register(n)
    OBVIOUS
  <2> DEFINE f == [i \in 0..n - 1 |-> V[IF i \in S THEN i + n ELSE i]]
             g == [i \in 0..n - 1 |-> IF i \in S THEN s[i] ELSE d[i]]
  <2>1. NativeBlend(d, s, S) = f /\ Blend(d, s, S) = g
    BY <1>1 DEF NativeBlend, Blend, Picked, V
  <2>2. ASSUME NEW i \in 0..n - 1 PROVE f[i] = g[i] /\ g[i] \in Word
    <3> DEFINE k == IF i \in S THEN i + n ELSE i
    <3>1. f[i] = V[k] /\ (i \in S => k = i + n) /\ (i \notin S => k = i)
      OBVIOUS
    <3>2. g[i] = IF i \in S THEN s[i] ELSE d[i]
      OBVIOUS
    <3> HIDE DEF f, g, k
    <3> QED BY <1>2, <1>3, <3>1, <3>2
  <2>3. f = [i \in 0..n - 1 |-> f[i]] /\ g = [i \in 0..n - 1 |-> g[i]]
    OBVIOUS
  <2> HIDE DEF f, g
  <2>4. f = g /\ g \in Register(n)
    BY <2>2, <2>3, SameLanes
  <2> QED BY <2>1, <2>4
<1>5. ASSUME m \in Register(n)
      PROVE  NativeBlendv(d, s, m) = Pblendv(d, s, m) /\ Pblendv(d, s, m) \in Register(n)
  <2> DEFINE S == {i \in DOMAIN m : Negative(m[i])}
  <2>1. DOMAIN m = 0..n - 1
    BY <1>5 DEF Register
  <2>2. Blend(d, s, S) = Pblendv(d, s, m)
    BY <1>1, <2>1 DEF Blend, Pblendv
  <2>3. NativeBlendv(d, s, m) = NativeBlend(d, s, S)
    BY DEF NativeBlendv
  <2> HIDE DEF S
  <2> QED BY <1>4, <2>2, <2>3
<1> QED BY <1>4, <1>5

(* Two neighbouring lanes are a signed double word.                        *)
LEMMA SignedDoubles ==
  ASSUME NEW x \in Word, NEW y \in Word
  PROVE  /\ SignedDouble(x + Size * y) = x + Size * Signed(y)
         /\ x + Size * Signed(y) \in Int
<1> DEFINE z == Size
           h == Half
           p == z * y
           q == z * h
<1>1. /\ z \in Nat \ {0} /\ h \in Nat \ {0} /\ z = 2 * h /\ x \in Int /\ 0 <= x /\ x < z
      /\ y \in Int /\ 0 <= y /\ y < z /\ Signed(y) = IF y >= h THEN y - z ELSE y
  BY WidthFacts, WordNumbers DEF Size
<1>2. DoubleSize = z * z /\ Half * Size = z * h
  BY WidthFacts DEF DoubleSize
<1> HIDE DEF z, h
<1>3. p \in Int /\ q \in Int /\ z * z \in Int
  BY <1>1
<1>4. CASE y >= h
  <2>1. p >= q
    BY <1>1, <1>4
  <2>2. z * (y - z) = p - z * z
    BY <1>1
  <2>3. x + p >= q
    <3> HIDE DEF p, q
    <3> QED BY <1>1, <1>3, <2>1
  <2>4. SignedDouble(x + p) = (x + p) - z * z
    BY <1>2, <2>3 DEF SignedDouble
  <2>5. Signed(y) = y - z
    BY <1>1, <1>4
  <2> HIDE DEF p, q
  <2>6. (x + p) - z * z = x + (p - z * z) /\ x + (p - z * z) \in Int
    BY <1>1, <1>3
  <2> QED BY <2>2, <2>4, <2>5, <2>6 DEF p, z
<1>5. CASE ~(y >= h)
  <2>1. y <= h - 1
    BY <1>1, <1>5
  <2>2. p <= q - z
    <3>1. z * y <= z * (h - 1)
      BY <1>1, <2>1
    <3>2. z * (h - 1) = z * h - z
      BY <1>1
    <3> QED BY <3>1, <3>2
  <2>3. ~(x + p >= q)
    <3> HIDE DEF p, q
    <3> QED BY <1>1, <1>3, <2>2
  <2>4. SignedDouble(x + p) = x + p
    BY <1>2, <2>3 DEF SignedDouble
  <2>5. Signed(y) = y
    BY <1>1, <1>5
  <2> HIDE DEF p, q
  <2>6. x + p \in Int
    BY <1>1, <1>3
  <2> QED BY <2>4, <2>5, <2>6 DEF p, z
<1> QED BY <1>4, <1>5

LEMMA SaturatedWord ==
  ASSUME NEW n \in Int
  PROVE  /\ Lower(Nearest(n, Word)) = (IF n > Ones THEN Ones ELSE IF n < 0 THEN 0 ELSE n)
         /\ Lower(Nearest(n, Word)) \in Word
<1> DEFINE a == 0
           b == Size - 1
           r == Nearest(n, a..b)
<1>1. a \in Int /\ b \in Int /\ a <= b /\ Word = a..b
  BY WidthFacts
<1> HIDE DEF a, b
<1>2. r = (IF n > b THEN b ELSE IF n < a THEN a ELSE n) /\ r \in a..b
  BY <1>1, NearestFacts
<1>3. r = Nearest(n, Word)
  BY <1>1
<1> HIDE DEF r
<1>4. r \in Word /\ r \in Int
  BY <1>1, <1>2
<1>5. Wrap(r) = r
  BY <1>4, WordNumbers
<1>6. Lower(r) = r
  BY <1>4, <1>5, CongruentIsWrap
<1>7. Lower(Nearest(n, Word)) = r /\ r \in Word
  BY <1>3, <1>4, <1>6
<1> QED BY <1>2, <1>7 DEF a, b, Ones

(* The double word that a lane of a pack is made of.                       *)
LEMMA PackedDouble ==
  ASSUME NEW n, LaneCount(n), NEW d \in Register(n), NEW s \in Register(n),
         NEW h, h = n \div 2, NEW i \in 0..n - 1
  PROVE  /\ SignedDouble(IF i < h THEN Doubles(d)[i] ELSE Doubles(s)[i - h]) =
              (IF i < h THEN Wide(d, i) ELSE Wide(s, i - h))
         /\ (IF i < h THEN Wide(d, i) ELSE Wide(s, i - h)) \in Int
<1>1. n \in Nat /\ h \in Nat \ {0} /\ n = 2 * h
  BY HalfFacts DEF LaneCount
<1>2. \A v \in Register(n) : \A j \in 0..h - 1 :
        SignedDouble(Doubles(v)[j]) = Wide(v, j) /\ Wide(v, j) \in Int
  <2> SUFFICES ASSUME NEW v \in Register(n), NEW j \in 0..h - 1
               PROVE  SignedDouble(Doubles(v)[j]) = Wide(v, j) /\ Wide(v, j) \in Int
    OBVIOUS
  <2> DEFINE x == v[2 * j]
             y == v[2 * j + 1]
  <2>1. x \in Word /\ y \in Word
    <3>1. j \in 0..n \div 2 - 1
      OBVIOUS
    <3> QED BY <3>1, Pairs
  <2>2. HalfOf(v) = h
    BY LaneFacts
  <2>3. Doubles(v)[j] = x + Size * y
    BY <2>2 DEF Doubles
  <2>4. Wide(v, j) = x + Size * Signed(y)
    BY DEF Wide
  <2> HIDE DEF x, y
  <2>5. SignedDouble(x + Size * y) = x + Size * Signed(y) /\ x + Size * Signed(y) \in Int
    BY <2>1, SignedDoubles
  <2> QED BY <2>3, <2>4, <2>5
<1>3. CASE i < h
  <2>1. i \in 0..h - 1
    BY <1>1, <1>3
  <2> QED BY <1>2, <1>3, <2>1
<1>4. CASE ~(i < h)
  <2> DEFINE j == i - h
  <2>1. j \in 0..h - 1
    BY <1>1, <1>4
  <2> HIDE DEF j
  <2>2. SignedDouble(Doubles(s)[j]) = Wide(s, j) /\ Wide(s, j) \in Int
    BY <1>2, <2>1
  <2> QED BY <1>4, <2>2 DEF j
<1> QED BY <1>3, <1>4

LEMMA Packs ==
  ASSUME NEW n, LaneCount(n), NEW d \in Register(n), NEW s \in Register(n)
  PROVE  /\ NativePackss(d, s) = Packss(d, s) /\ Packss(d, s) \in Register(n)
         /\ NativePackus(d, s) = Packus(d, s) /\ Packus(d, s) \in Register(n)
<1> DEFINE h == n \div 2
           near(i) == IF i < h THEN Wide(d, i) ELSE Wide(s, i - h)
           double(i) == SignedDouble(IF i < h THEN Doubles(d)[i] ELSE Doubles(s)[i - h])
<1>1. DOMAIN d = 0..n - 1 /\ Count(d) = n /\ HalfOf(d) = h
  BY LaneFacts
<1>2. \A i \in 0..n - 1 : double(i) = near(i) /\ near(i) \in Int
  BY PackedDouble
<1>3. NativePackss(d, s) = Packss(d, s) /\ Packss(d, s) \in Register(n)
  <2> DEFINE f == [i \in 0..n - 1 |-> Lower(Nearest(near(i), SignedWords))]
             g == [i \in 0..n - 1 |-> Saturated(double(i))]
  <2>1. NativePackss(d, s) = f
    BY <1>1 DEF NativePackss, NativePack
  <2>2. Packss(d, s) = g
    BY <1>1 DEF Packss, Pack
  <2> HIDE DEF near, double
  <2>3. ASSUME NEW i \in 0..n - 1 PROVE f[i] = g[i] /\ g[i] \in Word
    <3> DEFINE m == near(i)
    <3>1. m \in Int /\ f[i] = Lower(Nearest(m, SignedWords)) /\ g[i] = Saturated(m)
      BY <1>2
    <3> HIDE DEF m, f, g
    <3> QED BY <3>1, SaturatedFacts
  <2>4. f = [i \in 0..n - 1 |-> f[i]] /\ g = [i \in 0..n - 1 |-> g[i]]
    OBVIOUS
  <2> HIDE DEF f, g
  <2>5. f = g /\ g \in Register(n)
    BY <2>3, <2>4, SameLanes
  <2> QED BY <2>1, <2>2, <2>5
<1>4. NativePackus(d, s) = Packus(d, s) /\ Packus(d, s) \in Register(n)
  <2> DEFINE f == [i \in 0..n - 1 |-> Lower(Nearest(near(i), Word))]
             g == [i \in 0..n - 1 |-> IF double(i) > Ones THEN Ones ELSE IF double(i) < 0 THEN 0 ELSE double(i)]
  <2>1. NativePackus(d, s) = f
    BY <1>1 DEF NativePackus, NativePack
  <2>2. Packus(d, s) = g
    BY <1>1 DEF Packus, Pack
  <2> HIDE DEF near, double
  <2>3. ASSUME NEW i \in 0..n - 1 PROVE f[i] = g[i] /\ g[i] \in Word
    <3> DEFINE m == near(i)
    <3>1. m \in Int /\ double(i) = m
      BY <1>2
    <3>2. f[i] = Lower(Nearest(m, Word)) /\ g[i] = IF m > Ones THEN Ones ELSE IF m < 0 THEN 0 ELSE m
      BY <3>1
    <3> HIDE DEF m, f, g
    <3> QED BY <3>1, <3>2, SaturatedWord
  <2>4. f = [i \in 0..n - 1 |-> f[i]] /\ g = [i \in 0..n - 1 |-> g[i]]
    OBVIOUS
  <2> HIDE DEF f, g
  <2>5. f = g /\ g \in Register(n)
    BY <2>3, <2>4, SameLanes
  <2> QED BY <2>1, <2>2, <2>5
<1> QED BY <1>3, <1>4

(* Words that become double words.                                         *)
LEMMA Widens ==
  ASSUME NEW n, LaneCount(n), NEW s \in Register(n)
  PROVE  /\ NativePmovzx(s) = Pmovzx(s) /\ Pmovzx(s) \in Register(n)
         /\ NativePmovsx(s) = Pmovsx(s) /\ Pmovsx(s) \in Register(n)
<1> DEFINE h == n \div 2
<1>1. n \in Nat /\ h \in Nat \ {0} /\ n = 2 * h
  BY HalfFacts DEF LaneCount
<1>2. HalfOf(s) = h /\ Count(s) = n /\ \A i \in 0..n - 1 : s[i] \in Word
  BY LaneFacts
<1>3. DOMAIN Lo(s) = 0..h - 1
  BY <1>2 DEF Lo
<1>4. \A i \in 0..h - 1 : s[i] \in Word
  BY <1>1, <1>2
<1>5. NativePmovzx(s) = Pmovzx(s) /\ Pmovzx(s) \in Register(n)
  <2>1. \A i \in 0..h - 1 : s[i] \in Int /\ s[i] % DoubleSize = s[i]
    <3> SUFFICES ASSUME NEW i \in 0..h - 1 PROVE s[i] \in Int /\ s[i] % DoubleSize = s[i]
      OBVIOUS
    <3> DEFINE x == s[i]
               z == Size
               q == z * z
               o == 0
               e == o * q + x
    <3>1. x \in Int /\ 0 <= x /\ x < z /\ z \in Nat \ {0}
      BY <1>4, WordNumbers, WidthFacts
    <3> HIDE DEF x, z
    <3>2. q \in Nat \ {0} /\ z <= q
      BY <3>1
    <3> HIDE DEF q
    <3>3. x \in 0..q - 1 /\ o \in Int
      BY <3>1, <3>2
    <3>4. e = x
      BY <3>1, <3>2
    <3>5. e = o * q + x
      OBVIOUS
    <3> HIDE DEF o, e
    <3>6. e % q = x
      BY <3>2, <3>3, <3>5, Parts
    <3> QED BY <3>1, <3>4, <3>6 DEF x, q, z, DoubleSize
  <2>2. NativePmovzx(s) = Split([i \in 0..h - 1 |-> Congruent(s[i], Size * Size)])
    BY <1>2 DEF NativePmovzx, Every
  <2>3. Pmovzx(s) = Singles([i \in 0..h - 1 |-> s[i]])
    BY <1>3 DEF Pmovzx
  <2>4. [i \in 0..h - 1 |-> s[i]] = [i \in 0..h - 1 |-> s[i] % DoubleSize]
    BY <2>1
  <2> QED BY <2>1, <2>2, <2>3, <2>4, EveryDouble
<1>6. NativePmovsx(s) = Pmovsx(s) /\ Pmovsx(s) \in Register(n)
  <2> DEFINE f == [i \in 0..h - 1 |-> Signed(s[i])]
  <2>1. \A i \in 0..h - 1 : f[i] \in Int
    BY <1>4, WordNumbers
  <2>2. NativePmovsx(s) = Split([i \in 0..h - 1 |-> Congruent(f[i], Size * Size)])
    BY <1>2 DEF NativePmovsx, Every
  <2>3. Pmovsx(s) = Singles([i \in 0..h - 1 |-> f[i] % DoubleSize])
    BY <1>3 DEF Pmovsx
  <2> HIDE DEF f
  <2> QED BY <2>1, <2>2, <2>3, EveryDouble
<1> QED BY <1>5, <1>6

(* What the constants say of the registers and of the immediates.          *)
LEMMA TheUnits ==
  ASSUME ConstantsFit
  PROVE  LaneCount(MmxLanes) /\ LaneCount(XmmLanes) /\ MmxLanes # XmmLanes /\ XmmLanes >= 4
<1> DEFINE k == XmmLanes \div 4
<1>1. XmmLanes \in Nat \ {0} /\ k \in Nat /\ XmmLanes = 4 * k
  BY DEF ConstantsFit
<1> HIDE DEF k
<1>2. k >= 1 /\ XmmLanes \div 2 = 2 * k
  BY <1>1
<1> QED BY <1>1, <1>2 DEF LaneCount, MmxLanes

LEMMA TheOrders ==
  ASSUME ConstantsFit, NEW o \in Orders
  PROVE  /\ Ordered(o, XmmLanes) /\ Ordered(HalfOrder(o), XmmLanes \div 2)
         /\ o[0] \in 0..XmmLanes - 1 /\ o[1] \in 0..XmmLanes - 1
<1> DEFINE n == XmmLanes
           h == n \div 2
<1>1. n \in Nat /\ n >= 4 /\ h \in Nat \ {0} /\ h < n
  BY TheUnits DEF LaneCount
<1>2. DOMAIN o = 0..n - 1 /\ \A i \in 0..n - 1 : o[i] \in 0..n - 1
  BY DEF ConstantsFit
<1>3. \A i \in 0..h - 1 : i \in 0..n - 1
  BY <1>1
<1>4. HalfOrder(o) = [i \in 0..n - 1 |-> o[i] % h]
  BY <1>2 DEF HalfOrder
<1> HIDE DEF n, h
<1>5. ASSUME NEW i \in 0..h - 1 PROVE HalfOrder(o)[i] \in 0..h - 1
  <2> DEFINE x == o[i]
  <2>1. i \in 0..n - 1 /\ x \in Int
    BY <1>1, <1>2, <1>3
  <2>2. HalfOrder(o)[i] = x % h
    BY <1>4, <2>1
  <2> HIDE DEF x
  <2>3. x % h \in 0..h - 1
    BY <1>1, <2>1
  <2> QED BY <2>2, <2>3
<1>6. 0 \in 0..n - 1 /\ 1 \in 0..n - 1
  BY <1>1
<1> QED BY <1>2, <1>5, <1>6 DEF Ordered, n, h

LEMMA TheUnit ==
  ASSUME NEW n, LaneCount(n), vdst \in Register(n)
  PROVE  IsXmm <=> n = XmmLanes
<1>1. Lanes(vdst) = n
  BY LaneFacts
<1> QED BY <1>1 DEF IsXmm

LEMMA ImmediateShuffles ==
  ASSUME ConstantsFit, NEW d \in Register(XmmLanes), NEW s \in Register(XmmLanes),
         NEW o \in Orders
  PROVE  /\ NativeShufps(d, s, o) = Shufps(d, s, o) /\ NativePshufd(s, o) = Pshufd(s, o)
         /\ NativePshuflw(s, HalfOrder(o)) = Pshuflw(s, HalfOrder(o))
         /\ NativePshufhw(s, HalfOrder(o)) = Pshufhw(s, HalfOrder(o))
         /\ NativeInsertps(d, s, o[0], o[1], {o[2]}) = Insertps(d, s, o[0], o[1], {o[2]})
         /\ {Shufps(d, s, o), Pshufd(s, o), Pshuflw(s, HalfOrder(o)), Pshufhw(s, HalfOrder(o))}
              \subseteq Register(XmmLanes)
<1> DEFINE n == XmmLanes
           h == n \div 2
           p == HalfOrder(o)
<1>1. LaneCount(n) /\ Ordered(o, n) /\ Ordered(p, h) /\ o[0] \in 0..n - 1 /\ o[1] \in 0..n - 1
  BY TheUnits, TheOrders
<1>2. d \in Register(n) /\ s \in Register(n) /\ h = n \div 2
  OBVIOUS
<1> HIDE DEF n, h, p
<1>3. /\ NativeShufps(d, s, o) = Shufps(d, s, o) /\ Shufps(d, s, o) \in Register(n)
      /\ NativePshufd(s, o) = Pshufd(s, o) /\ Pshufd(s, o) \in Register(n)
  BY <1>1, <1>2, OrderedShuffles
<1>4. /\ NativePshuflw(s, p) = Pshuflw(s, p) /\ Pshuflw(s, p) \in Register(n)
      /\ NativePshufhw(s, p) = Pshufhw(s, p) /\ Pshufhw(s, p) \in Register(n)
  BY <1>1, <1>2, HalfShuffles
<1>5. NativeInsertps(d, s, o[0], o[1], {o[2]}) = Insertps(d, s, o[0], o[1], {o[2]})
  BY <1>1, <1>2, Inserting
<1> QED BY <1>3, <1>4, <1>5 DEF n, p

LEMMA ShufflesOfRegisters ==
  ASSUME ConstantsFit, NEW n, LaneCount(n), vdst \in Register(n), vsrc \in Register(n)
  PROVE  ShufflesAgree
<1> DEFINE d == vdst
           s == vsrc
<1>1. d \in Register(n) /\ s \in Register(n) /\ n \in Nat /\ Lanes(d) = n
  BY LaneFacts DEF LaneCount
<1>2. IsXmm => n = XmmLanes
  BY TheUnit
<1>3. Masks = SUBSET (0..n - 1) /\ 0 \in Word
  BY <1>1, WidthFacts DEF Masks
<1> HIDE DEF d, s
<1>4. /\ NativePunpckl(d, s) = Punpckl(d, s) /\ NativePunpckh(d, s) = Punpckh(d, s)
      /\ NativePackss(d, s) = Packss(d, s) /\ NativePackus(d, s) = Packus(d, s)
  BY <1>1, Unpacks, Packs
<1>5. ASSUME NEW at \in 0..2 * n
      PROVE  NativePinsr(d, 0, at) = Pinsr(d, 0, at) /\ NativePextr(s, at) = Pextr(s, at)
  <2>1. at \in Nat
    BY <1>1
  <2>2. NativePinsr(d, 0, at) = Pinsr(d, 0, at)
    BY <1>1, <1>3, <2>1, OneLane
  <2>3. NativePextr(s, at) = Pextr(s, at)
    BY <1>1, <1>3, <2>1, OneLane
  <2> QED BY <2>2, <2>3
<1>6. NativePshufb(d, s) = Pshufb(d, s)
  BY <1>1, Clearing
<1>7. ASSUME IsXmm, NEW o \in Orders
      PROVE  /\ NativeShufps(d, s, o) = Shufps(d, s, o) /\ NativePshufd(s, o) = Pshufd(s, o)
             /\ NativePshuflw(s, HalfOrder(o)) = Pshuflw(s, HalfOrder(o))
             /\ NativePshufhw(s, HalfOrder(o)) = Pshufhw(s, HalfOrder(o))
             /\ NativeInsertps(d, s, o[0], o[1], {o[2]}) = Insertps(d, s, o[0], o[1], {o[2]})
  BY <1>1, <1>2, <1>7, ImmediateShuffles
<1>8. /\ NativeMovshdup(s) = Movshdup(s) /\ NativeMovddup(s) = Movddup(s)
      /\ NativePmovzx(s) = Pmovzx(s) /\ NativePmovsx(s) = Pmovsx(s)
  BY <1>1, Doubling, Widens
<1>9. \A m \in Masks : NativeBlend(d, s, m) = Blend(d, s, m)
  BY <1>1, Blends
<1>10. NativeBlendv(d, s, d) = Pblendv(d, s, d)
  BY <1>1, Blends
<1> QED BY <1>1, <1>4, <1>5, <1>6, <1>7, <1>8, <1>9, <1>10 DEF ShufflesAgree, d, s

-----------------------------------------------------------------------------
(* String comparisons.                                                     *)

(* The first k of n lanes.                                                 *)
First(n, k) == {i \in 0..n - 1 : i < k}

LEMMA HitsAgree ==
  ASSUME NEW n, LaneCount(n), NEW d \in Register(n), NEW s \in Register(n),
         NEW nd \in 0..n, NEW ns \in 0..n, NEW c \in Controls,
         NEW D, D = First(n, nd), NEW S, S = First(n, ns)
  PROVE  /\ Hits(d, D, s, S, c) = Aggregated(d, nd, s, ns, c)
         /\ Aggregated(d, nd, s, ns, c) \subseteq 0..n - 1
<1> DEFINE val(x) == IF c.signed THEN Signed(x) ELSE x
           H == Hits(d, D, s, S, c)
           A == Aggregated(d, nd, s, ns, c)
<1>1. n \in Nat /\ DOMAIN d = 0..n - 1 /\ DOMAIN s = 0..n - 1 /\ Lanes(d) = n
  BY LaneFacts DEF LaneCount
<1>2. \A i \in 0..n - 1 : val(d[i]) \in Int /\ val(s[i]) \in Int
  <2> SUFFICES ASSUME NEW i \in 0..n - 1 PROVE val(d[i]) \in Int /\ val(s[i]) \in Int
    OBVIOUS
  <2>1. d[i] \in Word /\ s[i] \in Word
    BY <1>1, EachLane
  <2>2. \A x \in Word : x \in Int /\ Signed(x) \in Int
    BY WordNumbers
  <2> QED BY <2>1, <2>2
<1>3. \A i \in 0..n - 1 : (i \in D <=> i < nd) /\ (i \in S <=> i < ns)
  BY DEF First
<1>4. D \subseteq 0..n - 1 /\ S \subseteq 0..n - 1
  BY DEF First
<1>5. nd \in Int /\ ns \in Int /\ nd <= n /\ ns <= n
  BY <1>1
<1>6. CASE c.operation = "each"
  <2>1. H = {j \in 0..n - 1 : (j \in D /\ j \in S /\ d[j] = s[j]) \/ (j \notin D /\ j \notin S)}
    BY <1>1, <1>6 DEF Hits
  <2>2. A = {j \in 0..n - 1 : IF j >= nd /\ j >= ns THEN TRUE
                              ELSE j < nd /\ j < ns /\ d[j] = s[j]}
    BY <1>1, <1>6 DEF Aggregated
  <2> HIDE DEF H, A
  <2> QED BY <1>3, <1>5, <2>1, <2>2 DEF H, A
<1>7. CASE c.operation = "any"
  <2>1. H = {j \in 0..n - 1 : \E i \in D : i \in D /\ j \in S /\ d[i] = s[j]}
    BY <1>1, <1>7 DEF Hits
  <2>2. A = {j \in 0..n - 1 : \E i \in 0..n - 1 : i < nd /\ j < ns /\ d[i] = s[j]}
    BY <1>1, <1>7 DEF Aggregated
  <2> HIDE DEF H, A
  <2> QED BY <1>3, <1>4, <2>1, <2>2 DEF H, A
<1>8. CASE c.operation = "ranges"
  <2>1. H = {j \in 0..n - 1 : /\ j \in S
                              /\ \E i \in D : /\ i % 2 = 0 /\ i + 1 \in D
                                              /\ val(s[j]) \in val(d[i])..val(d[i + 1])}
    BY <1>1, <1>8 DEF Hits
  <2>2. A = {j \in 0..n - 1 : \E i \in 0..n - 1 :
                /\ i % 2 = 0 /\ i + 1 < nd /\ j < ns
                /\ val(s[j]) >= val(d[i]) /\ val(s[j]) <= val(d[i + 1])}
    BY <1>1, <1>8 DEF Aggregated
  <2> HIDE DEF H, A, val
  <2>3. ASSUME NEW j \in 0..n - 1, NEW i \in 0..n - 1
        PROVE  (i \in D /\ i + 1 \in D /\ j \in S /\ val(s[j]) \in val(d[i])..val(d[i + 1]))
               <=> (i + 1 < nd /\ j < ns /\ val(s[j]) >= val(d[i]) /\ val(s[j]) <= val(d[i + 1]))
    <3> DEFINE k == i + 1
    <3>1. (k < nd => k \in 0..n - 1 /\ i < nd) /\ (k \in D => k \in 0..n - 1)
      BY <1>1, <1>4, <1>5
    <3> HIDE DEF k
    <3>2. CASE k \in 0..n - 1
      <4>1. (i \in D <=> i < nd) /\ (k \in D <=> k < nd) /\ (j \in S <=> j < ns)
        BY <1>3, <3>2
      <4>2. val(s[j]) \in Int /\ val(d[i]) \in Int /\ val(d[k]) \in Int
        BY <1>2, <3>2
      <4>3. val(s[j]) \in val(d[i])..val(d[k]) <=> val(s[j]) >= val(d[i]) /\ val(s[j]) <= val(d[k])
        BY <4>2
      <4> QED BY <3>1, <4>1, <4>3 DEF k
    <3>3. CASE k \notin 0..n - 1
      <4>1. k \notin D /\ ~(k < nd)
        BY <3>1, <3>3
      <4> QED BY <4>1 DEF k
    <3> QED BY <3>2, <3>3
  <2>4. ASSUME NEW j \in 0..n - 1 PROVE j \in H <=> j \in A
    <3>1. ASSUME j \in H PROVE j \in A
      <4>1. PICK i \in D : /\ j \in S /\ i % 2 = 0 /\ i + 1 \in D
                           /\ val(s[j]) \in val(d[i])..val(d[i + 1])
        BY <2>1, <3>1
      <4>2. i \in 0..n - 1
        BY <1>4
      <4> QED BY <2>2, <2>3, <4>1, <4>2
    <3>2. ASSUME j \in A PROVE j \in H
      <4>1. PICK i \in 0..n - 1 : /\ i % 2 = 0 /\ i + 1 < nd /\ j < ns
                                  /\ val(s[j]) >= val(d[i]) /\ val(s[j]) <= val(d[i + 1])
        BY <2>2, <3>2
      <4>2. i \in D /\ i + 1 \in D /\ j \in S /\ val(s[j]) \in val(d[i])..val(d[i + 1])
        BY <2>3, <4>1
      <4> QED BY <2>1, <4>1, <4>2
    <3> QED BY <3>1, <3>2
  <2>5. H \subseteq 0..n - 1 /\ A \subseteq 0..n - 1
    BY <2>1, <2>2
  <2> QED BY <2>4, <2>5 DEF H, A
<1>9. CASE c.operation = "ordered"
  <2>1. H = {j \in 0..n - 1 : \A i \in D : j + i \in 0..n - 1 =>
                                i \in D /\ j + i \in S /\ d[i] = s[j + i]}
    BY <1>1, <1>9 DEF Hits
  <2>2. A = {j \in 0..n - 1 : \A i \in 0..n - 1 - j :
                i >= nd \/ (i + j < ns /\ d[i] = s[i + j])}
    BY <1>1, <1>9 DEF Aggregated
  <2> HIDE DEF H, A
  <2>3. ASSUME NEW j \in 0..n - 1, j \in H PROVE j \in A
    <3> SUFFICES ASSUME NEW i \in 0..n - 1 - j, ~(i >= nd) PROVE i + j < ns /\ d[i] = s[i + j]
      BY <2>2
    <3> DEFINE k == i + j
    <3>1. k \in 0..n - 1 /\ i \in 0..n - 1 /\ i < nd /\ j + i = k
      BY <1>1, <1>5
    <3>2. i \in D
      BY <1>3, <3>1
    <3> HIDE DEF k
    <3>3. k \in S /\ d[i] = s[k]
      BY <2>1, <2>3, <3>1, <3>2
    <3>4. k < ns
      BY <1>3, <3>1, <3>3
    <3> QED BY <3>3, <3>4 DEF k
  <2>4. ASSUME NEW j \in 0..n - 1, j \in A PROVE j \in H
    <3> SUFFICES ASSUME NEW i \in D, j + i \in 0..n - 1 PROVE j + i \in S /\ d[i] = s[j + i]
      BY <2>1
    <3> DEFINE k == i + j
    <3>1. i \in 0..n - 1 /\ i < nd
      BY <1>3, <1>4
    <3>2. k \in 0..n - 1 /\ j + i = k /\ i \in 0..n - 1 - j /\ ~(i >= nd)
      BY <1>1, <1>5, <3>1
    <3> HIDE DEF k
    <3>3. k < ns /\ d[i] = s[k]
      BY <2>2, <2>4, <3>2 DEF k
    <3>4. k \in S
      BY <1>3, <3>2, <3>3
    <3> QED BY <3>2, <3>3, <3>4
  <2>5. H \subseteq 0..n - 1 /\ A \subseteq 0..n - 1
    BY <2>1, <2>2
  <2> QED BY <2>3, <2>4, <2>5 DEF H, A
<1> QED BY <1>6, <1>7, <1>8, <1>9 DEF Controls

LEMMA FirstLanes ==
  ASSUME NEW n \in Nat, NEW k \in 0..n
  PROVE  /\ First(n, k) \subseteq 0..n - 1 /\ (First(n, k) # 0..n - 1 <=> k < n)
         /\ \A i \in 0..n - 1 : i \in First(n, k) <=> ~(i >= k)
<1>1. \A i \in 0..n - 1 : i \in First(n, k) <=> i < k
  BY DEF First
<1>2. CASE k < n
  <2>1. k \in 0..n - 1 /\ ~(k < k)
    BY <1>2
  <2>2. First(n, k) # 0..n - 1
    BY <1>1, <2>1
  <2> QED BY <1>1, <1>2, <2>2 DEF First
<1>3. CASE ~(k < n)
  <2>1. \A i \in 0..n - 1 : i < k
    BY <1>3
  <2>2. First(n, k) = 0..n - 1
    BY <2>1 DEF First
  <2> QED BY <1>1, <1>3, <2>2
<1> QED BY <1>2, <1>3

(* The lanes before the first zero, and as many lanes as a register says.  *)
LEMMA Terminates ==
  ASSUME NEW n, LaneCount(n), NEW v \in Register(n)
  PROVE  /\ Terminated(v) \in 0..n
         /\ {i \in DOMAIN v : \A j \in 0..i : v[j] # 0} = First(n, Terminated(v))
<1> DEFINE Z == {i \in 0..n - 1 : v[i] = 0}
           t == Terminated(v)
           A == {i \in 0..n - 1 : \A j \in 0..i : v[j] # 0}
<1>1. n \in Nat /\ DOMAIN v = 0..n - 1 /\ Lanes(v) = n
  BY LaneFacts DEF LaneCount
<1>2. CASE Z = {}
  <2>1. t = n
    BY <1>1, <1>2 DEF Terminated
  <2>2. ASSUME NEW i \in 0..n - 1, NEW j \in 0..i PROVE v[j] # 0
    <3>1. j \in 0..n - 1
      BY <1>1
    <3> QED BY <1>2, <3>1
  <2>3. A = First(n, n)
    BY <1>1, <2>2 DEF First
  <2> QED BY <1>1, <2>1, <2>3
<1>3. CASE Z # {}
  <2>1. PICK m \in Z : \A j \in Z : m <= j
    <3>1. Z \subseteq Nat
      BY <1>1
    <3> HIDE DEF Z
    <3> QED BY <1>3, <3>1, Least
  <2> DEFINE P(i) == i \in 0..n - 1 /\ v[i] = 0 /\ \A j \in 0..i - 1 : v[j] # 0
  <2>2. m \in 0..n - 1 /\ m \in Int /\ v[m] = 0
    OBVIOUS
  <2>3. ASSUME NEW j \in 0..m - 1 PROVE v[j] # 0
    <3>1. j \in 0..n - 1 /\ ~(m <= j)
      BY <1>1, <2>2
    <3> QED BY <2>1, <3>1
  <2>4. t = CHOOSE i \in 0..n - 1 : v[i] = 0 /\ \A j \in 0..i - 1 : v[j] # 0
    BY <1>1, <1>3 DEF Terminated
  <2>5. t \in 0..n - 1 /\ v[t] = 0 /\ \A j \in 0..t - 1 : v[j] # 0
    BY <2>2, <2>3, <2>4
  <2> HIDE DEF t
  <2>6. ASSUME NEW i \in 0..n - 1 PROVE (\A j \in 0..i : v[j] # 0) <=> i < t
    <3>1. ASSUME i < t, NEW j \in 0..i PROVE v[j] # 0
      <4>1. j \in 0..t - 1
        BY <1>1, <2>5, <3>1
      <4> QED BY <2>5, <4>1
    <3>2. ASSUME ~(i < t) PROVE \E j \in 0..i : v[j] = 0
      <4>1. t \in 0..i
        BY <1>1, <2>5, <3>2
      <4> QED BY <2>5, <4>1
    <3> QED BY <3>1, <3>2
  <2>7. A = First(n, t)
    BY <2>6 DEF First
  <2>8. t \in 0..n
    BY <1>1, <2>5
  <2> QED BY <1>1, <2>7, <2>8 DEF t
<1> QED BY <1>2, <1>3

LEMMA Gives ==
  ASSUME NEW n, LaneCount(n), NEW v \in Register(n), NEW l \in Int
  PROVE  /\ Given(v, l) \in 0..n
         /\ {i \in DOMAIN v : i < Max({l, -l})} = First(n, Given(v, l))
<1> DEFINE k == Absolute(l)
           g == Given(v, l)
<1>1. n \in Nat /\ DOMAIN v = 0..n - 1 /\ Lanes(v) = n
  BY LaneFacts DEF LaneCount
<1>2. Max({l, -l}) = k /\ k \in Nat
  <2> DEFINE m == -l
  <2>1. m \in Int
    OBVIOUS
  <2> HIDE DEF m
  <2>2. Max({l, m}) = IF l < m THEN m ELSE l
    BY <2>1, MinMax
  <2>3. k = (IF l < m THEN m ELSE l) /\ k \in Nat
    BY DEF m, Absolute
  <2> QED BY <2>2, <2>3 DEF m
<1>3. g = IF k > n THEN n ELSE k
  BY <1>1 DEF Given
<1> HIDE DEF k, g
<1>4. g \in 0..n
  BY <1>1, <1>2, <1>3
<1>5. \A i \in 0..n - 1 : i < k <=> i < g
  BY <1>1, <1>2, <1>3
<1> QED BY <1>1, <1>2, <1>4, <1>5 DEF First, g

(* The answer of a comparison of the first lanes of two registers.         *)
LEMMA Answers ==
  ASSUME NEW n, LaneCount(n), NEW d \in Register(n), NEW s \in Register(n),
         NEW nd \in 0..n, NEW ns \in 0..n, NEW c \in Controls
  PROVE  NativeCompared(d, First(n, nd), s, First(n, ns), c) = Compared(d, nd, s, ns, c)
<1> DEFINE D == First(n, nd)
           S == First(n, ns)
           H == Hits(d, D, s, S, c)
           F == CASE c.polarity = "positive" -> {}
                  [] c.polarity = "negative" -> 0..n - 1
                  [] c.polarity = "masked" -> S
           found == (H \ F) \cup (F \ H)
           P == Polarised(H, n, ns, c)
<1>1. n \in Nat /\ DOMAIN d = 0..n - 1 /\ DOMAIN s = 0..n - 1 /\ Lanes(d) = n /\ Count(s) = n
  BY LaneFacts DEF LaneCount
<1>2. H = Aggregated(d, nd, s, ns, c) /\ H \subseteq 0..n - 1
  BY HitsAgree
<1>3. D # 0..n - 1 <=> nd < n
  BY <1>1, FirstLanes
<1>4. S # 0..n - 1 <=> ns < n
  BY <1>1, FirstLanes
<1>5. S \subseteq 0..n - 1 /\ \A i \in 0..n - 1 : i \in S <=> ~(i >= ns)
  BY <1>1, FirstLanes
<1> HIDE DEF D, S, H
<1>6. found = P
  <2>1. CASE c.polarity = "positive"
    <3>1. F = {} /\ P = H
      BY <2>1 DEF Polarised
    <3> QED BY <3>1
  <2>2. CASE c.polarity = "negative"
    <3>1. F = 0..n - 1 /\ P = (0..n - 1) \ H
      BY <2>2 DEF Polarised
    <3> HIDE DEF F, P
    <3> QED BY <1>2, <3>1
  <2>3. CASE c.polarity = "masked"
    <3>1. F = S /\ P = {i \in 0..n - 1 : (i >= ns) = (i \in H)}
      BY <2>3 DEF Polarised
    <3> HIDE DEF F, P
    <3>2. ASSUME NEW i \in 0..n - 1 PROVE i \in P <=> (i \in S <=> i \notin H)
      BY <1>5, <3>1
    <3>3. P \subseteq 0..n - 1
      BY <3>1
    <3>4. ASSUME NEW i \in 0..n - 1 PROVE i \in found <=> (i \in S <=> i \notin H)
      BY <3>1
    <3>5. found \subseteq 0..n - 1
      BY <1>2, <1>5, <3>1
    <3> QED BY <3>2, <3>3, <3>4, <3>5
  <2> QED BY <2>1, <2>2, <2>3 DEF Controls
<1>7. NativeCompared(d, D, s, S, c) =
        [index |-> IF found = {} THEN n
                   ELSE IF c.output = "least" THEN Min(found) ELSE Max(found),
         carry |-> found # {}, overflow |-> 0 \in found,
         sign |-> D # 0..n - 1, zero |-> S # 0..n - 1]
  BY <1>1 DEF NativeCompared, H
<1>8. Compared(d, nd, s, ns, c) =
        [index |-> Index(P, n, c), carry |-> P # {}, overflow |-> 0 \in P,
         sign |-> nd < n, zero |-> ns < n]
  BY <1>1, <1>2 DEF Compared
<1>9. P \subseteq Int
  BY <1>1, <1>2 DEF Polarised, Controls
<1> HIDE DEF found, P
<1>10. (CHOOSE i \in P : \A j \in P : i <= j) = Min(P)
  BY DEF Min
<1>11. (CHOOSE i \in P : \A j \in P : j <= i) = Max(P)
  BY <1>9 DEF Max
<1>12. Index(P, n, c) = IF P = {} THEN n
                        ELSE IF c.output = "least" THEN Min(P) ELSE Max(P)
  BY <1>10, <1>11 DEF Index
<1> QED BY <1>3, <1>4, <1>6, <1>7, <1>8, <1>12 DEF D, S

LEMMA StringsOfRegisters ==
  ASSUME ConstantsFit, NEW n, LaneCount(n), vdst \in Register(n), vsrc \in Register(n)
  PROVE  StringsAgree
<1> DEFINE d == vdst
           s == vsrc
<1>1. d \in Register(n) /\ s \in Register(n)
  OBVIOUS
<1>2. MmxLanes \in Int /\ XmmLanes + 1 \in Int /\ -1 \in Int
  BY TheUnits DEF LaneCount
<1> HIDE DEF d, s
<1> SUFFICES ASSUME NEW c \in Controls
             PROVE  /\ NativePcmpistri(d, s, c) = Pcmpistri(d, s, c)
                    /\ \A l \in Int : NativePcmpestri(d, l, s, -l, c) = Pcmpestri(d, l, s, -l, c)
  BY <1>2 DEF StringsAgree, d, s
<1>3. NativePcmpistri(d, s, c) = Pcmpistri(d, s, c)
  <2> DEFINE nd == Terminated(d)
             ns == Terminated(s)
  <2>1. nd \in 0..n /\ {i \in DOMAIN d : \A j \in 0..i : d[j] # 0} = First(n, nd)
    BY <1>1, Terminates
  <2>2. ns \in 0..n /\ {i \in DOMAIN s : \A j \in 0..i : s[j] # 0} = First(n, ns)
    BY <1>1, Terminates
  <2>3. NativePcmpistri(d, s, c) = NativeCompared(d, First(n, nd), s, First(n, ns), c)
    BY <2>1, <2>2 DEF NativePcmpistri
  <2>4. Pcmpistri(d, s, c) = Compared(d, nd, s, ns, c)
    BY DEF Pcmpistri
  <2> HIDE DEF nd, ns
  <2> QED BY <1>1, <2>1, <2>2, <2>3, <2>4, Answers
<1>4. ASSUME NEW l \in Int
      PROVE  NativePcmpestri(d, l, s, -l, c) = Pcmpestri(d, l, s, -l, c)
  <2> DEFINE m == -l
             nd == Given(d, l)
             ns == Given(s, m)
  <2>0. m \in Int
    OBVIOUS
  <2> HIDE DEF m
  <2>1. nd \in 0..n /\ {i \in DOMAIN d : i < Max({l, -l})} = First(n, nd)
    BY <1>1, Gives
  <2>2. ns \in 0..n /\ {i \in DOMAIN s : i < Max({m, -m})} = First(n, ns)
    BY <1>1, <2>0, Gives
  <2>3. NativePcmpestri(d, l, s, m, c) = NativeCompared(d, First(n, nd), s, First(n, ns), c)
    BY <2>1, <2>2 DEF NativePcmpestri
  <2>4. Pcmpestri(d, l, s, m, c) = Compared(d, nd, s, ns, c)
    BY DEF Pcmpestri
  <2> HIDE DEF nd, ns
  <2>5. NativePcmpestri(d, l, s, m, c) = Pcmpestri(d, l, s, m, c)
    BY <1>1, <2>1, <2>2, <2>3, <2>4, Answers
  <2> QED BY <2>5 DEF m
<1> QED BY <1>3, <1>4

-----------------------------------------------------------------------------
(* The machine: every result is a register of the unit.                    *)

LEMMA EitherUnit ==
  ASSUME ConstantsFit, NEW n, LaneCount(n), n \in {MmxLanes, XmmLanes},
         vdst \in Register(n), vsrc \in Register(n)
  PROVE  /\ Unpacked \subseteq Register(n) /\ Matched \subseteq Register(n)
         /\ Added \subseteq Register(n) /\ Multiplied \subseteq Register(n)
         /\ Averaged \subseteq Register(n) /\ Bounded \subseteq Register(n)
         /\ LanesShifted \subseteq Register(n) /\ Packed \subseteq Register(n)
         /\ Aligned \subseteq Register(n) /\ Combined \subseteq Register(n)
         /\ SignsChanged \subseteq Register(n)
<1> DEFINE d == vdst
           s == vsrc
<1>1. d \in Register(n) /\ s \in Register(n) /\ XmmLanes \in Nat
  BY DEF ConstantsFit
<1>2. ShiftCounts \subseteq Nat /\ Alignments \subseteq Nat
  BY <1>1, WidthFacts DEF ShiftCounts, Alignments
<1> HIDE DEF d, s
<1>3. {Padd(d, s), Psub(d, s), Padds(d, s), Psubs(d, s),
       Paddus(d, s), Psubus(d, s), Pavg(d, s)} \subseteq Register(n)
  BY <1>1, EachSum
<1>4. {Pcmpeq(d, s), Pcmpgt(d, s), Pmaxs(d, s), Pmins(d, s), Pmaxu(d, s),
       Pminu(d, s), Pabs(s), Psign(d, s)} \subseteq Register(n)
  BY <1>1, EachSign
<1>5. {Pmulhuw(d, s), Pmulhw(d, s), Pmullw(d, s), Pmulhrsw(d, s)} \subseteq Register(n)
  BY <1>1, EachProduct
<1>6. {Pmuludq(d, s), Pmaddwd(d, s), Pmaddubsw(d, s)} \subseteq Register(n)
  BY <1>1, DoubleProducts
<1>7. Phadd(d, s) \in Register(n)
  BY <1>1, NeighbourSums
<1>8. \A c \in ShiftCounts : {Psll(d, c), Psrl(d, c), Psra(d, c)} \subseteq Register(n)
  BY <1>1, <1>2, EachShift
<1>9. \A c \in Alignments : Palignr64(d, s, c) \in Register(n) /\ Palignr128(d, s, c) \in Register(n)
  BY <1>1, <1>2, AlignedHalves, AlignedRegisters
<1>10. {Punpckl(d, s), Punpckh(d, s)} \subseteq Register(n)
  BY <1>1, Unpacks
<1>11. {Packss(d, s), Packus(d, s)} \subseteq Register(n)
  BY <1>1, Packs
<1>12. Unpacked \subseteq Register(n) /\ Packed \subseteq Register(n)
  BY <1>10, <1>11 DEF Unpacked, Packed, d, s
<1>13. Added \subseteq Register(n) /\ Averaged \subseteq Register(n)
  BY <1>3 DEF Added, Averaged, d, s
<1>14. Matched \subseteq Register(n) /\ Bounded \subseteq Register(n) /\ SignsChanged \subseteq Register(n)
  BY <1>4 DEF Matched, Bounded, SignsChanged, d, s
<1>15. Multiplied \subseteq Register(n) /\ Combined \subseteq Register(n)
  BY <1>5, <1>6, <1>7 DEF Multiplied, Combined, d, s
<1>16. LanesShifted \subseteq Register(n)
  BY <1>8 DEF LanesShifted, d, s
<1>17. Aligned \subseteq Register(n)
  BY <1>9 DEF Aligned, d, s
<1> QED BY <1>12, <1>13, <1>14, <1>15, <1>16, <1>17

LEMMA XmmUnit ==
  ASSUME ConstantsFit, vdst \in Register(XmmLanes), vsrc \in Register(XmmLanes)
  PROVE  /\ Shuffled \subseteq Register(XmmLanes) /\ Moved \subseteq Register(XmmLanes)
         /\ Duplicated \subseteq Register(XmmLanes) /\ Widened \subseteq Register(XmmLanes)
         /\ Inserted \subseteq Register(XmmLanes) /\ Blended \subseteq Register(XmmLanes)
<1> DEFINE d == vdst
           s == vsrc
           n == XmmLanes
<1>1. d \in Register(n) /\ s \in Register(n) /\ LaneCount(n) /\ n \in Nat /\ n >= 4
  BY TheUnits DEF LaneCount
<1>2. LaneCounts \subseteq Nat /\ 0..n \subseteq Nat /\ 0 \in 0..n - 1 /\ 1 \in 0..n - 1
  BY <1>1 DEF LaneCounts
<1>3. ASSUME NEW o \in Orders
      PROVE  {Shufps(d, s, o), Pshufd(s, o), Pshuflw(s, HalfOrder(o)), Pshufhw(s, HalfOrder(o))}
               \subseteq Register(n)
  BY ImmediateShuffles
<1> HIDE DEF d, s, n
<1>4. Pshufb(d, s) \in Register(n)
  BY <1>1, Clearing
<1>5. \A c \in LaneCounts : Pslldq(d, c) \in Register(n) /\ Psrldq(d, c) \in Register(n)
  BY <1>1, <1>2, MovedLeft, MovedRight
<1>6. {Movshdup(s), Movddup(s)} \subseteq Register(n)
  BY <1>1, Doubling
<1>7. {Pmovzx(s), Pmovsx(s)} \subseteq Register(n)
  BY <1>1, Widens
<1>8. ASSUME NEW at \in 0..n PROVE Pinsr(d, Pextr(s, at), at) \in Register(n)
  <2>1. at \in Nat /\ 0 \in Word
    BY <1>2, WidthFacts
  <2>2. Pextr(s, at) \in Word
    BY <1>1, <2>1, OneLane
  <2> QED BY <1>1, <2>1, <2>2, OneLane
<1>9. Insertps(d, s, 1, 0, {}) \in Register(n)
  BY <1>1, <1>2, Inserting
<1>10. \A m \in Masks : Blend(d, s, m) \in Register(n)
  BY <1>1, Blends
<1>11. Pblendv(d, s, s) \in Register(n)
  BY <1>1, Blends
<1>12. Shuffled \subseteq Register(n)
  BY <1>3, <1>4 DEF Shuffled, d, s
<1>13. Moved \subseteq Register(n)
  BY <1>5 DEF Moved, d
<1>14. Duplicated \subseteq Register(n) /\ Widened \subseteq Register(n)
  BY <1>6, <1>7 DEF Duplicated, Widened, s
<1>15. Inserted \subseteq Register(n)
  BY <1>8, <1>9 DEF Inserted, d, s, n
<1>16. Blended \subseteq Register(n)
  BY <1>10, <1>11 DEF Blended, d, s
<1> QED BY <1>12, <1>13, <1>14, <1>15, <1>16 DEF n

(* The machine starts in a unit and stays in it.                           *)
LEMMA VectorsHold ==
  ASSUME ConstantsFit, InitVectors
  PROVE  VectorsOK
<1>1. PICK n \in {MmxLanes, XmmLanes} : vdst = Zeros(n) /\ vsrc = Zeros(n) /\ steps = 0
  BY DEF InitVectors
<1>2. 0 \in Word /\ MaxSteps \in Nat
  BY WidthFacts DEF ConstantsFit
<1>3. Zeros(n) \in Register(n)
  BY <1>2 DEF Zeros, Register
<1> QED BY <1>1, <1>2, <1>3 DEF VectorsOK

LEMMA VectorsKept ==
  ASSUME ConstantsFit, VectorsOK, [NextVectors]_vectors
  PROVE  VectorsOK'
<1>1. PICK n \in {MmxLanes, XmmLanes} : vdst \in Register(n) /\ vsrc \in Register(n)
  BY DEF VectorsOK
<1>2. LaneCount(n) /\ MaxSteps \in Nat /\ steps \in 0..MaxSteps
  BY TheUnits DEF ConstantsFit, VectorsOK
<1>3. Lanes(vdst) = n /\ (IsXmm <=> n = XmmLanes)
  BY <1>1, <1>2, LaneFacts, TheUnit
<1> DEFINE Steps == steps < MaxSteps /\ steps' = steps + 1 /\ vsrc' = vsrc
<1>4. ASSUME Steps, vdst' \in Register(n) PROVE VectorsOK'
  <2>1. steps' \in 0..MaxSteps
    BY <1>2, <1>4
  <2> QED BY <1>1, <1>4, <2>1 DEF VectorsOK
<1>5. CASE LoadVector
  <2>1. PICK p \in Patterns : LET v == Operand(n, p) IN
           \/ vdst' = v /\ steps' = 0 /\ vsrc' = vsrc
           \/ steps = 0 /\ vsrc' = v /\ vdst' = vdst /\ steps' = steps
    BY <1>3, <1>5 DEF LoadVector
  <2>2. Operand(n, p) \in Register(n)
    <3>1. \A i \in 0..XmmLanes - 1 : p[i] \in Word
      BY DEF ConstantsFit
    <3>2. XmmLanes \in Nat /\ n \in Nat /\ n <= XmmLanes
      BY TheUnits DEF LaneCount, MmxLanes
    <3>3. \A i \in 0..n - 1 : p[i] \in Word
      BY <3>1, <3>2
    <3> QED BY <3>3 DEF Operand, Register
  <2>3. vdst' \in Register(n) /\ vsrc' \in Register(n) /\ steps' \in 0..MaxSteps
    <3> DEFINE v == Operand(n, p)
    <3>1. v \in Register(n) /\ 0 \in 0..MaxSteps
      BY <1>2, <2>2
    <3> HIDE DEF v
    <3> QED BY <1>1, <1>2, <2>1, <3>1 DEF v
  <2> QED BY <2>3 DEF VectorsOK
<1>6. /\ Unpacked \subseteq Register(n) /\ Matched \subseteq Register(n)
      /\ Added \subseteq Register(n) /\ Multiplied \subseteq Register(n)
      /\ Averaged \subseteq Register(n) /\ Bounded \subseteq Register(n)
      /\ LanesShifted \subseteq Register(n) /\ Packed \subseteq Register(n)
      /\ Aligned \subseteq Register(n) /\ Combined \subseteq Register(n)
      /\ SignsChanged \subseteq Register(n)
  BY <1>1, <1>2, EitherUnit
<1>7. IsXmm => /\ Shuffled \subseteq Register(n) /\ Moved \subseteq Register(n)
               /\ Duplicated \subseteq Register(n) /\ Widened \subseteq Register(n)
               /\ Inserted \subseteq Register(n) /\ Blended \subseteq Register(n)
  BY <1>1, <1>3, XmmUnit
<1>8. CASE Unpack
  BY <1>4, <1>6, <1>8 DEF Unpack, Becomes
<1>9. CASE Shuffle
  BY <1>4, <1>7, <1>9 DEF Shuffle, Becomes
<1>10. CASE Match
  BY <1>4, <1>6, <1>10 DEF Match, Becomes
<1>11. CASE AddLanes
  BY <1>4, <1>6, <1>11 DEF AddLanes, Becomes
<1>12. CASE MultiplyLanes
  BY <1>4, <1>6, <1>12 DEF MultiplyLanes, Becomes
<1>13. CASE Average
  BY <1>4, <1>6, <1>13 DEF Average, Becomes
<1>14. CASE Bound
  BY <1>4, <1>6, <1>14 DEF Bound, Becomes
<1>15. CASE ShiftLanes
  BY <1>4, <1>6, <1>15 DEF ShiftLanes, Becomes
<1>16. CASE MoveLanes
  BY <1>4, <1>7, <1>16 DEF MoveLanes, Becomes
<1>17. CASE PackLanes
  BY <1>4, <1>6, <1>17 DEF PackLanes, Becomes
<1>18. CASE Duplicate
  BY <1>4, <1>7, <1>18 DEF Duplicate, Becomes
<1>19. CASE Align
  BY <1>4, <1>6, <1>19 DEF Align, Becomes
<1>20. CASE CombineLanes
  BY <1>4, <1>6, <1>20 DEF CombineLanes, Becomes
<1>21. CASE ChangeSigns
  BY <1>4, <1>6, <1>21 DEF ChangeSigns, Becomes
<1>22. CASE Widen
  BY <1>4, <1>7, <1>22 DEF Widen, Becomes
<1>23. CASE Insert
  BY <1>4, <1>7, <1>23 DEF Insert, Becomes
<1>24. CASE BlendLanes
  BY <1>4, <1>7, <1>24 DEF BlendLanes, Becomes
<1>25. CASE UNCHANGED vectors
  BY <1>1, <1>2, <1>25 DEF VectorsOK, vectors
<1> QED BY <1>5, <1>8, <1>9, <1>10, <1>11, <1>12, <1>13, <1>14, <1>15, <1>16, <1>17,
           <1>18, <1>19, <1>20, <1>21, <1>22, <1>23, <1>24, <1>25 DEF NextVectors

-----------------------------------------------------------------------------
(* The theorems.  ConstantsFit is the assumption on the constants that the *)
(* run evaluates: registers of any number of lanes that is halved twice.   *)

(* The registers stay in their unit, and every lane stays a word, whatever *)
(* instructions the machine executes.                                      *)
THEOREM VectorTypes == ASSUME ConstantsFit PROVE SpecVectors => []VectorsOK
<1>1. InitVectors => VectorsOK
  BY VectorsHold
<1>2. VectorsOK /\ [NextVectors]_vectors => VectorsOK'
  BY VectorsKept
<1> QED BY <1>1, <1>2, PTL DEF SpecVectors

(* Packed sums, averages, sums of neighbours and distances of the emulator *)
(* are those of the processor, for registers of any number of lanes.       *)
THEOREM PackedSumsAlwaysAgree == ConstantsFit /\ VectorsOK => PackedSumsAgree
BY TheUnits, SumsOfRegisters DEF VectorsOK

(* Packed products are the halves, the roundings and the sums of exact     *)
(* products that they are meant to be.                                     *)
THEOREM PackedProductsAlwaysAgree == ConstantsFit /\ VectorsOK => PackedProductsAgree
BY TheUnits, ProductsOfRegisters DEF VectorsOK

(* Comparisons, extremes, absolute values, signs, sign masks and tests of  *)
(* bits agree for all words, the one without an opposite among them.       *)
THEOREM PackedSignsAlwaysAgree == ConstantsFit /\ VectorsOK => PackedSignsAgree
BY TheUnits, SignsOfRegisters DEF VectorsOK

(* However a register is shifted as two halves that are put together, it   *)
(* shows the lanes that the processor moves, for every count and immediate.*)
THEOREM WindowsAlwaysAgree == ConstantsFit /\ VectorsOK => WindowsAgree
BY TheUnits, WindowsOfRegisters DEF VectorsOK

(* Shuffles, inserts, blends, packs and widenings take each lane from where*)
(* their immediate or their mask says.                                     *)
THEOREM ShufflesAlwaysAgree == ConstantsFit /\ VectorsOK => ShufflesAgree
BY TheUnits, ShufflesOfRegisters DEF VectorsOK

(* String comparisons answer by the same lane and flags, for every control *)
(* and any two strings or lengths.                                         *)
THEOREM StringsAlwaysAgree == ConstantsFit /\ VectorsOK => StringsAgree
BY TheUnits, StringsOfRegisters DEF VectorsOK

(* In every state the packed instructions of the emulator are those of the *)
(* processor: for lanes of every even width, registers of any number of    *)
(* lanes, whatever is loaded and however long the machine runs.            *)
THEOREM Vectors == ASSUME ConstantsFit PROVE SpecVectors => []VectorsAgree
<1>1. VectorsOK => VectorsAgree
  BY PackedSumsAlwaysAgree, PackedProductsAlwaysAgree, PackedSignsAlwaysAgree,
     WindowsAlwaysAgree, ShufflesAlwaysAgree, StringsAlwaysAgree DEF VectorsAgree
<1> QED BY <1>1, VectorTypes, PTL
=============================================================================
