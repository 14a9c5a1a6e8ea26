-------------------------------- MODULE Words -------------------------------
(***************************************************************************)
(* Machine words of any width, as the numbers from 0 to 2 * Half - 1: the  *)
(* types u8 to u64 of the emulator (x64/types.h), their two's complement   *)
(* reading i8 to i64, and their bits.                                      *)
(***************************************************************************)
EXTENDS Integers, FiniteSets

CONSTANTS
  Width,     \* the bits of a word: 8, 16, 32 or 64
  Half,      \* the weight of its sign bit
  Counts,    \* shift counts are taken modulo this: 64 for u64, 32 for others
  ByteBits   \* the bits of a byte

ASSUME WidthAssumption ==
  /\ Width \in Nat \ {0} /\ Width % 2 = 0 /\ Half \in Nat \ {0}
  /\ 2 * Half = 2^Width

ASSUME CountsAssumption ==
  /\ Counts \in Nat \ {0, 1} /\ ByteBits \in Nat \ {0}
  /\ \E n \in 1..Width : Width = n * ByteBits

Size == 2 * Half
Word == 0..Size - 1
Places == 0..Width - 1

Bit(x, i) == (x \div 2^i) % 2
Bits(x) == {i \in Places : Bit(x, i) = 1}

(* the word with the bits B *)
Weights == [i \in Places |-> 2^i]
WordOf(B) ==
  LET sum[i \in 0..Width] ==
        IF i = 0 THEN 0
        ELSE sum[i - 1] + IF i - 1 \in B THEN Weights[i - 1] ELSE 0
  IN  sum[Width]

Negative(x) == x >= Half
Signed(x) == IF Negative(x) THEN x - Size ELSE x
Wrap(n) == n % Size              \* conversion of an integer to a word
Not(x) == Size - 1 - x
And(x, y) == WordOf(Bits(x) \cap Bits(y))
Or(x, y) == WordOf(Bits(x) \cup Bits(y))
Xor(x, y) == WordOf((Bits(x) \cup Bits(y)) \ (Bits(x) \cap Bits(y)))

Exclusive(p, q) == p # q         \* of two truth values

Flags == [carry : BOOLEAN, zero : BOOLEAN, sign : BOOLEAN,
          overflow : BOOLEAN, parity : BOOLEAN]

(* computeParity: whether the low byte has an even number of ones *)
EvenBits(x) == Cardinality(Bits(x) \cap 0..ByteBits - 1) % 2 = 0
=============================================================================
