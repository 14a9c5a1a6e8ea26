------------------------------- MODULE Machine ------------------------------
(* The data that interpreted and compiled code work on: bytes of two bits,  *)
(* so that a 64-bit word is a number below 65536, and a memory of such      *)
(* words.  Registers of the guest are memory, as they are for native code   *)
(* (NativeArguments, jit.h:16): the general registers, the MMX and XMM      *)
(* registers, the guest's own memory and the arguments of the block each    *)
(* have their place.  Operations whose value no property looks at mix their *)
(* operands; the checked processor (CheckedCpuImpl) compares their values.  *)
EXTENDS Integers, Sequences

CONSTANTS MemWords,   \* words of guest memory: addresses wrap around
          XmmCount,   \* XMM registers of the guest
          MmxCount    \* MMX registers of the guest

ASSUME SizesAssumption == {MemWords, XmmCount, MmxCount} \subseteq Nat \ {0}

ByteValues == 4
Radix == [k \in 0..8 |-> ByteValues ^ k]
Modulus(size) == Radix[size]

(* The part of a word that starts at byte off, and the word with that part *)
(* replaced. *)
Part(word, off, size) == (word \div Radix[off]) % Radix[size]
WithPart(word, off, size, value) ==
  word + (value - Part(word, off, size)) * Radix[off]

SignExtend(value, from, to) ==
  IF 2 * value >= Modulus(from) THEN value + Modulus(to) - Modulus(from) ELSE value

-----------------------------------------------------------------------------
(* Names of registers, in the order of their enumerations. *)
R64 == <<"rax", "rcx", "rdx", "rbx", "rsp", "rbp", "rsi", "rdi", "r8", "r9",
         "r10", "r11", "r12", "r13", "r14", "r15", "rip", "zero">>
Position(seq) == [x \in {seq[i] : i \in DOMAIN seq} |->
                    (CHOOSE i \in DOMAIN seq : seq[i] = x) - 1]
Gpr == Position(R64)
Vectors == <<"0", "1", "2", "3", "4", "5", "6", "7", "8", "9", "10", "11",
             "12", "13", "14", "15">>
Vec == Position(Vectors)

(* The places of the regions in the one memory, in bytes: the arguments,    *)
(* what they point to, the registers and memory of the guest, and the stack *)
(* of the host.                                                             *)
RegionWords == <<13, 1, 1, 1, 1, 1, 3, 9, 9, 2, 2, Len(R64), MmxCount, 2 * XmmCount,
                 MemWords, 10>>
Start[i \in 1..17] == IF i = 1 THEN 8 ELSE Start[i - 1] + (8 * RegionWords[i - 1])
Arguments  == Start[1]
FlagsCell  == Start[2]
MxcsrCell  == Start[3]
TicksCell  == Start[4]
SizeCell   == Start[5]
BlockCell  == Start[6]
Callstack  == Start[7]
ThisBlock  == Start[8]
OtherBlock == Start[9]
Addresses  == Start[10]
Blocks     == Start[11]
Regs       == Start[12]
Mmxs       == Start[13]
Xmms       == Start[14]
Mem        == Start[15]
HostStack  == Start[16]
MemoryEnd  == Start[17]
Regions == {<<Start[i], Start[i + 1]>> : i \in 1..16}
InRegionOf(pointer, address, size) ==
  \E r \in Regions : /\ pointer \in r[1]..r[2]
                     /\ r[1] <= address /\ address + size <= r[2]

Load(memory, address, size) ==
  LET off == address % 8
      at  == address \div 8
  IN IF off + size <= 8 THEN Part(memory[at], off, size)
     ELSE Part(memory[at], off, 8 - off)
            + Part(memory[at + 1], 0, off + size - 8) * Radix[8 - off]
Store(memory, address, size, value) ==
  LET off == address % 8
      at  == address \div 8
  IN IF off + size <= 8
     THEN [memory EXCEPT ![at] = WithPart(@, off, size, value)]
     ELSE [memory EXCEPT
             ![at] = WithPart(@, off, 8 - off, value % Radix[8 - off]),
             ![at + 1] = WithPart(@, 0, off + size - 8, value \div Radix[8 - off])]

(* Guest addresses wrap: the words of guest memory repeat. *)
Wrap(address) == address % (8 * MemWords)
LoadMem(memory, address, size) ==
  LET a == Wrap(address)
  IN IF a + size <= 8 * MemWords THEN Load(memory, Mem + a, size)
     ELSE LET low == 8 * MemWords - a
          IN Load(memory, Mem + a, low) + Load(memory, Mem, size - low) * Radix[low]
StoreMem(memory, address, size, value) ==
  LET a == Wrap(address)
  IN IF a + size <= 8 * MemWords THEN Store(memory, Mem + a, size, value)
     ELSE LET low == 8 * MemWords - a
          IN Store(Store(memory, Mem + a, low, value % Radix[low]),
                   Mem, size - low, value \div Radix[low])

(* A value of 128 bits is a pair of words, low first. *)
LoadPair(memory, address) == <<Load(memory, address, 8), Load(memory, address + 8, 8)>>
StorePair(memory, address, pair) ==
  Store(Store(memory, address, 8, pair[1]), address + 8, 8, pair[2])
LoadMemPair(memory, address) ==
  <<LoadMem(memory, address, 8), LoadMem(memory, address + 8, 8)>>
StoreMemPair(memory, address, pair) ==
  StoreMem(StoreMem(memory, address, 8, pair[1]), address + 8, 8, pair[2])

-----------------------------------------------------------------------------
(* Arithmetic.  Sums, differences, increments, exclusive ors of equals and  *)
(* sign extensions are what they are, since addresses are made of them; any *)
(* other operation gives a number that depends on its name, the size and    *)
(* all of its operands.                                                     *)
Names == <<"add", "adc", "sub", "sbb", "cmp", "shl", "shr", "sar", "rol", "ror",
  "rcl", "rcr", "mul", "imul", "div", "idiv", "mulhi", "imulhi", "divrem", "idivrem",
  "test", "and", "or", "xor", "not", "neg", "inc", "dec", "bsf", "bsr", "tzcnt",
  "bswap", "bt", "btr", "bts", "btc", "popcnt", "shld", "shrd", "cmpxchg", "xadd">>
Number == [x \in {Names[i] : i \in DOMAIN Names} |->
             2 * (CHOOSE i \in DOMAIN Names : Names[i] = x) + 1]

ReadsFlags == {"adc", "sbb", "inc", "dec", "shl", "shr", "sar", "rol", "ror", "rcl",
               "rcr", "bt", "btr", "bts", "btc", "shld", "shrd"}
KeepsFlags == {"not", "bswap"}

Value(op, size, a, b, flags) ==
  CASE op = "add" -> (a + b) % Modulus(size)
    [] op \in {"sub", "cmp"} -> (a - b) % Modulus(size)
    [] op = "inc" -> (a + 1) % Modulus(size)
    [] op \in {"xor"} /\ a = b -> 0
    [] OTHER -> (a + (3 * (b + (b % 5))) + (Number[op] * ((a % 3) + size))
                 + IF op \in {"adc", "sbb", "rcl", "rcr"} THEN 7 * flags ELSE 0) % Modulus(size)
(* The zero flag, of weight 4, is what it is after a comparison and after  *)
(* the test of a number with itself.                                       *)
ZeroFlag == 4
FlagsAfter(op, size, a, b, flags) ==
  LET mixed == ((a % 251) + (3 * (b % 239)) + (Number[op] * 5) + size
                + IF op \in ReadsFlags THEN 5 * flags ELSE 0) % 16
      zero == IF op = "cmp" THEN a = b ELSE a = 0
  IN CASE op \in KeepsFlags -> flags
       [] op = "cmp" \/ (op = "test" /\ a = b) ->
            (mixed % ZeroFlag) + (8 * (mixed \div 8)) + IF zero THEN ZeroFlag ELSE 0
       [] OTHER -> mixed

(* Conditions come in pairs, one the negation of the other. *)
Conditions == <<"O", "NO", "B", "NB", "E", "NE", "BE", "NBE",
                "S", "NS", "P", "NP", "L", "NL", "LE", "NLE">>
CondIndex == Position(Conditions)
Holds(cond, flags) ==
  LET i == CondIndex[cond]
      pair == i \div 2
      bit == (flags \div 2 ^ (pair % 4)) + IF pair < 4 THEN 0 ELSE flags \div 2
  IN (bit + i) % 2 = 1

(* An operation on vectors: the result depends on the operation, on the    *)
(* immediate operand if it has one, on both operands and on which is which. *)
VectorNames == <<"pand", "pandn", "por", "pxor", "paddb", "paddw", "paddd",
  "paddq", "paddsb", "paddsw", "paddusb", "paddusw", "psubb", "psubw",
  "psubd", "psubq", "psubsb", "psubsw", "psubusb", "psubusw", "pmaddwd",
  "psadbw", "pmulhw", "pmullw", "pmulhuw", "pmuludq", "pavgb", "pavgw",
  "pmaxub", "pminub", "pcmpeqb", "pcmpeqw", "pcmpeqd", "pcmpgtb", "pcmpgtw",
  "pcmpgtd", "psllw", "pslld", "psllq", "pslldq", "psrlw", "psrld", "psrlq",
  "psrldq", "psraw", "psrad", "pshufb", "pshufw", "pshufd", "pshuflw",
  "pshufhw", "punpcklbw", "punpcklwd", "punpckldq", "punpcklqdq",
  "punpckhbw", "punpckhwd", "punpckhdq", "punpckhqdq", "packsswb",
  "packssdw", "packuswb", "packusdw", "addps", "subps", "mulps", "divps",
  "maxps", "minps", "maxpd", "minpd", "cmpps", "cvtps2dq", "cvttps2dq",
  "cvttpd2dq", "cvtdq2ps", "addpd", "subpd", "mulpd", "divpd", "andpd",
  "andnpd", "orpd", "xorpd", "shufps", "shufpd", "unpckhps", "unpckhpd",
  "unpcklps", "unpcklpd", "palignr", "phaddw", "phaddd", "pmaddubsw",
  "pmulhrsw", "pmaxsd", "pminsd", "pmulld", "pmovzxbw", "roundps",
  "roundpd", "blendvps", "pblendvb", "addss", "subss", "mulss", "divss",
  "addsd", "subsd", "mulsd", "divsd", "maxsd", "minsd", "sqrtsd",
  "cvtss2sd", "cvtsd2ss", "cvtsi2ss", "cvtsi2sd", "cvttsd2si", "cmpsd",
  "comiss", "comisd", "ucomisd", "ptest", "pinsrw", "pextrw", "pextrd",
  "pextrq", "pinsrd", "pmovmskb", "movddup">>
VectorNumber == Position(VectorNames)
Mix(op, imm, a, b) ==
  ((3 * a) + (5 * (b % 7919)) + ((a % 11) * (b % 13)) + (17 * VectorNumber[op]) + (31 * imm)) % 65536
MixPair(op, imm, a, b) ==
  <<Mix(op, imm, a[1], b[1]),
    (Mix(op, imm, a[2], b[2]) + (a[1] % 3) + (b[1] % 5)) % 65536>>
Fold(pair) == (pair[1] + (3 * (pair[2] % 9973))) % 65536

(* An operation on the low number of its operands: it reads a single or a  *)
(* double and keeps the rest of the destination.                           *)
Singles == {"addss", "subss", "mulss", "divss", "comiss"}
Doubles == {"addsd", "subsd", "mulsd", "divsd", "cmpsd", "maxsd", "minsd", "sqrtsd",
            "comisd", "ucomisd"}
Conversions == {"cvtss2sd", "cvtsd2ss", "cvtsi2ss", "cvtsi2sd"}
Scalars == Singles \cup Doubles \cup Conversions
SourceSize(op) == IF op \in Singles \cup {"cvtss2sd"} THEN 4 ELSE 8
ResultSize(op) == IF op \in Singles \cup {"cvtsd2ss", "cvtsi2ss"} THEN 4 ELSE 8
MixLow(op, imm, a, b) ==
  LET s == SourceSize(op)
      x == IF op \in Conversions \cup {"sqrtsd"} THEN 0 ELSE Part(a[1], 0, s)
  IN Mix(op, imm, x, Part(b[1], 0, s))
MixScalar(op, imm, a, b) ==
  LET r == ResultSize(op)
  IN <<WithPart(a[1], 0, r, MixLow(op, imm, a, b) % Modulus(r)), a[2]>>
(* Operations whose result does not depend on their destination. *)
OneOperand == {"pshufw", "pshufd", "pshuflw", "pshufhw", "pmovzxbw", "roundps", "roundpd",
               "cvtps2dq", "cvttps2dq", "cvttpd2dq", "cvtdq2ps"}
MixVector(op, imm, a, b) ==
  IF op \in Scalars THEN MixScalar(op, imm, a, b) ELSE MixPair(op, imm, a, b)
=============================================================================
