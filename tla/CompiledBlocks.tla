--------------------------- MODULE CompiledBlocks ---------------------------
(* A basic block that is interpreted and compiled side by side: the         *)
(* interpreter (cpu.cpp) executes each instruction on the guest's state,    *)
(* while the compiler translates it and the host executes the code that was *)
(* made.  The body is then optimised and executed anew, and the block is    *)
(* left through its last instruction, entered by way of the trampoline      *)
(* (Jit::exec).                                                             *)
EXTENDS BlockCode, HostCode, Optimizer

CONSTANTS Entries,       \* numbers of the states blocks are entered in
          Instructions,  \* guest instructions that may come first
          Pool,          \* those among them that others may follow or precede
          Lasts,         \* last instructions
          MaxLength,     \* instructions of a body
          MaxLeft        \* instructions of a body that is left

ASSUME BoundsAssumption ==
  /\ Pool \subseteq Instructions
  /\ {MaxLength, MaxLeft} \subseteq Nat \ {0}

Cpu == INSTANCE Interpreter
Generator == INSTANCE CodeGenerator

VARIABLES entry,   \* the number of the entry state
          done,    \* the instructions translated so far
          body,    \* their code
          guest,   \* the state of the interpreter
          called,  \* the state of the host when the block has been called, ...
          start,   \* ... when it has come to the block's landing, ...
          native,  \* ... and after the code
          phase    \* "body", "optimised", "left", or "refused"

vars == <<entry, done, body, guest, called, start, native, phase>>

-----------------------------------------------------------------------------
(* Entry states: what Jit::exec hands to the trampoline in NativeArguments, *)
(* and registers and memory of the guest that differ from word to word.     *)
NativeBase == 50000              \* native code: the block's own, ...
NativeOf(target) == (NativeBase + target) % 65536  \* ... and that of an address
ReturnAddress == 49000           \* after the call of the trampoline
Chosen(e, i) == ((i * 7919) + (e * 10472) + 12345 + ((i * i * 31) % 977)) % 65536
Counters == <<3, 0, 5>>          \* rcx is small, for repeated instructions
ArgumentWords ==
  <<Regs, Mmxs, Xmms, Mem, FlagsCell, MxcsrCell, 10, TicksCell, Callstack, SizeCell,
    BlockCell, ThisBlock, NativeBase>>
(* Words at addresses outside the guest. *)
KnownTarget(e) == Chosen(e, 200)      \* an address that has compiled code
EmulatorWord(e, a) ==
  CASE a \in Arguments..(FlagsCell - 8) -> ArgumentWords[((a - Arguments) \div 8) + 1]
    [] a = FlagsCell -> (5 * e) % 16
    [] a = SizeCell  -> 1
    [] a = Callstack -> IF e % 2 = 0 THEN NativeOf(KnownTarget(e)) ELSE 0
    [] a = ThisBlock + BLOCK_LOOKUP_TABLE_OFFSET -> 2
    [] a = ThisBlock + BLOCK_LOOKUP_TABLE_OFFSET + 8 -> Addresses
    [] a = ThisBlock + BLOCK_LOOKUP_TABLE_OFFSET + 16 -> Blocks
    [] a = Addresses + 8 -> KnownTarget(e)
    [] a = Blocks + 8 -> IF e % 3 = 2 THEN 0 ELSE OtherBlock
    [] a = OtherBlock + NATIVE_BLOCK_OFFSET -> NativeOf(KnownTarget(e))
    [] OTHER -> Chosen(e, a) % 4096
GuestWord(e, a) ==
  CASE a = Regs + (8 * Gpr["rcx"]) -> Counters[(e % 3) + 1]
    [] a = Regs + (8 * Gpr["zero"]) -> 0
    [] a = Regs + (8 * Gpr["rsi"]) /\ e % 2 = 0 -> KnownTarget(e)
    [] OTHER -> Chosen(e, a)
Table(f) == f @@ <<>>  \* equal to f, and TLC evaluates all of it once
EntryMemory(e) ==
  Table([w \in 0..(MemoryEnd \div 8) |->
           IF 8 * w \in Regs..(HostStack - 8) THEN GuestWord(e, 8 * w)
           ELSE EmulatorWord(e, 8 * w)])
GuestEntry(e) == [memory |-> EntryMemory(e), flags |-> (5 * e) % 16]

(* The host when it calls the trampoline: its own registers are arbitrary.  *)
StackTop == MemoryEnd - 16
CallerRbp(e) == Chosen(e, 300 + Gpr["rbp"])
HostEntry(e) ==
  HostState(Table([r \in DOMAIN Gpr |-> CASE r = "rdi"  -> Arguments
                                          [] r = "rsp"  -> StackTop
                                          [] r = "zero" -> 0
                                          [] OTHER      -> Chosen(e, 300 + Gpr[r])]),
            Table([v \in DOMAIN Vec |-> Chosen(e, 400 + Vec[v])]),
            Table([v \in DOMAIN Vec |-> <<Chosen(e, 500 + Vec[v]), Chosen(e, 600 + Vec[v])>>]),
            Chosen(e, 700) % 16,
            [EntryMemory(e) EXCEPT ![StackTop \div 8] = ReturnAddress])
(* Up to the call of the block, and into it. *)
Called(e) ==
  LET h == Run(HostEntry(e), tryCompileJitTrampoline)
  IN [Pushed(h, ReturnAddress + 1) EXCEPT !.left = "no"]

-----------------------------------------------------------------------------
NextAddress(n) == 40000 + (16 * n)
Init ==
  /\ entry \in Entries
  /\ done = <<>> /\ body = <<>> /\ phase = "body"
  /\ guest = GuestEntry(entry)
  /\ called = Called(entry)
  /\ start = Run(called, generateIR(basicBlockEntrypoint))
  /\ native = start

(* The translations: what the compiler makes of an instruction depends on   *)
(* nothing but its place.                                                   *)
Translations ==
  [n \in 1..MaxLength |-> [g \in Instructions |-> tryCompile(g, NextAddress(n))]]

(* The body: each instruction is executed by both, or the block is refused  *)
(* and stays with the interpreter.                                          *)
MayFollow(g) ==
  /\ Len(done) < MaxLength
  /\ done = <<>> \/ ({g} \cup ToSet(done)) \subseteq Pool
Emitted(code) ==
  IF Compiles(code)
  THEN body' = body \o code /\ native' = RunCode(native, code) /\ UNCHANGED phase
  ELSE phase' = "refused" /\ UNCHANGED <<body, native>>
Translate(g) ==
  /\ phase = "body" /\ MayFollow(g)
  /\ done' = Append(done, g)
  /\ guest' = Cpu!exec(guest, g, NextAddress(Len(done) + 1))
  /\ Emitted(Translations[Len(done) + 1][g])
  /\ UNCHANGED <<entry, called, start>>

(* Optimizer::optimize on the body; the host executes what is left of it.   *)
OptimiseBody ==
  /\ phase = "body" /\ done # <<>>
  /\ body' = Optimize(body)
  /\ native' = RunCode(start, body')
  /\ phase' = "optimised"
  /\ UNCHANGED <<entry, done, guest, called, start>>

(* The whole block, called by the trampoline.  Either the block returns and *)
(* the trampoline ends, or it jumps to the code of another block.           *)
Resumed(h, trampoline) ==
  LET call == CHOOSE i \in DOMAIN trampoline.instructions :
                trampoline.instructions[i].op = "call"
  IN RunFrom([h EXCEPT !.left = "no", !.goto = call], trampoline, 100)
ReturnedTo(h) == IF h.left = "ret" /\ h.to = ReturnAddress + 1
                 THEN Resumed(h, tryCompileJitTrampoline) ELSE h
RunBlock(block) == ReturnedTo(Run(called, block))
LinksFor(last, linked) ==
  LET place(target) == IF linked THEN NativeOf(target) ELSE 0
      next == NextAddress(Len(done) + 1)
  IN [next |-> place(next), other |-> place(last.dst.n), push |-> place(next)]
BlockOf(last, linked) ==
  tryCompileIR([EmptyIr EXCEPT !.instructions = body], Len(done) + 1, OtherBlock,
               ThisBlock, last, NextAddress(Len(done) + 1), LinksFor(last, linked))
LeftThrough(block) ==
  IF Compiles(block.instructions)
  THEN body' = block.instructions /\ phase' = "left" /\ native' = RunBlock(block)
  ELSE phase' = "refused" /\ UNCHANGED <<body, native>>
Leave(last, linked) ==
  /\ phase = "optimised"
  /\ Len(done) <= MaxLeft /\ ToSet(done) \subseteq Pool
  /\ guest' = Cpu!execBranch(guest, last, NextAddress(Len(done) + 1))
  /\ done' = Append(done, last)
  /\ LeftThrough(BlockOf(last, linked))
  /\ UNCHANGED <<entry, called, start>>

Next ==
  \/ \E g \in Instructions : Translate(g)
  \/ OptimiseBody
  \/ \E last \in Lasts, linked \in BOOLEAN : Leave(last, linked)
Spec == Init /\ [][Next]_vars

-----------------------------------------------------------------------------
(* The members have their types, and neither side loses a word of memory.  *)
TypeOK ==
  /\ entry \in Entries
  /\ phase \in {"body", "optimised", "left", "refused"}
  /\ Len(done) <= MaxLength + 1
  /\ \A i \in DOMAIN body : body[i].cond \in ToSet(Conditions) \cup {"none"}
  /\ guest.flags \in 0..15 /\ native.flags \in 0..15
  /\ \A w \in DOMAIN guest.memory : {guest.memory[w], native.memory[w]} \subseteq 0..65535
  /\ DOMAIN native.memory = DOMAIN guest.memory
  /\ \A r \in DOMAIN native.gpr : native.gpr[r] \in 0..65535

(* Where the interpreter and the native code are known to differ: forms of  *)
(* 32 bits whose upper half one of them clears and the other keeps, the     *)
(* register form of cmpxchg on rax, which is written twice, and the flags   *)
(* after a division.                                                        *)
UpperHalfDiffers(g) ==
  /\ g.op \in {"bsf", "cmov", "cmpxchg", "lockcmpxchg"}
  /\ g.src.z = 4
WrittenTwice(g) == g.op = "cmpxchg" /\ IsGuestReg(g.dst) /\ g.dst.r = "rax"
Known(g) == UpperHalfDiffers(g) \/ WrittenTwice(g)
FlagsUndefined(g) == g.op \in {"div", "idiv"}

GuestWords == (Regs \div 8)..((HostStack \div 8) - 1)
SameGuest == \A w \in GuestWords : native.memory[w] = guest.memory[w]
SameFlags == native.flags = guest.flags \/ \E i \in DOMAIN done : FlagsUndefined(done[i])
NothingKnown == \A i \in DOMAIN done : ~Known(done[i])
(* The base registers, the stack of the host and what is above it are as    *)
(* the block found them.                                                    *)
Bases == {REG_BASE, MMX_BASE, XMM_BASE, MEM_BASE, ARGUMENTS, "rsp", "rbp"}
HostKept ==
  /\ ~native.bad
  /\ \A r \in Bases : native.gpr[r] = start.gpr[r]
  /\ \A w \in (start.gpr["rsp"] \div 8)..(MemoryEnd \div 8) :
       native.memory[w] = start.memory[w]

(* Translated code leaves the guest's registers, memory and flags as the    *)
(* interpreter does.                                                        *)
TranslatedAgrees == phase = "body" /\ NothingKnown => SameGuest /\ SameFlags

(* Whatever the body borrows of the host it gives back, and it stays in the *)
(* memory its base registers point to.                                      *)
HostIsKept == phase \in {"body", "optimised"} => HostKept

(* The body of a block: the guest sees the instructions, and nothing else   *)
(* sees it.                                                                 *)
BodyIsFaithful == TypeOK /\ TranslatedAgrees /\ HostIsKept

(* The optimised body does what the interpreter does.  Two things are out   *)
(* of the optimizer's sight: that a word read at an address overlaps one    *)
(* that was stored without being the same, and that an exchange changes its *)
(* second operand, which is lost if the first one is dead.                  *)
Straddles(a, b) ==
  /\ IsMemory(a) /\ IsMemory(b) /\ a.z = 8 /\ b.z = 8
  /\ a.r = b.r /\ a.i = b.i /\ a # b
  /\ a.n < b.n + 8 /\ b.n < a.n + 8
OverlapsStore ==
  \E i, j \in DOMAIN done : i < j /\ Straddles(done[i].dst, done[j].src)
Exchanges(code) == Cardinality({i \in DOMAIN code : code[i].op = "xchg"})
LosesExchange == Exchanges(body) < Exchanges(done)
OptimisedAgrees ==
  phase = "optimised" /\ NothingKnown /\ ~OverlapsStore /\ ~LosesExchange =>
    SameGuest /\ SameFlags

(* Every instruction the compiler emits has machine code: the verify of     *)
(* CodeGenerator::tryGenerate (codegenerator.cpp:56).                       *)
VerifyGenerates == \A i \in DOMAIN body : Generator!Generates(body[i])
(* It fails for the shifts by a register that have no case, and for nothing *)
(* else.                                                                    *)
MissingShift(ins) ==
  \/ ins.op \in {"psllw", "psrlw", "psrlq"} /\ ins.out.k = "xmm" /\ ins.in2.k = "xmm"
  \/ ins.op = "psrad" /\ ins.out.k = "mmx" /\ ins.in2.k = "mmx"
OnlyShiftsAreMissing == \A i \in DOMAIN body : Generator!Generates(body[i]) \/ MissingShift(body[i])

-----------------------------------------------------------------------------
(* The exit. *)
Word(h, at) == h.memory[at \div 8]
Branch == done[Len(done)]
Returned == native.left = "ret"
Jumped == native.left = "jump"
GuestRip == guest.memory[(Regs \div 8) + Gpr["rip"]]

(* The target of a call in memory is read after the return address has     *)
(* been pushed, which may be over it.                                      *)
TargetOverwritten ==
  LET apart(a, b) == Wrap(a - b) >= 8
      target == Cpu!resolve(guest, Branch.dst)
      pushed == Cpu!Gpr64(guest, "rsp")
  IN /\ Branch.op = "callind" /\ IsMemory(Branch.dst)
     /\ ~(apart(target, pushed) /\ apart(pushed, target))

(* A block that is left gave the guest the state the interpreter gives it,  *)
(* RIP included, and its flags: in the processor where other native code    *)
(* goes on, in the emulator's where the trampoline has returned.            *)
ExitAgrees ==
  phase = "left" /\ ~TargetOverwritten =>
    /\ SameGuest /\ ~native.bad
    /\ Returned \/ Jumped
    /\ (IF Jumped THEN native.flags ELSE Word(native, FlagsCell)) = guest.flags

(* It is accounted for once: its instructions, its call, and which block    *)
(* the emulator has to go on from.                                          *)
ExitAccounts ==
  phase = "left" =>
    LET calls == ThisBlock + CALLS_OFFSET
    IN /\ Word(native, TicksCell) = Word(start, TicksCell) + Len(done)
       /\ Word(native, calls) = Word(start, calls) + 1
       /\ Word(native, BlockCell) = OtherBlock
       /\ Word(native, Arguments + JIT_BASIC_BLOCK) = ThisBlock

(* Chained code goes on at the landing of the block of the address that RIP *)
(* has, with the stack as that block's own entry leaves it; a return uses   *)
(* the pointer its call left, or the trampoline where there is none.        *)
ChainsToRip ==
  phase = "left" /\ ~TargetOverwritten =>
    /\ Jumped => /\ native.to = IF Branch.op = "ret" THEN Word(start, Callstack)
                                ELSE NativeOf(GuestRip)
                 /\ \A r \in Bases : native.gpr[r] = start.gpr[r]
    /\ Returned => /\ native.to = ReturnAddress
                   /\ native.gpr["rsp"] = StackTop + 8
                   /\ native.gpr["rbp"] = CallerRbp(entry)

(* The call stack has the native address of the code after a call on top,   *)
(* and a return takes one entry away and clears it.                         *)
CallstackFollows ==
  phase = "left" =>
    LET size == Word(native, SizeCell)
        top == Word(native, Callstack + 8)
    IN CASE Branch.op \in {"call", "callind"} ->
              size = 2 /\ top \in {0, NativeOf(NextAddress(Len(done)))}
         [] Branch.op = "ret" -> size = 0 /\ Word(native, Callstack) = 0
         [] OTHER -> size = 1 /\ Word(native, Callstack) = Word(start, Callstack)

(* The way out of a block, however it is linked.                            *)
ExitIsFaithful == ExitAgrees /\ ExitAccounts /\ ChainsToRip /\ CallstackFollows
=============================================================================
