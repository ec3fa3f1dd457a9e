------------------------------ MODULE Execution ------------------------------
(***************************************************************************)
(* cpu::step at the level of words: a program in memory is decoded and     *)
(* executed on the registers, the stacks and the data memory, and          *)
(* exceptions stack a frame of eight words and unstack it on return.       *)
(*                                                                         *)
(* The machine is a record; an operator that ends in a machine is what a   *)
(* function of the code leaves behind.  Words are scaled (see Memory) but  *)
(* instructions have their real encodings, so they are kept apart from the *)
(* data, by the address of each halfword.  Which exception is taken is     *)
(* ExceptionVector's business and what the flags become is Alu's.          *)
(*                                                                         *)
(* Two kinds of behaviour follow the start of a program: one step of any   *)
(* instruction of a set, or a short program that runs to its end, with     *)
(* interrupts raised between any two of its instructions.                  *)
(***************************************************************************)
EXTENDS Loader, Decoder

CONSTANTS
  Images,                 \* images, each with the word that fills what it lacks
  MappedRegisters,        \* memory mapped registers, with their reset value
  ExternalInterrupts, Priorities,   \* as ExceptionVector has them; all are enabled
  Handlers,               \* the halfword at each address of the handlers
  CodeStart,              \* address of the program
  Setups(_),              \* what the main of an image does to the registers before it
  Instructions(_),        \* pairs of halfwords that are tried after a setup
  Programs(_),            \* programs that are run after a setup, each with its
                          \* purpose and the interrupts raised, once, while it runs
  MaxSteps                \* bound: steps of a program that are followed

\* Registers are where link.ld puts nothing.
ASSUME RegistersAssumption ==
  \A a \in DOMAIN MappedRegisters : a \in Nat /\ a % 4 = 0 /\ MappedRegisters[a] \in Word

ASSUME ImagesAssumption ==
  \A i \in Images :
    /\ WellLinked(i) /\ i.fill \in Word
    /\ \A s \in ToSet(i.segments) : Areas(s) \cap DOMAIN MappedRegisters = {}

\* instruction_pair: two halfwords
ASSUME InstructionsAssumption ==
  \A i \in Images : \A s \in Setups(i) : Instructions(s) \subseteq Halfword \X Halfword

\* main leaves words in the registers, and room for a frame on its stack.
ASSUME SetupsAssumption ==
  \A i \in Images : \A s \in Setups(i) :
    /\ s.r \in [0..12 -> Word] /\ {s.lr, s.main, s.process} \subseteq Word /\ s.spsel \in BOOLEAN
    /\ \A k \in 1..9 : Aligned(IF s.spsel THEN s.process ELSE s.main) - 4 * k
                         \in UNION {Areas(segment) : segment \in ToSet(i.segments)}

\* What PC is when an instruction at CodeStart is executed, is an address.
ASSUME CodeAssumption == CodeStart \in Word /\ CodeStart % 2 = 0 /\ CodeStart + 4 \in Word

\* XPSR has its fields in 16 bits or more.
ASSUME FrameAssumption == ByteBits >= 4

HARDFAULT == 3
SVCALL    == 11

SP == 13
LR == 14
PC == 15
Discarded == 16           \* destination of a comparison

\* EXC_RETURN: all ones but for the last four bits
ExcReturn(ret_bits) == Modulus - 16 + ret_bits
ToHandler           == ExcReturn(1)
ToThreadMain        == ExcReturn(9)
ToThreadProcess     == ExcReturn(13)

VARIABLES
  stage,     \* "off", "loaded", "reset", "main", "stepped" or "running"
  image,     \* the image that is loaded
  machine,
  program,   \* the program that runs
  before,    \* history: the machine when it, or the one instruction, started
  last,      \* history: the last step
  raised,    \* history: the interrupts that were raised
  saved      \* history: the contexts that were interrupted, most recent last

vars == <<stage, image, machine, program, before, last, raised, saved>>

A(m) == INSTANCE Alu
          WITH WordSize <- WordBits, Half <- Modulus \div 2, Registers <- 0..12,
               Immediates <- {}, MaxWeight <- 1,
               regs <- m.r, flags <- m.flags, compared <- 0, chain <- 0

V(m) == INSTANCE ExceptionVector
          WITH active <- m.active, pending <- m.pending,
               enabled <- ExternalInterrupts, prio <- Priorities

-----------------------------------------------------------------------------
(* Registers *)

\* sp_reg::current_banked_value
OnProcessStack(m) == m.mode = "thread" /\ m.spsel

BankedSp(m)  == IF OnProcessStack(m) THEN m.process ELSE m.main
WithSp(m, v) == IF OnProcessStack(m) THEN [m EXCEPT !.process = Wrap(v)]
                                     ELSE [m EXCEPT !.main = Wrap(v)]

\* The registers mask the low bits when they are read, not when written.
Sp(m) == Aligned(BankedSp(m))
Pc(m) == m.pc - (m.pc % 2)

WithPc(m, v) == [m EXCEPT !.pc = Wrap(v), !.branched = TRUE]

\* core_registers::get, core_registers::set
Get(m, i) ==
  CASE i < SP -> m.r[i]
    [] i = SP -> Sp(m)
    [] i = LR -> m.lr
    [] i = PC -> Pc(m)

Put(m, i, v) ==
  CASE i < SP        -> [m EXCEPT !.r[i] = Wrap(v)]
    [] i = SP        -> WithSp(m, v)
    [] i = LR        -> [m EXCEPT !.lr = Wrap(v)]
    [] i = PC        -> WithPc(m, v)
    [] i = Discarded -> m

\* rd or rt, rn or rm, and rm of the common layouts; rd or rt of the others
Rd(hw)  == Field(hw, 0, 3)
Rn(hw)  == Field(hw, 3, 3)
Rm(hw)  == Field(hw, 6, 3)
Rd8(hw) == Field(hw, 8, 3)

Imm5(hw) == Field(hw, 6, 5)
Imm8(hw) == Field(hw, 0, 8)

HardFault(m) == [m EXCEPT !.pending = @ \cup {HARDFAULT}]

-----------------------------------------------------------------------------
(* Data processing *)

Inverted(v) == Modulus - 1 - v

Arithmetic == {"add_reg", "subs_reg", "add_imm", "subs_imm", "cmp_imm", "add_imm_t2",
               "subs_imm8", "adc", "sbc", "rsb_imm", "cmp_reg", "cmn_reg", "cmp_highreg"}

\* What add_with_carry is called with, and where its result goes.
Sum(rd, a, b, carry) == [rd |-> rd, a |-> a, b |-> b, carry |-> carry]

Sums(kind, hw, m) ==
  LET d == m.r[Rd(hw)]
      n == m.r[Rn(hw)]
      r == m.r[Rm(hw)]
      e == m.r[Rd8(hw)]
  IN CASE kind = "add_reg"    -> Sum(Rd(hw), n, r, FALSE)
       [] kind = "subs_reg"   -> Sum(Rd(hw), n, Inverted(r), TRUE)
       [] kind = "add_imm"    -> Sum(Rd(hw), n, Rm(hw), FALSE)
       [] kind = "subs_imm"   -> Sum(Rd(hw), n, Inverted(Rm(hw)), TRUE)
       [] kind = "cmp_imm"    -> Sum(Discarded, e, Inverted(Imm8(hw)), TRUE)
       [] kind = "add_imm_t2" -> Sum(Rd8(hw), e, Imm8(hw), FALSE)
       [] kind = "subs_imm8"  -> Sum(Rd8(hw), e, Inverted(Imm8(hw)), TRUE)
       [] kind = "adc"        -> Sum(Rd(hw), d, n, m.flags.c)
       [] kind = "sbc"        -> Sum(Rd(hw), d, Inverted(n), m.flags.c)
       [] kind = "rsb_imm"    -> Sum(Rd(hw), Inverted(n), 0, TRUE)
       [] kind = "cmp_reg"    -> Sum(Discarded, d, Inverted(n), TRUE)
       [] kind = "cmn_reg"    -> Sum(Discarded, d, n, FALSE)
       [] kind = "cmp_highreg" ->
            Sum(Discarded, Get(m, HighRegister(hw)), Inverted(Get(m, Field(hw, 3, 4))), TRUE)

Add(s, m) ==
  LET sum == A(m)!AddWithCarry(s.a, s.b, s.carry)
  IN Put([m EXCEPT !.flags = [n |-> A(m)!SignBit(sum.result), z |-> sum.result = 0,
                              c |-> sum.carry, v |-> sum.overflow]],
         s.rd, sum.result)

\* The low word of the product; the intermediate ones stay small.
Product(a, b) ==
  LET half == 2^(WordBits \div 2)
  IN Wrap((a % half) * b + half * (((a \div half) * b) % half))

OfBits(bits) == SumSet({2^k : k \in bits})

NegZero(m, v) == [m EXCEPT !.flags.n = A(m)!SignBit(v), !.flags.z = (v = 0)]

Logical(kind, hw, m) ==
  LET d == m.r[Rd(hw)]
      n == m.r[Rn(hw)]
      value ==
        CASE kind \in {"and_reg", "tst_reg"} -> OfBits(Bits(d) \cap Bits(n))
          [] kind = "eor_reg" -> OfBits((Bits(d) \ Bits(n)) \cup (Bits(n) \ Bits(d)))
          [] kind = "orr_reg" -> OfBits(Bits(d) \cup Bits(n))
          [] kind = "bic_reg" -> OfBits(Bits(d) \ Bits(n))
          [] kind = "mul_reg" -> Product(d, n)
          [] kind = "mvn"     -> Inverted(n)
          [] kind = "movs"    -> n
          [] kind = "mov_imm" -> Imm8(hw)
      rd == CASE kind = "tst_reg" -> Discarded
              [] kind = "mov_imm" -> Rd8(hw)
              [] OTHER            -> Rd(hw)
  IN Put(NegZero(m, value), rd, value)

\* By an immediate, of Rm into Rd, where 0 stands for the word size but in LSL
\* (there it is MOVS); or by the low eight bits of Rm, of Rd into Rd.
Shifts(kind, hw, m) ==
  LET byImmediate == kind \in {"lsl_imm", "lsr_imm", "asr_imm"}
      value == IF byImmediate THEN m.r[Rn(hw)] ELSE m.r[Rd(hw)]
      count == IF ~byImmediate THEN m.r[Rn(hw)] % 256
               ELSE IF Imm5(hw) = 0 THEN WordBits ELSE Imm5(hw)
      shifted ==
        CASE kind \in {"lsl_imm", "lsl_reg"} -> {A(m)!Lsl(value, count, m.flags.c)}
          [] kind \in {"lsr_imm", "lsr_reg"} -> {A(m)!Lsr(value, count, m.flags.c)}
          [] kind \in {"asr_imm", "asr_reg"} -> {A(m)!Asr(value, count, m.flags.c)}
          [] kind = "ror_reg"                -> A(m)!Ror(value, count, m.flags.c)
  IN {Put([NegZero(m, s.result) EXCEPT !.flags.c = s.carry], Rd(hw), s.result) : s \in shifted}

\* SXTH, SXTB, UXTH, UXTB and the reversals of bytes
Extended(kind, hw, m) ==
  LET v == m.r[Rn(hw)]
      unit == 2^ByteBits
      byte(i) == Part(v, i, 1)
      value ==
        CASE kind = "sxth" -> SignedField(v, 2 * ByteBits)
          [] kind = "sxtb" -> SignedField(v, ByteBits)
          [] kind = "uxth" -> Part(v, 0, 2)
          [] kind = "uxtb" -> byte(0)
          [] kind = "rev_word" ->
               byte(0) * unit^3 + byte(1) * unit^2 + byte(2) * unit + byte(3)
          [] kind = "rev16" ->
               byte(2) * unit^3 + byte(3) * unit^2 + byte(0) * unit + byte(1)
          [] kind = "revsh" -> SignedField(byte(0) * unit + byte(1), 2 * ByteBits)
  IN Put(m, Rd(hw), value)

\* ADR, ADD and SUB with SP, none of which sets the flags
Addressing(kind, hw, m) ==
  CASE kind = "adr"           -> Put(m, Rd8(hw), Aligned(Pc(m)) + 4 * Imm8(hw))
    [] kind = "add_sp_imm"    -> Put(m, Rd8(hw), Sp(m) + 4 * Imm8(hw))
    [] kind = "add_sp_imm_t2" -> WithSp(m, Sp(m) + 4 * Field(hw, 0, 7))
    [] kind = "sub_sp_imm"    -> WithSp(m, Sp(m) - 4 * Field(hw, 0, 7))

\* MOV and ADD of any two registers; a result for PC is a branch.
MoveHigh(kind, hw, m) ==
  LET rd == HighRegister(hw)
      rm == Get(m, Field(hw, 3, 4))
      v  == IF kind = "add_highreg" THEN Wrap(Get(m, rd) + rm) ELSE rm
  IN IF rd = PC THEN WithPc(m, v - (v % 2)) ELSE Put(m, rd, v)

-----------------------------------------------------------------------------
(* Loads and stores *)

Bytes(kind) ==
  CASE kind \in {"str_reg", "str_imm", "str_sp_imm", "ldr_reg", "ldr_imm", "ldr_sp_imm",
                 "ldr_literal"} -> 4
    [] kind \in {"strh_reg", "strh_imm", "ldrh_reg", "ldrh_imm", "ldrsh_reg"} -> 2
    [] kind \in {"strb_reg", "strb_imm", "ldrb_reg", "ldrb_imm", "ldrsb_reg"} -> 1

Stores == {"str_reg", "strh_reg", "strb_reg", "str_imm", "strh_imm", "strb_imm", "str_sp_imm"}
Loads  == {"ldr_reg", "ldrh_reg", "ldrb_reg", "ldrsh_reg", "ldrsb_reg", "ldr_imm", "ldrh_imm",
           "ldrb_imm", "ldr_sp_imm", "ldr_literal"}

\* These call read32 without asking whether it succeeded.
Unchecked == {"ldr_sp_imm", "ldr_literal"}

OfStack   == {"str_sp_imm", "ldr_sp_imm"}
Immediate == {"str_imm", "strh_imm", "strb_imm", "ldr_imm", "ldrh_imm", "ldrb_imm"}

Rt(kind, hw) == IF kind \in OfStack \cup {"ldr_literal"} THEN Rd8(hw) ELSE Rd(hw)

AddressOf(kind, hw, m) ==
  Wrap(CASE kind \in OfStack      -> Sp(m) + 4 * Imm8(hw)
         [] kind = "ldr_literal" -> Aligned(Pc(m)) + 4 * Imm8(hw)
         [] kind \in Immediate    -> m.r[Rn(hw)] + Bytes(kind) * Imm5(hw)
         [] OTHER                 -> m.r[Rn(hw)] + m.r[Rm(hw)])

Stored(m, a, size, v) ==
  LET w == Write(m.mem, a, size, v)
  IN IF w.ok THEN [m EXCEPT !.mem = w.mem] ELSE HardFault(m)

Store(kind, hw, m) == Stored(m, AddressOf(kind, hw, m), Bytes(kind), m.r[Rt(kind, hw)])

\* Mutant: the success of the read is not asked for.
LoadAnyway(kind, hw, m) ==
  LET got == Read(m.mem, AddressOf(kind, hw, m), Bytes(kind))
  IN Put(IF got.ok THEN m ELSE HardFault(m), Rt(kind, hw), got.value)

\* A register from what was read, or when this failed not if the code asks for it.
Loaded(m, got, register, asks) ==
  LET asked == IF got.ok THEN m ELSE HardFault(m)
  IN IF got.ok \/ ~asks THEN Put(asked, register, got.value) ELSE asked

Load(kind, hw, m) ==
  LET got   == Read(m.mem, AddressOf(kind, hw, m), Bytes(kind))
      value == IF kind \in {"ldrsb_reg", "ldrsh_reg"}
               THEN SignedField(got.value, ByteBits * Bytes(kind))
               ELSE got.value
  IN Loaded(m, [got EXCEPT !.value = value], Rt(kind, hw), kind \notin Unchecked)

\* Some words from address a upwards, each whether or not those before it failed.
StoredWords(m, a, words) ==
  LET after[k \in 0..Len(words)] ==
        IF k = 0 THEN m ELSE Stored(after[k - 1], Wrap(a + 4 * (k - 1)), 4, words[k])
  IN after[Len(words)]

\* Registers from the words at a and above.  Ldm asks each read whether it
\* succeeded before it sets the register, pop does not.
LoadedWords(m, a, list, asks) ==
  LET after[k \in 0..Len(list)] ==
        IF k = 0 THEN m
        ELSE Loaded(after[k - 1], Read(m.mem, Wrap(a + 4 * (k - 1)), 4), list[k], asks)
  IN after[Len(list)]

\* A push or pop of no register does nothing (a build with checks stops there).
Push(hw, m) ==
  LET list  == LowRegisters(hw) \o (IF BitOf(hw, 8) THEN <<LR>> ELSE <<>>)
      start == Wrap(Sp(m) - 4 * Len(list))
  IN WithSp(StoredWords(m, start, [k \in DOMAIN list |-> Get(m, list[k])]), start)

\* "memory fault. aborting"
Stm(hw, m) ==
  LET list == LowRegisters(hw)
      base == m.r[Rd8(hw)]
      failing == SelectInSeq([k \in DOMAIN list |-> Wrap(base + 4 * (k - 1))],
                             LAMBDA a : ~Write(m.mem, a, 4, 0).ok)
      values  == [k \in DOMAIN list |-> m.r[list[k]]]
  IN IF failing = 0
     THEN Put(StoredWords(m, base, values), Rd8(hw), base + 4 * Len(list))
     ELSE HardFault(StoredWords(m, base, SubSeq(values, 1, failing - 1)))

\* Mutant: the base is always written back.
LdmWritingBack(hw, m) ==
  LET list == LowRegisters(hw)
      base == m.r[Rd8(hw)]
  IN Put(LoadedWords(m, base, list, TRUE), Rd8(hw), base + 4 * Len(list))

\* "write back unless register was in list"
Ldm(hw, m) ==
  LET list   == LowRegisters(hw)
      base   == m.r[Rd8(hw)]
      loaded == LoadedWords(m, base, list, TRUE)
  IN IF BitOf(hw, Rd8(hw)) THEN loaded ELSE Put(loaded, Rd8(hw), base + 4 * Len(list))

-----------------------------------------------------------------------------
(* Exceptions: context_switcher and interworking_brancher *)

\* XPSR: the flags at the top, T, and the exception number.
FlagsWord(f) ==
  LET bit(b) == IF b THEN 1 ELSE 0
  IN (8 * bit(f.n) + 4 * bit(f.z) + 2 * bit(f.c) + bit(f.v)) * 2^(WordBits - 4)

FlagsOf(word) ==
  LET bit(i) == BitOf(word, WordBits - i)
  IN [n |-> bit(1), z |-> bit(2), c |-> bit(3), v |-> bit(4)]

ThumbBit == WordBits - 8
AlignBit == 9

Xpsr(m) == FlagsWord(m.flags) + (IF m.thumb THEN 2^ThumbBit ELSE 0) + m.ipsr

WithBit(v, i) == IF BitOf(v, i) THEN v ELSE v + 2^i

PushStack(return_address, m) ==
  LET below == Wrap(Sp(m) - 32)
      align == Field(Sp(m), 2, 1)
      frame == below - 4 * Field(below, 2, 1)
      words == <<m.r[0], m.r[1], m.r[2], m.r[3], m.r[12], m.lr, return_address,
                 Xpsr(m) + align * 2^AlignBit>>
  IN [StoredWords(WithSp(m, frame), frame, words) EXCEPT
        !.lr = IF m.mode = "handler" THEN ToHandler
               ELSE IF m.spsel THEN ToThreadProcess ELSE ToThreadMain]

PopStack(frame, ret_bits, m) ==
  LET word(k)  == Read(m.mem, Wrap(frame + 4 * k), 4)
      faults   == \E k \in 0..7 : ~word(k).ok
      xpsr     == word(7).value
      above(sp) == IF BitOf(xpsr, AlignBit) THEN WithBit(Wrap(sp + 32), 2) ELSE Wrap(sp + 32)
  IN [m EXCEPT
        !.r       = [@ EXCEPT ![0] = word(0).value, ![1] = word(1).value, ![2] = word(2).value,
                              ![3] = word(3).value, ![12] = word(4).value],
        !.lr      = word(5).value,
        !.pc      = word(6).value,
        !.branched = TRUE,
        !.main    = IF ret_bits \in {1, 9} THEN above(@) ELSE @,
        !.process = IF ret_bits = 13 THEN above(@) ELSE @,
        !.flags   = FlagsOf(xpsr),
        !.thumb   = BitOf(xpsr, ThumbBit),
        !.ipsr    = IF m.mode = "thread" /\ m.npriv THEN 0 ELSE Field(xpsr, 0, 6),
        !.pending = IF faults THEN @ \cup {HARDFAULT} ELSE @]

\* A mismatch prints a message, and the context comes from address 0.
ExceptionReturn(ret_bits, m) ==
  LET matches == CASE ret_bits = 1         -> Cardinality(m.active) # 1
                   [] ret_bits \in {9, 13} -> Cardinality(m.active) = 1
                   [] OTHER                -> FALSE
      frame   == IF ~matches THEN 0 ELSE IF ret_bits = 13 THEN m.process ELSE m.main
      entered == IF ~matches THEN m
                 ELSE [m EXCEPT !.mode = IF ret_bits = 1 THEN "handler" ELSE "thread",
                                !.spsel = (ret_bits = 13)]
  IN PopStack(frame, ret_bits, [entered EXCEPT !.active = @ \ {m.ipsr}])

\* Bit 0 of the target becomes T.
BranchLinkInterworking(a, m) == WithPc([m EXCEPT !.thumb = (a % 2 = 1)], a - (a % 2))

BranchInterworking(a, m) ==
  IF m.mode = "handler" /\ Field(a, WordBits - 4, 4) = 15
  THEN ExceptionReturn(a % 16, m)
  ELSE BranchLinkInterworking(a, m)

ExceptionEntry(e, return_address, m) ==
  LET pushed  == PushStack(return_address, m)
      entered == [pushed EXCEPT !.mode = "handler", !.ipsr = e, !.spsel = FALSE,
                                !.active = @ \cup {e}, !.pending = @ \ {e}]
      handler == Read(m.mem, 4 * e, 4)
  IN BranchLinkInterworking(handler.value, IF handler.ok THEN entered ELSE HardFault(entered))

PoppedList(hw, m, start) == LoadedWords(m, start, LowRegisters(hw), FALSE)

\* Mutant: the stack pointer is updated last, as the architecture writes it.
PopBranchingFirst(hw, m) ==
  LET start  == Sp(m)
      list   == LowRegisters(hw)
      popped == PoppedList(hw, m, start)
      target == Read(m.mem, Wrap(start + 4 * Len(list)), 4)
  IN WithSp(IF BitOf(hw, 8) THEN BranchInterworking(target.value, popped) ELSE popped,
            start + 4 * (Len(list) + Field(hw, 8, 1)))

\* "the SP update has been moved BEFORE"
Pop(hw, m) ==
  LET start    == Sp(m)
      list     == LowRegisters(hw)
      released == WithSp(PoppedList(hw, m, start), start + 4 * (Len(list) + Field(hw, 8, 1)))
      target   == Read(m.mem, Wrap(start + 4 * Len(list)), 4)
  IN IF ~BitOf(hw, 8) THEN released
     ELSE BranchInterworking(target.value, IF target.ok THEN released ELSE HardFault(released))

-----------------------------------------------------------------------------
(* Branches, special registers and the rest *)

ConditionNames ==
  <<"EQ", "NE", "CS", "CC", "MI", "PL", "VS", "VC", "HI", "LS", "GE", "LT", "GT", "LE">>

\* Mutant: BLX takes its return address from PC as BL does.
BranchLinkingPrefetch(kind, pair, m) ==
  LET register == Get(m, Field(pair[1], 3, 4))
      relative == Pc(m) + BranchOffset(kind, pair)
  IN CASE kind = "branch" ->
            IF A(m)!Condition(ConditionNames[Field(pair[1], 8, 4) + 1]) THEN WithPc(m, relative)
            ELSE m
       [] kind = "unconditional_branch" -> WithPc(m, relative)
       [] kind = "bl_imm" -> WithPc([m EXCEPT !.lr = Pc(m) + 1], relative)
       [] kind = "bx"     -> BranchInterworking(register, m)
       [] kind = "blx"    -> BranchLinkInterworking(register, [m EXCEPT !.lr = Pc(m) + 1])

\* LR is that of the next instruction, which PC is already at in BL (wide) and
\* past in BLX.
Branch(kind, pair, m) ==
  LET register == Get(m, Field(pair[1], 3, 4))
      relative == Pc(m) + BranchOffset(kind, pair)
  IN CASE kind = "branch" ->
            IF A(m)!Condition(ConditionNames[Field(pair[1], 8, 4) + 1]) THEN WithPc(m, relative)
            ELSE m
       [] kind = "unconditional_branch" -> WithPc(m, relative)
       [] kind = "bl_imm" -> WithPc([m EXCEPT !.lr = Pc(m) + 1], relative)
       [] kind = "bx"     -> BranchInterworking(register, m)
       [] kind = "blx"    ->
            BranchLinkInterworking(register, [m EXCEPT !.lr = Wrap(Pc(m) - 2) + 1])

\* MRS: SYSm names the flags and IPSR (0 to 7), a stack pointer, PRIMASK or
\* CONTROL; what it does not name reads as 0.
Mrs(pair, m) ==
  LET sysn  == Field(pair[2], 0, 8)
      one(b) == IF b THEN 1 ELSE 0
      value ==
        CASE sysn \in 0..7 -> (IF BitOf(sysn, 0) THEN m.ipsr ELSE 0)
                               + (IF BitOf(sysn, 2) THEN 0 ELSE FlagsWord(m.flags))
          [] sysn = 8      -> m.main
          [] sysn = 9      -> m.process
          [] sysn = 16     -> one(m.primask)
          [] sysn = 20     -> one(m.npriv) + 2 * one(m.spsel)
          [] OTHER         -> 0
  IN Put(m, Field(pair[2], 8, 4), value)

Msr(pair, m) ==
  LET sysn  == Field(pair[2], 0, 8)
      value == Get(m, Field(pair[1], 0, 4))
  IN CASE sysn \in 0..3 -> [m EXCEPT !.flags = FlagsOf(value)]
       [] sysn = 8      -> [m EXCEPT !.main = Aligned(value)]
       [] sysn = 9      -> [m EXCEPT !.process = Aligned(value)]
       [] sysn = 16     -> [m EXCEPT !.primask = BitOf(value, 0)]
       [] sysn = 20     -> IF m.mode = "thread"
                           THEN [m EXCEPT !.npriv = BitOf(value, 0), !.spsel = BitOf(value, 1)]
                           ELSE m
       [] OTHER         -> m

\* WFE clears the event or asks for low power; nothing in the emulator sets it.
Wfe(m) == IF m.event THEN [m EXCEPT !.event = FALSE] ELSE [m EXCEPT !.lowPower = TRUE]

Undefined == {"udf", "udfw", "invalid"}

\* exec_dispatcher: the machines that an instruction may leave
Execute(pair, m) ==
  LET kind == Kind(pair)
      hw   == pair[1]
  IN CASE kind \in Arithmetic -> {Add(Sums(kind, hw, m), m)}
       [] kind \in {"and_reg", "tst_reg", "eor_reg", "orr_reg", "bic_reg", "mul_reg", "mvn",
                    "movs", "mov_imm"} -> {Logical(kind, hw, m)}
       [] kind \in {"lsl_imm", "lsr_imm", "asr_imm", "lsl_reg", "lsr_reg", "asr_reg",
                    "ror_reg"} -> Shifts(kind, hw, m)
       [] kind \in {"sxth", "sxtb", "uxth", "uxtb", "rev_word", "rev16", "revsh"} ->
            {Extended(kind, hw, m)}
       [] kind \in {"adr", "add_sp_imm", "add_sp_imm_t2", "sub_sp_imm"} ->
            {Addressing(kind, hw, m)}
       [] kind \in {"add_highreg", "mov_highreg"} -> {MoveHigh(kind, hw, m)}
       [] kind \in Stores -> {Store(kind, hw, m)}
       [] kind \in Loads  -> {Load(kind, hw, m)}
       [] kind = "push"   -> {Push(hw, m)}
       [] kind = "pop"    -> {Pop(hw, m)}
       [] kind = "stm"    -> {Stm(hw, m)}
       [] kind = "ldm"    -> {Ldm(hw, m)}
       [] kind \in {"branch", "unconditional_branch", "bl_imm", "bx", "blx"} ->
            {Branch(kind, pair, m)}
       [] kind = "mrs"    -> {Mrs(pair, m)}
       [] kind = "msr"    -> {Msr(pair, m)}
       [] kind = "cps"    -> {[m EXCEPT !.primask = BitOf(hw, 4)]}
       [] kind = "svc"    -> {[m EXCEPT !.pending = @ \cup {SVCALL}]}
       [] kind = "bkpt"   -> {[m EXCEPT !.halt = TRUE]}
       [] kind = "wfe"    -> {Wfe(m)}
       [] kind \in Undefined -> {HardFault(m)}
       [] OTHER           -> {m}   \* hints, barriers, unpredictable_0

-----------------------------------------------------------------------------
(* cpu::step *)

NextExceptionToTake(m) ==
  LET top == V(m)!TopPending
  IN IF top # V(m)!NoException /\ V(m)!Priority(top) < V(m)!CurrentExecutionPriority(m.primask)
     THEN top ELSE V(m)!NoException

\* The context that is left at the end of a step, with the address to go on at,
\* the exception that is taken then, or 0, and the machine after it.
Ending(m, cur, next) ==
  LET e == NextExceptionToTake(m)
      return_address == IF e = HARDFAULT THEN cur ELSE next
      left == [m EXCEPT !.pc = IF e = 0 THEN next ELSE return_address, !.branched = TRUE]
  IN [context |-> left, taken |-> e,
      machine |-> IF e = 0 THEN left ELSE ExceptionEntry(e, return_address, left)]

Step(m, pair) ==
  LET cur     == Pc(m)
      counted == [m EXCEPT !.count = @ + 1]
      checked == IF m.thumb THEN counted ELSE HardFault(counted)
  IN IF NextExceptionToTake(checked) # 0
     THEN {Ending(checked, cur, cur)}
     ELSE {Ending(x, cur, IF x.branched THEN Pc(x) ELSE Wrap(cur + Size(pair)))
             : x \in Execute(pair, [checked EXCEPT !.pc = Wrap(cur + 4), !.branched = FALSE])}

\* fetch_instruction: unmapped memory reads as 0, MOVS R0, R0.
HalfwordAt(code, a) ==
  LET k == (a - CodeStart) \div 2 + 1
  IN IF k \in DOMAIN code THEN code[k] ELSE IF a \in DOMAIN Handlers THEN Handlers[a] ELSE 0

Fetch(code, m) == <<HalfwordAt(code, Pc(m)), HalfwordAt(code, Pc(m) + 2)>>

-----------------------------------------------------------------------------
(* Behaviours *)

NoProgram  == [purpose |-> "none", code |-> <<>>, interrupts |-> {}]
NotStepped == [pair |-> <<0, 0>>, taken |-> 0, returned |-> FALSE]

\* The emulator before an image is loaded.
Blank ==
  [r |-> [i \in 0..12 |-> 0], main |-> 0, process |-> 0, lr |-> 0, pc |-> 0, branched |-> FALSE,
   flags |-> FlagsOf(0), thumb |-> FALSE, ipsr |-> 0, mode |-> "thread", spsel |-> FALSE,
   npriv |-> FALSE, primask |-> FALSE, active |-> {}, pending |-> {},
   mem |-> NewMemory(<<>>, MappedRegisters), event |-> FALSE, lowPower |-> FALSE,
   halt |-> FALSE, count |-> 0]

Init ==
  /\ stage = "off" /\ image \in Images /\ machine = Blank
  /\ program = NoProgram /\ before = Blank /\ last = NotStepped
  /\ raised = {} /\ saved = <<>>

history == <<program, before, last, raised, saved>>

\* main loads the image into a new machine.
LoadImage ==
  /\ stage = "off" /\ stage' = "loaded"
  /\ machine' = [machine EXCEPT !.mem.words = LoadElf(image, image.fill)]
  /\ UNCHANGED <<image, history>>

\* mcu::reset and cpu::reset: the first word of the image is the stack pointer.
Reset ==
  /\ stage = "loaded" /\ stage' = "reset"
  /\ machine' = [WithSp([Blank EXCEPT !.mem = machine.mem],
                        Aligned(Read(machine.mem, 0, 4).value))
                   EXCEPT !.pc = image.entry, !.branched = TRUE, !.thumb = TRUE]
  /\ UNCHANGED <<image, history>>

\* _startup calls _init_memory, and then main.
Startup ==
  /\ stage = "reset" /\ stage' = "main"
  /\ machine' = [machine EXCEPT !.mem.words = InitMemory(@, image), !.pc = CodeStart]
  /\ UNCHANGED <<image, history>>

\* What main has in its registers when it comes to the code of interest.
Prepared(s) ==
  [machine EXCEPT !.r = s.r, !.lr = s.lr, !.main = s.main, !.process = s.process, !.spsel = s.spsel,
                  !.npriv = s.npriv, !.flags = FlagsOf(s.flags)]

Stepped(m, outcome, pair) ==
  /\ machine' = outcome.machine
  /\ last' = [pair |-> pair, taken |-> outcome.taken,
              returned |-> m.active \ outcome.context.active # {}]

\* One instruction, whichever it is.
TryInstruction(s, pair) ==
  /\ stage' = "stepped"
  /\ before' = Prepared(s)
  /\ \E o \in Step(Prepared(s), pair) : Stepped(Prepared(s), o, pair)
  /\ UNCHANGED <<image, program, raised, saved>>

StartProgram(s, p) ==
  /\ stage' = "running"
  /\ program' = p /\ before' = Prepared(s) /\ machine' = Prepared(s)
  /\ UNCHANGED <<image, last, raised, saved>>

Ended == machine.mode = "thread" /\ machine.pc = CodeStart + 2 * Len(program.code)

Raise(e) ==
  /\ stage = "running" /\ ~Ended
  /\ raised' = raised \cup {e}
  /\ machine' = [machine EXCEPT !.pending = @ \cup {e}]
  /\ UNCHANGED <<stage, image, program, before, last, saved>>

Context(m) ==
  [r |-> m.r, sp |-> <<m.main, m.process>>, lr |-> m.lr, pc |-> m.pc, flags |-> m.flags,
   thumb |-> m.thumb, ipsr |-> m.ipsr, mode |-> m.mode, spsel |-> m.spsel,
   primask |-> m.primask]

\* A tail-chained exception stacks the context that was just restored.
RunStep ==
  /\ stage = "running" /\ ~Ended /\ ~machine.halt /\ machine.count < MaxSteps
  /\ LET pair == Fetch(program.code, machine)
     IN \E o \in Step(machine, pair) :
          /\ Stepped(machine, o, pair)
          /\ LET left == IF last'.returned THEN Front(saved) ELSE saved
             IN saved' = IF o.taken # 0 THEN Append(left, Context(o.context)) ELSE left
  /\ UNCHANGED <<stage, image, program, before, raised>>

Next ==
  \/ LoadImage
  \/ Reset \/ Startup
  \/ /\ stage = "main"
     /\ \E s \in Setups(image) : \/ \E pair \in Instructions(s) : TryInstruction(s, pair)
                                 \/ \E p \in Programs(s) : StartProgram(s, p)
  \/ \E e \in program.interrupts \ raised : Raise(e)
  \/ RunStep

Spec == Init /\ [][Next]_vars

-----------------------------------------------------------------------------
(* Properties *)

\* Instructions that their second halfword is part of.
OfTwoHalfwords == {"bl_imm", "udfw", "msr", "mrs", "dsb", "dmb", "isb"}

(***************************************************************************)
(* No halfword passes two tests of the decoder, so that their order does   *)
(* not matter, and an instruction is as long as the halfwords it was       *)
(* decoded from: none is skipped, or executed as an instruction of its own.*)
(***************************************************************************)
EveryEncodingIsOneInstruction ==
  stage = "stepped" =>
    LET kind == Kind(last.pair)
    IN /\ Cardinality({k \in DOMAIN Patterns : Matches(Patterns[k], last.pair[1])}) <= 1
       /\ kind \in OfTwoHalfwords => Size(last.pair) = 4
       /\ Size(last.pair) = 4 => kind \in OfTwoHalfwords \cup {"invalid"}

\* The one offset that the bits of a branch stand for.
IsOffset(d, bits, field) == d \in (-2^bits)..(2^bits - 1) /\ (d - field) % 2^(bits + 1) = 0

(***************************************************************************)
(* A branch relative to PC that is taken goes on where its offset points,  *)
(* from four bytes after it; an instruction that has nothing to do with PC *)
(* goes on at the next one, over its own length and no more.               *)
(***************************************************************************)
BranchesReachTheirTarget ==
  stage = "stepped" /\ last.taken = 0 =>
    LET pair == last.pair
        kind == Kind(pair)
        s    == Field(pair[1], 10, 1)
        i(n) == IF Field(pair[2], n, 1) = s THEN 1 ELSE 0
        d    == BranchOffset(kind, pair)
        next == CodeStart + Size(pair)
    IN CASE kind = "branch" ->
              /\ IsOffset(d, 8, 2 * Field(pair[1], 0, 8))
              /\ machine.pc \in {next, Wrap(CodeStart + 4 + d)}
         [] kind = "unconditional_branch" ->
              /\ IsOffset(d, 11, 2 * Field(pair[1], 0, 11))
              /\ machine.pc = Wrap(CodeStart + 4 + d)
         [] kind = "bl_imm" ->
              /\ IsOffset(d, 24, 2 * Field(pair[2], 0, 11) + 2^12 * Field(pair[1], 0, 10)
                                   + 2^22 * i(11) + 2^23 * i(13) + 2^24 * s)
              /\ machine.pc = Wrap(CodeStart + 4 + d) /\ machine.lr = next + 1
         [] kind \in {"bx", "blx", "pop", "mov_highreg", "add_highreg", "mrs"} -> TRUE
         [] OTHER -> machine.pc = next


\* Nothing but the registers of rs was changed by the program.
KeepsAllBut(rs) ==
  /\ \A r \in (0..12) \ rs : machine.r[r] = before.r[r]
  /\ machine.main = before.main /\ machine.process = before.process

(***************************************************************************)
(* Multiple transfers copy: what LDM took STM puts elsewhere, what PUSH    *)
(* saved POP returns in the same order, and a base among the registers     *)
(* that LDM loads is loaded, not written back; whatever interrupts come in *)
(* between.                                                                *)
(***************************************************************************)
BlocksAreCopied ==
  stage = "running" /\ Ended =>
    LET words(m, a) == [k \in 0..2 |-> WordsOf(m.mem)[a + 4 * k]]
        r == machine.r
    IN CASE program.purpose = "ldm, stm" ->      \* LDM R0!, {R4-R6}; STM R1!, {R4-R6}
              /\ words(machine, before.r[1]) = words(before, before.r[0])
              /\ r[0] = before.r[0] + 12 /\ r[1] = before.r[1] + 12
              /\ KeepsAllBut({0, 1, 4, 5, 6})
         [] program.purpose = "push, pop" ->     \* PUSH {R0-R2, LR}; POP {R4-R7}
              /\ <<r[4], r[5], r[6], r[7]>> = <<r[0], r[1], r[2], before.lr>>
              /\ KeepsAllBut(4..7)
         [] program.purpose = "stm, ldm" ->      \* STM R1!, {R2-R3}; SUBS R1, #8; LDM R1, {R1,R5}
              /\ <<r[1], r[5]>> = <<before.r[2], before.r[3]>>
              /\ KeepsAllBut({1, 5})
         [] OTHER -> TRUE

(***************************************************************************)
(* A function that is called by BL or BLX, and saves what it uses, comes   *)
(* back once to the instruction after the call, with the stack as it was.  *)
(* The one here adds 1 to R0 and what follows the call adds 1 to R5.       *)
(***************************************************************************)
CallsReturn ==
  stage = "running" /\ program.purpose = "call" =>
    /\ ~machine.halt /\ machine.count < MaxSteps
    /\ Ended => /\ machine.r[0] = before.r[0] + 1 /\ machine.r[5] = before.r[5] + 1
                /\ KeepsAllBut({0, 5})

(***************************************************************************)
(* What interrupted code cannot tell: a return from an exception restores  *)
(* every register, flag and stack pointer of the context that the frame    *)
(* was stacked for, whether the handler returned by BX or POP, from the    *)
(* main or the process stack, to a thread or another handler, and also     *)
(* when the next exception is taken at once.                               *)
(***************************************************************************)
HandlerIsTransparent ==
  [][stage = "running" /\ last'.returned /\ machine'.count > machine.count =>
       (IF last'.taken # 0 THEN Last(saved') ELSE Context(machine')) = Last(saved)]_vars

(***************************************************************************)
(* A load, a store or an STM that faults leaves all registers as they were *)
(* and LDM those it could not load ("dont modify register if memory access *)
(* is faulty"), but its base; and the fault returns to it, so that it can  *)
(* be executed again.  PUSH, POP and the loads relative to PC and SP give  *)
(* no such guarantee in the code.                                          *)
(***************************************************************************)
FaultLeavesOperands ==
  stage = "stepped" /\ last.taken = HARDFAULT =>
    LET kind == Kind(last.pair)
        hw   == last.pair[1]
        list == LowRegisters(hw)
        failed(k) == ~Read(before.mem, Wrap(before.r[Rd8(hw)] + 4 * (k - 1)), 4).ok
        frame == IF machine.lr = ToThreadProcess THEN machine.process ELSE machine.main
    IN /\ kind \in (Loads \ Unchecked) \cup Stores \cup {"stm"} => machine.r = before.r
       /\ kind = "ldm" => \A k \in DOMAIN list :
             failed(k) /\ list[k] # Rd8(hw) => machine.r[list[k]] = before.r[list[k]]
       /\ kind \in Loads \cup Stores \cup {"stm", "ldm"} =>
             machine.mem.words[frame + 24] = CodeStart

(***************************************************************************)
(* Whatever memory was filled with and wherever the linker put .bss, main  *)
(* finds .bss cleared, .data initialised and the code of the image intact. *)
(***************************************************************************)
ImageIsInPlace ==
  stage = "main" =>
    LET words == machine.mem.words
    IN /\ \A a \in Addresses(image.bss_start, image.bss_size) : a \in DOMAIN words /\ words[a] = 0
       /\ \A k \in DOMAIN image.data : words[image.data_start + 4 * (k - 1)] = image.data[k]
       /\ \A k \in DOMAIN image.rom : words[4 * (k - 1)] = image.rom[k]
=============================================================================
