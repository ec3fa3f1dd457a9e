----------------------------- MODULE MCExecution -----------------------------
(***************************************************************************)
(* Words of 16 bits, four bytes of four: 0x44 bytes of ROM with the vector *)
(* table and the initial data, 0xC0 bytes of RAM at 0x400, two memory      *)
(* mapped registers.  The program is at 0x100, the handlers at 0x200.      *)
(***************************************************************************)
EXTENDS Execution

MCByteBits == 4

StackEnd == 1216                            \* 0x4C0

\* Vectors: the stack pointer (link.ld gives the last byte of the stack), the
\* entry point, and odd addresses of the handlers.
Vectors == [k \in 1..17 |-> CASE k = 1  -> StackEnd - 1
                              [] k = 2  -> 257
                              [] k = 4  -> 513      \* HardFault: BKPT
                              [] k = 12 -> 515      \* SVCall: BX LR
                              [] k = 16 -> 517      \* SysTick: MOVS R3, #5; BX LR
                              [] k = 17 -> 521      \* PUSH {R4, LR}; MOVS R4, #0;
                              [] OTHER  -> 0]       \* ADDS R0, #7; POP {R4, PC}

MCHandlers == 512 :> 48640 @@ 514 :> 18288 @@ 516 :> 8965 @@ 518 :> 18288
              @@ 520 :> 46352 @@ 522 :> 9216 @@ 524 :> 12295 @@ 526 :> 48400

Data == <<4660, 43981>>
Rom  == [virtual |-> 0, physical |-> 0, size |-> 17, progbits |-> Vectors]

\* .bss in the segment of .data, or in one of its own, without progbits.
Symbols(segments, fill) ==
  [segments |-> segments, fill |-> fill, entry |-> 256, rom |-> Vectors, data |-> Data,
   data_start |-> 1024, data_size |-> 2, init_data_start |-> 68,
   bss_start |-> 1032, bss_size |-> 2]

OneSegment  == <<Rom, [virtual |-> 1024, physical |-> 68, size |-> 48, progbits |-> Data]>>
TwoSegments == <<Rom, [virtual |-> 1024, physical |-> 68, size |-> 2, progbits |-> Data],
                 [virtual |-> 1032, physical |-> 76, size |-> 46, progbits |-> <<>>]>>

\* 52428 has 0xC in every byte.
MCImages == {Symbols(segments, fill) : segments \in {OneSegment, TwoSegments}, fill \in {0, 52428}}

MCMappedRegisters == 57360 :> 0 @@ 57364 :> 9       \* 0xE010, 0xE014

MCExternalInterrupts == {16}
MCPriorities == 11 :> 2 @@ 14 :> 3 @@ 15 :> 1 @@ 16 :> 0
MCCodeStart == 256
MCMaxSteps == 40

-----------------------------------------------------------------------------
(* Setups *)

\* The stack pointer after reset is a multiple of 4 but not of 8.
OnMain(r, sp, flags) ==
  [r |-> r, lr |-> 341, main |-> sp, process |-> 0, spsel |-> FALSE, npriv |-> FALSE,
   flags |-> flags]
OnProcess(r, sp, flags) ==
  [r |-> r, lr |-> 341, main |-> StackEnd - 8, process |-> sp, spsel |-> TRUE, npriv |-> TRUE,
   flags |-> flags]

Registers(low) == [i \in 0..12 |-> IF i < 8 THEN low[i + 1] ELSE 1000 * i]

\* Addresses that are mapped, not aligned or not mapped, and large numbers.
Mixed == Registers(<<1024, 1032, 3, 257, 57360, 1025, 32767, 49154>>)

\* Two blocks, and the target of BLX.
Blocks == Registers(<<1024, 1040, 51966, 263, 4, 5, 6, 7>>)

\* A word to store at an offset and to load from another.
Words == {Registers(<<base, i, 43417, j, 4, 5, 6, 7>>)
            : base \in {1040, 57360}, i \in {0, 1, 2, 4}, j \in 0..4}

Exhaustive == OnMain(Mixed, StackEnd - 8, 0)
OfTheStack == {OnMain(Mixed, StackEnd - 4, 61440), OnProcess(Mixed, 1112, 24576),
               OnProcess(Mixed, 1108, 0)}
OfBlocks   == {OnMain(Blocks, StackEnd - 8, 40960), OnMain(Blocks, StackEnd - 4, 20480),
               OnProcess(Blocks, 1112, 61440), OnProcess(Blocks, 1108, 0)}
OfWords    == {OnMain(r, StackEnd - 8, 0) : r \in Words}

MCSetups(img) ==
  CASE img = Symbols(OneSegment, 52428)  -> {Exhaustive}
    [] img = Symbols(TwoSegments, 52428) -> OfTheStack \cup OfBlocks
    [] img = Symbols(TwoSegments, 0)     -> OfWords
    [] OTHER                             -> {}

-----------------------------------------------------------------------------
(* Instructions *)

\* Second halfwords of BL, MSR, MRS, the barriers and UDF.W
Seconds == {0, 32768, 32771, 33032, 36617, 33296, 33556, 36688, 36703, 40960, 53248, 57343,
            61440, 63488, 64511, 65535}

Wide == 61440..63487

MCInstructions(s) ==
  IF s = Exhaustive
  THEN ((Halfword \ Wide) \X {0}) \cup (Wide \X Seconds)
  ELSE IF s \in OfTheStack
  THEN ((36864..40959 \cup 46080..46591 \cup 48128..48639 \cup 49152..53247 \cup 57088..57343)
          \X {0})
       \cup ((62336..62351) \X {34824, 34825, 34836}) \cup ({62447} \X {33288, 33289, 33300})
  ELSE {}

-----------------------------------------------------------------------------
(* Programs *)

Purpose(purpose, interrupts, code) ==
  [purpose |-> purpose, interrupts |-> interrupts, code |-> code]

BlockPrograms == {
  Purpose("ldm, stm", {15, 16}, <<51312, 49520>>),
  Purpose("push, pop", {15, 16}, <<46343, 48368>>),
  Purpose("stm, ldm", {15, 16}, <<49420, 14600, 51490>>) }

\* BL to a function; BLX to it; BL to a function that calls another; SVC and
\* masked interrupts in the function.
CallPrograms == {
  Purpose("call", {15, 16},
          <<61440, 63490, 13569, 57347, 46352, 9225, 12289, 48400>>),
  Purpose("call", {15, 16},
          <<18328, 13569, 57347, 46352, 9225, 12289, 48400>>),
  Purpose("call", {16},
          <<61440, 63490, 13569, 57349, 46352, 61440, 63489, 48400, 12289, 18288>>),
  Purpose("call", {15, 16},
          <<61440, 63490, 13569, 57349, 46352, 46706, 57088, 12289, 46690, 48400>>) }

\* A layout of three registers, and one of an immediate and two registers
ByRegister(op, rm, rn, rt) == op * 512 + rm * 64 + rn * 8 + rt
ByNumber(op, imm, rn, rt)  == op * 2048 + imm * 64 + rn * 8 + rt

WordPrograms ==
  {Purpose("store, load", {}, <<store, load>>)
     : store \in {ByRegister(op, 1, 0, 2) : op \in 40..42}
                 \cup {ByNumber(op, 1, 0, 2) : op \in {12, 14, 16}},
       load  \in {ByRegister(op, 3, 0, 6) : op \in 43..47}
                 \cup {ByNumber(op, 1, 0, 6) : op \in {13, 15, 17}}}

MCPrograms(s) ==
  IF s \in OfBlocks THEN BlockPrograms \cup CallPrograms
  ELSE IF s \in OfWords THEN WordPrograms ELSE {}
=============================================================================
