------------------------------- MODULE Decoder -------------------------------
(***************************************************************************)
(* instruction_decoder and instruction_pair: which instruction a pair of   *)
(* halfwords stands for, how long it is, and the fields of its layout.     *)
(*                                                                         *)
(* A pattern <<kind, offset, values>> is one test of the if-else chain:    *)
(* the bits of the halfword from offset upwards are one of the values.     *)
(* Kinds have the names of the structs that the code dispatches.           *)
(***************************************************************************)
EXTENDS Integers, FiniteSets, SequencesExt

Halfword == 0..(2^16 - 1)

\* bits<offset, size>::of
Field(hw, offset, size) == (hw \div 2^offset) % 2^size
BitOf(hw, offset)       == Field(hw, offset, 1) = 1

Matches(pattern, hw) == hw \div 2^pattern[2] \in pattern[3]

-----------------------------------------------------------------------------
(* The chain, in its order *)

\* "siadsumoco": shift by immediate, add, subtract, move and compare
ShiftAddMoveCompare == <<
  <<"lsl_imm",  11, {0}>>,  <<"lsr_imm",    11, {1}>>,  <<"asr_imm",   11, {2}>>,
  <<"add_reg",   9, {12}>>, <<"subs_reg",    9, {13}>>,
  <<"add_imm",   9, {14}>>, <<"subs_imm",    9, {15}>>,
  <<"mov_imm",  11, {4}>>,  <<"cmp_imm",    11, {5}>>,
  <<"add_imm_t2", 11, {6}>>, <<"subs_imm8", 11, {7}>> >>

DataProcessing == <<
  <<"and_reg", 6, {256}>>, <<"eor_reg", 6, {257}>>, <<"lsl_reg", 6, {258}>>,
  <<"lsr_reg", 6, {259}>>, <<"asr_reg", 6, {260}>>, <<"adc",     6, {261}>>,
  <<"sbc",     6, {262}>>, <<"ror_reg", 6, {263}>>, <<"tst_reg", 6, {264}>>,
  <<"rsb_imm", 6, {265}>>, <<"cmp_reg", 6, {266}>>, <<"cmn_reg", 6, {267}>>,
  <<"orr_reg", 6, {268}>>, <<"mul_reg", 6, {269}>>, <<"bic_reg", 6, {270}>>,
  <<"mvn",     6, {271}>> >>

\* Mutant: the comparison tests two bits, as its neighbours do.
SpecialDataByTwoBits == <<
  <<"add_highreg", 8, {68}>>, <<"unpredictable_0", 6, {276}>>,
  <<"cmp_highreg", 8, {69}>>, <<"mov_highreg", 8, {70}>>,
  <<"bx", 7, {142}>>, <<"blx", 7, {143}>> >>

\* "sdibe": special data instructions, branch and exchange
SpecialData == <<
  <<"add_highreg", 8, {68}>>, <<"unpredictable_0", 6, {276}>>,
  <<"cmp_highreg", 6, {277, 278, 279}>>, <<"mov_highreg", 8, {70}>>,
  <<"bx", 7, {142}>>, <<"blx", 7, {143}>> >>

LoadStore == <<
  <<"ldr_literal", 11, {9}>>,
  <<"str_reg",    9, {40}>>, <<"strh_reg",  9, {41}>>, <<"strb_reg",  9, {42}>>,
  <<"ldrsb_reg",  9, {43}>>, <<"ldr_reg",   9, {44}>>, <<"ldrh_reg",  9, {45}>>,
  <<"ldrb_reg",   9, {46}>>, <<"ldrsh_reg", 9, {47}>>,
  <<"str_imm",   11, {12}>>, <<"ldr_imm",  11, {13}>>, <<"strb_imm", 11, {14}>>,
  <<"ldrb_imm",  11, {15}>>, <<"strh_imm", 11, {16}>>, <<"ldrh_imm", 11, {17}>>,
  <<"str_sp_imm", 11, {18}>>, <<"ldr_sp_imm", 11, {19}>> >>

StackAndExtend == <<
  <<"adr", 11, {20}>>, <<"add_sp_imm", 11, {21}>>,
  <<"add_sp_imm_t2", 7, {352}>>, <<"sub_sp_imm", 7, {353}>>,
  <<"sxth", 6, {712}>>, <<"sxtb", 6, {713}>>, <<"uxth", 6, {714}>>, <<"uxtb", 6, {715}>>,
  <<"push", 9, {90}>>, <<"cps", 5, {1459}>>,
  <<"rev_word", 6, {744}>>, <<"rev16", 6, {745}>>, <<"revsh", 6, {747}>>,
  <<"pop", 9, {94}>> >>

\* A branch on condition 1110 or 1111 is UDF or SVC.
MultipleAndBranch == <<
  <<"bkpt", 8, {190}>>, <<"hint", 8, {191}>>,
  <<"stm", 11, {24}>>, <<"ldm", 11, {25}>>,
  <<"branch", 9, 104..110>>, <<"svc", 8, {223}>>,
  <<"unconditional_branch", 11, {28}>>,
  <<"wide", 11, {29, 30, 31}>>, <<"udf", 8, {222}>> >>

Patterns ==
  ShiftAddMoveCompare \o DataProcessing \o SpecialData \o LoadStore \o StackAndExtend
    \o MultipleAndBranch

-----------------------------------------------------------------------------
(* Inside the tests *)

\* NOP, YIELD, WFE, WFI, SEV, and hints without a meaning
HintKind(hw) ==
  IF Field(hw, 4, 4) = 0 /\ Field(hw, 0, 4) <= 4
  THEN <<"nop", "yield", "wfe", "wfi", "sev">>[Field(hw, 0, 4) + 1]
  ELSE "undefined_hint"

\* is_32bit_thumb_br_misc_ctl
IsBranchOrMiscControl(pair) == Field(pair[1], 11, 2) = 2 /\ BitOf(pair[2], 15)

\* The operations whose second halfword has bits 14 and 12 clear.
MiscControlKind(pair) ==
  LET op1    == Field(pair[1], 4, 7)
      option == Field(pair[2], 4, 4)
  IN CASE op1 = 59 /\ option = 4    -> "dsb"
       [] op1 = 59 /\ option = 5    -> "dmb"
       [] op1 = 59 /\ option = 6    -> "isb"
       [] op1 = 127                 -> "isb"   \* the test for UDF.W dispatches ISB
       [] Field(pair[1], 5, 6) = 28 -> "msr"
       [] Field(pair[1], 5, 6) = 31 -> "mrs"
       [] OTHER                     -> "invalid"

WideKind(pair) ==
  LET op2 == <<BitOf(pair[2], 14), BitOf(pair[2], 12)>>
  IN IF Field(pair[1], 4, 12) = 3967 /\ Field(pair[2], 12, 4) = 10 THEN "udfw"
     ELSE IF ~IsBranchOrMiscControl(pair) THEN "invalid"
     ELSE IF op2 = <<TRUE, TRUE>> THEN "bl_imm"
     ELSE IF op2 = <<FALSE, FALSE>> THEN MiscControlKind(pair)
     ELSE "invalid"

\* The first test of the chain that passes; "invalid" is its last else.
FirstMatch(hw) ==
  LET k == SelectInSeq(Patterns, LAMBDA p : Matches(p, hw))
  IN IF k = 0 THEN "invalid" ELSE Patterns[k][1]

Kind(pair) ==
  LET first == FirstMatch(pair[1])
  IN CASE first = "lsl_imm" /\ Field(pair[1], 6, 5) = 0 -> "movs"
       [] first = "hint"                                -> HintKind(pair[1])
       [] first = "wide"                                -> WideKind(pair)
       [] OTHER                                         -> first

\* instruction_pair::size: only 11110... is wide, for the next address.
Size(pair) == IF Field(pair[1], 11, 5) = 30 THEN 4 ELSE 2

-----------------------------------------------------------------------------
(* Fields *)

\* What the provers are told of the powers that offsets are cut with.
ASSUME OffsetPowersAssumption ==
  \A m, n \in 0..25 : m + n <= 25 => 2^m \in Nat \ {0} /\ 2^(m + n) = 2^m * 2^n

\* binops::sign of the num_bits low bits, as a number
SignedField(v, num_bits) ==
  LET low == v % 2^num_bits
  IN IF low >= 2^(num_bits - 1) THEN low - 2^num_bits ELSE low

\* high_rd, high_rn: the fourth bit of the first register is bit 7.
HighRegister(hw) == 8 * Field(hw, 7, 1) + Field(hw, 0, 3)

\* The low registers in the list of push, pop, stm and ldm, in ascending order.
LowRegisters(hw) ==
  LET below[r \in 0..8] ==
        IF r = 0 THEN <<>>
        ELSE IF BitOf(hw, r - 1) THEN Append(below[r - 1], r - 1) ELSE below[r - 1]
  IN below[8]

\* bl_imm::offset, "i1 = not(j1 xor s)"
LongOffset(pair) ==
  LET s == Field(pair[1], 10, 1)
      i1 == IF Field(pair[2], 13, 1) = s THEN 1 ELSE 0
      i2 == IF Field(pair[2], 11, 1) = s THEN 1 ELSE 0
  IN SignedField(2 * (Field(pair[2], 0, 11) + 2^11 * Field(pair[1], 0, 10)
                      + 2^21 * i2 + 2^22 * i1 + 2^23 * s), 25)

\* Mutant: "TODO: seems like 12 should be 11 ?"
BranchOffsetByEleven(kind, pair) ==
  CASE kind = "branch"               -> SignedField(2 * Field(pair[1], 0, 8), 9)
    [] kind = "unconditional_branch" -> SignedField(2 * Field(pair[1], 0, 11), 11)
    [] kind = "bl_imm"               -> LongOffset(pair)

\* offset() of the three relative branches
BranchOffset(kind, pair) ==
  CASE kind = "branch"               -> SignedField(2 * Field(pair[1], 0, 8), 9)
    [] kind = "unconditional_branch" -> SignedField(2 * Field(pair[1], 0, 11), 12)
    [] kind = "bl_imm"               -> LongOffset(pair)
=============================================================================
