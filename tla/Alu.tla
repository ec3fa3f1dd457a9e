--------------------------------- MODULE Alu ---------------------------------
(***************************************************************************)
(* The data-processing instructions: what they leave in a register and in  *)
(* the flags N, Z, C and V of the APSR, which the conditional branches and  *)
(* the next ADCS or SBCS read.                                             *)
(*                                                                         *)
(* A word has WordSize bits (32 in the code) and Half is the weight of its *)
(* sign bit.  The result of the logical instructions and of MULS is any    *)
(* word: only the flags that they set and the ones that they keep matter   *)
(* here.  The same goes for what is loaded, moved or extended.  Two history *)
(* variables say what the flags still mean: compared holds the operands of *)
(* the comparison they come from, chain the numbers that a sequence of     *)
(* ADDS, ADCS... or SUBS, SBCS... has added or subtracted so far.          *)
(***************************************************************************)
EXTENDS Integers

CONSTANTS
  WordSize, Half,
  Registers,
  Immediates,   \* immediate operands of the instructions
  MaxWeight     \* bound: chains of a weight below it are followed

ASSUME WordAssumption == Half \in Nat \ {0}
Modulus == 2 * Half

\* The second conjunct is arithmetic, true of every word size: the provers know
\* nothing of exponents.
ASSUME ShiftAssumption ==
  /\ WordSize \in Nat \ {0} /\ Half = 2^(WordSize - 1) /\ 2^1 = 2
  /\ \A m, n \in 0..(Modulus + WordSize) :
       m + n <= Modulus + WordSize => 2^m \in Nat \ {0} /\ 2^(m + n) = 2^m * 2^n

Word == 0..(Modulus - 1)

ASSUME ImmediatesAssumption == Immediates \subseteq Word
ASSUME WeightAssumption == MaxWeight \in Nat

VARIABLES regs, flags, compared, chain

vars == <<regs, flags, compared, chain>>

Flags == [n : BOOLEAN, z : BOOLEAN, c : BOOLEAN, v : BOOLEAN]

NotCompared == [valid |-> FALSE, a |-> 0, b |-> 0]
NoChain     == [op |-> "none", weight |-> 1, wanted |-> 0, got |-> 0]

TypeOK ==
  /\ regs \in [Registers -> Word]
  /\ flags \in Flags
  /\ compared \in [valid : BOOLEAN, a : Word, b : Word]
  /\ chain \in [op : {"none", "add", "sub"}, weight : Nat \ {0}, wanted : Int, got : Nat]

Init ==
  /\ regs = [r \in Registers |-> 0]
  /\ flags = [n |-> FALSE, z |-> FALSE, c |-> FALSE, v |-> FALSE]
  /\ compared = NotCompared
  /\ chain = NoChain

-----------------------------------------------------------------------------
(* alu.hpp and binops.hpp *)

Number(carry) == IF carry THEN 1 ELSE 0
Borrow(carry) == IF carry THEN 0 ELSE 1
SignBit(a)    == a >= Half
Complement(a) == Modulus - 1 - a
Bit(a, i)     == (a \div 2^i) % 2 = 1

AddWithCarry(a, b, carry) ==
  LET sum == a + b + Number(carry)
      res == IF sum >= Modulus THEN sum - Modulus ELSE sum
  IN [result   |-> res,
      carry    |-> sum >= Modulus,
      overflow |-> SignBit(a) = SignBit(b) /\ SignBit(a) # SignBit(res)]

Lsl(v, n, carry) ==
  [result |-> IF n >= WordSize THEN 0 ELSE (v * 2^n) % Modulus,
   carry  |-> IF n = 0 THEN carry ELSE n <= WordSize /\ Bit(v, WordSize - n)]

Lsr(v, n, carry) ==
  [result |-> IF n >= WordSize THEN 0 ELSE v \div 2^n,
   carry  |-> IF n = 0 THEN carry ELSE n <= WordSize /\ Bit(v, n - 1)]

\* Mutant: zeros are shifted in.
AsrLikeLsr(v, n, carry) == Lsr(v, n, carry)

Asr(v, n, carry) ==
  LET fill == IF SignBit(v) THEN (2^n - 1) * 2^(WordSize - n) ELSE 0
  IN [result |-> IF n < WordSize THEN v \div 2^n + fill
                 ELSE IF SignBit(v) THEN Modulus - 1 ELSE 0,
      carry  |-> IF n = 0 THEN carry
                 ELSE IF n >= WordSize THEN SignBit(v) ELSE Bit(v, n - 1)]

RotateRight(v, n) == v \div 2^n + (v % 2^n) * 2^(WordSize - n)

\* Shifting by the word size or more is undefined in C++: a host that masks
\* the count rotates by the rest, one that does not shifts everything out.
Ror(v, n, carry) ==
  {[result |-> r,
    carry  |-> IF n = 0 THEN carry
               ELSE IF n % WordSize = 0 THEN SignBit(v) ELSE Bit(v, (n % WordSize) - 1)]
    : r \in IF n < WordSize THEN {RotateRight(v, n)} ELSE {RotateRight(v, n % WordSize), 0}}

\* apsr_reg::condition_passed
Condition(cond) ==
  CASE cond = "EQ" -> flags.z
    [] cond = "NE" -> ~flags.z
    [] cond = "CS" -> flags.c
    [] cond = "CC" -> ~flags.c
    [] cond = "MI" -> flags.n
    [] cond = "PL" -> ~flags.n
    [] cond = "VS" -> flags.v
    [] cond = "VC" -> ~flags.v
    [] cond = "HI" -> flags.c /\ ~flags.z
    [] cond = "LS" -> ~(flags.c /\ ~flags.z)
    [] cond = "GE" -> flags.n = flags.v
    [] cond = "LT" -> flags.n # flags.v
    [] cond = "GT" -> flags.n = flags.v /\ ~flags.z
    [] cond = "LE" -> ~(flags.n = flags.v /\ ~flags.z)

-----------------------------------------------------------------------------
(* What the instructions do to registers, flags and the meaning of the flags *)

Operands == {regs[r] : r \in Registers} \cup Immediates

Sets(rd, value)  == regs' = [regs EXCEPT ![rd] = value]
ArithmeticFlags(s) ==
  flags' = [n |-> SignBit(s.result), z |-> s.result = 0, c |-> s.carry, v |-> s.overflow]

\* Mutant: a logical instruction clears the carry.
NegZeroNoCarry(value) ==
  flags' = [flags EXCEPT !.n = SignBit(value), !.z = (value = 0), !.c = FALSE]

NegZero(value) == flags' = [flags EXCEPT !.n = SignBit(value), !.z = (value = 0)]

\* The first word of a number: nothing was carried in.
Starts(op, result, wanted) ==
  chain' = IF Modulus < MaxWeight
           THEN [op |-> op, weight |-> Modulus, wanted |-> wanted, got |-> result]
           ELSE NoChain

\* The next word, when the carry still is that of the words before it.
Continues(op, result, wanted) ==
  chain' = IF chain.op = op /\ chain.weight * Modulus < MaxWeight
           THEN [op |-> op, weight |-> chain.weight * Modulus,
                 wanted |-> chain.wanted + chain.weight * wanted,
                 got    |-> chain.got + chain.weight * result]
           ELSE NoChain

Forgets == compared' = NotCompared

\* ADDS with a register or an immediate.
Add ==
  \E rd \in Registers, a \in {regs[r] : r \in Registers}, b \in Operands :
    LET s == AddWithCarry(a, b, FALSE)
    IN Sets(rd, s.result) /\ ArithmeticFlags(s) /\ Starts("add", s.result, a + b) /\ Forgets

Adc ==
  \E rd, rm \in Registers :
    LET s == AddWithCarry(regs[rd], regs[rm], flags.c)
    IN /\ Sets(rd, s.result) /\ ArithmeticFlags(s) /\ Forgets
       /\ Continues("add", s.result, regs[rd] + regs[rm])

\* CMN adds and keeps only the flags.
CompareNegative ==
  \E rn, rm \in Registers :
    LET s == AddWithCarry(regs[rn], regs[rm], FALSE)
    IN /\ ArithmeticFlags(s) /\ Starts("add", s.result, regs[rn] + regs[rm])
       /\ Forgets /\ UNCHANGED regs

\* Mutant: the one is forgotten.
DifferenceLessOne(a, b) == AddWithCarry(a, Complement(b), FALSE)

\* A subtraction adds the complement and one.
Difference(a, b) == AddWithCarry(a, Complement(b), TRUE)

Compares(a, b) ==
  /\ ArithmeticFlags(Difference(a, b))
  /\ compared' = [valid |-> TRUE, a |-> a, b |-> b]
  /\ Starts("sub", Difference(a, b).result, a - b)

\* SUBS with a register or an immediate, and CMP, which drops the result.
Subtract ==
  \E rd \in Registers, a \in {regs[r] : r \in Registers}, b \in Operands :
    Compares(a, b) /\ Sets(rd, Difference(a, b).result)

Compare ==
  \E a \in {regs[r] : r \in Registers}, b \in Operands :
    Compares(a, b) /\ UNCHANGED regs

\* RSBS Rd, Rn, #0: the code adds the complement of Rn, zero and one.
Negate ==
  \E rd, rn \in Registers :
    LET s == AddWithCarry(Complement(regs[rn]), 0, TRUE)
    IN /\ Sets(rd, s.result) /\ ArithmeticFlags(s)
       /\ compared' = [valid |-> TRUE, a |-> 0, b |-> regs[rn]]
       /\ Starts("sub", s.result, 0 - regs[rn])

Sbc ==
  \E rd, rm \in Registers :
    LET s == AddWithCarry(regs[rd], Complement(regs[rm]), flags.c)
    IN /\ Sets(rd, s.result) /\ ArithmeticFlags(s) /\ Forgets
       /\ Continues("sub", s.result, regs[rd] - regs[rm])

\* ANDS, EORS, ORRS, BICS, MVNS, MULS and MOVS; TST drops the result.
Logical ==
  \E rd \in Registers, value \in Word :
    /\ Sets(rd, value) \/ UNCHANGED regs
    /\ NegZero(value) /\ Forgets /\ UNCHANGED chain

\* LSLS, LSRS, ASRS and RORS by an immediate or by the low byte of a register;
\* an immediate zero stands for the word size except in LSLS, where it is MOVS.
Shift ==
  \E rd, rm \in Registers, n \in 0..WordSize \cup {regs[r] % 256 : r \in Registers} :
    \E s \in {Lsl(regs[rm], n, flags.c), Lsr(regs[rm], n, flags.c), Asr(regs[rm], n, flags.c)}
             \cup Ror(regs[rm], n, flags.c) :
      /\ Sets(rd, s.result)
      /\ flags' = [flags EXCEPT !.n = SignBit(s.result), !.z = (s.result = 0), !.c = s.carry]
      /\ Forgets /\ chain' = NoChain

\* MOV and ADD with high registers, extensions, byte reversals and loads leave
\* the flags alone.
Transfer ==
  \E rd \in Registers, value \in Word :
    Sets(rd, value) /\ UNCHANGED <<flags, compared, chain>>

\* MSR to the APSR.
WriteFlags ==
  /\ flags' \in Flags /\ Forgets /\ chain' = NoChain
  /\ UNCHANGED regs

Next ==
  \/ Add \/ Adc \/ CompareNegative \/ Subtract \/ Compare \/ Negate \/ Sbc
  \/ Logical \/ Shift \/ Transfer \/ WriteFlags

Spec == Init /\ [][Next]_vars

-----------------------------------------------------------------------------
(* Properties *)

Signed(a) == IF SignBit(a) THEN a - Modulus ELSE a

\* After CMP, SUBS or RSBS, and whatever runs before the flags are written
\* again, every condition of a branch means the comparison of the operands
\* it is named for, signed or not (apsr_reg.hpp:70-158).
ComparisonsHold ==
  compared.valid =>
    LET a == compared.a
        b == compared.b
    IN /\ Condition("EQ") <=> a = b
       /\ Condition("NE") <=> a # b
       /\ Condition("CS") <=> a >= b
       /\ Condition("CC") <=> a < b
       /\ Condition("HI") <=> a > b
       /\ Condition("LS") <=> a <= b
       /\ Condition("GE") <=> Signed(a) >= Signed(b)
       /\ Condition("LT") <=> Signed(a) < Signed(b)
       /\ Condition("GT") <=> Signed(a) > Signed(b)
       /\ Condition("LE") <=> Signed(a) <= Signed(b)
       /\ Condition("VC") <=> Signed(a) - Signed(b) \in (-Half)..(Half - 1)

\* The words that ADDS, ADCS... or SUBS, SBCS... produce make up the sum or the
\* difference of the numbers, whatever instructions that keep the carry run in
\* between: the carry is all that is missing, the borrow all that is too much.
ChainsAreExact ==
  /\ chain.op = "add" => chain.wanted = chain.got + Number(flags.c) * chain.weight
  /\ chain.op = "sub" => chain.wanted = chain.got - Borrow(flags.c) * chain.weight

\* Shifting multiplies and divides by powers of two, rounding down, for every
\* count up to the largest in a register, and C is the last bit shifted out; a
\* rotation by less than the word size puts the bits it shifts out at the top.
ShiftsAreArithmetic ==
  \A r \in Registers, n \in 0..(Modulus - 1) :
    LET v         == regs[r]
        carry(w)  == IF n = 0 THEN flags.c ELSE w % 2 = 1
        s(result, w) == [result |-> result % Modulus, carry |-> carry(w)]
    IN /\ Lsl(v, n, flags.c) = s(v * 2^n, (v * 2^n) \div Modulus)
       /\ Lsr(v, n, flags.c) = s(v \div 2^n, (2 * v) \div 2^n)
       /\ Asr(v, n, flags.c) = s(Signed(v) \div 2^n, (2 * Signed(v)) \div 2^n)
       /\ n \in 1..(WordSize - 1) => \A rotated \in Ror(v, n, flags.c) :
            /\ v = ((rotated.result * 2^n) % Modulus) + rotated.result \div 2^(WordSize - n)
            /\ rotated.carry = SignBit(rotated.result)
=============================================================================
