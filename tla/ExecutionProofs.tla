---------------------------- MODULE ExecutionProofs ----------------------------
(***************************************************************************)
(* Proofs about Memory, Loader and Execution.                              *)
(*                                                                         *)
(* The first part is about one load and one store, for every size of a     *)
(* byte: a word is cut in what is below an access, in it and above it      *)
(* (ThreeParts), a store replaces the middle one (ReplacedParts), and so   *)
(* its bytes and no other (ReplacedBytes).                                 *)
(*                                                                         *)
(* The second part is about the way of an image into memory: what a        *)
(* segment maps (SegmentIs), what is found there when the segments do not  *)
(* overlap (LoadedIs), what _init_memory makes of it (InitialisedIs), and  *)
(* the invariant of the stages from the file to main (ImageInv).           *)
(*                                                                         *)
(* The third part is about an exception entry and the return from it: the  *)
(* digits of XPSR (XpsrFields), the addresses of a frame, which may wrap   *)
(* (FrameFits), its eight words one after the other (PushedIs), EXC_RETURN *)
(* (ReturnsByLink) and what a frame gives back (PoppedIs).                 *)
(*                                                                         *)
(* The fourth part is about the decoder: each group of patterns has its    *)
(* own range of halfwords (OneShift to OneMultiple), so that the chain has *)
(* one match at most (OneMatch), the first one (FirstIs).                  *)
(*                                                                         *)
(* The fifth part follows PC through a step: an instruction that is no     *)
(* branch leaves it alone (an operator changes some fields, OnlyChanges),  *)
(* a branch moves it by its offset, and which machine an instruction is    *)
(* tried in is ReadyInv.                                                   *)
(*                                                                         *)
(* The sixth part is about an access that faults: transfers change         *)
(* registers, memory and what is pending only (Transfers), memory keeps    *)
(* its map (SameMap), and the stack that an instruction is tried with has  *)
(* room for a frame (FrameInv).                                            *)
(*                                                                         *)
(* The seventh part is about several words: LDM and STM keep the order of  *)
(* their registers, and POP undoes PUSH.                                   *)
(*                                                                         *)
(* Lists and transfers are recursive functions of any length: EachStored,  *)
(* EachLoaded and EachListed give their values one after the other, and    *)
(* Climbing is the induction.                                              *)
(***************************************************************************)
EXTENDS Execution, FiniteSetTheorems, SequenceTheorems, WellFoundedInduction, TLAPS

-----------------------------------------------------------------------------
(* Recursion *)

\* What holds of 0 and is handed on holds up to n: the first number that it does
\* not hold of would have no predecessor.
LEMMA Climbing ==
  ASSUME NEW n \in Nat, NEW T, 0 \in T, \A k \in 1..n : k - 1 \in T => k \in T
  PROVE  \A k \in 0..n : k \in T
<1> SUFFICES ASSUME NEW k \in 0..n, k \notin T PROVE FALSE
  OBVIOUS
<1> DEFINE Others == {j \in 0..n : j \notin T}
<1>1. Others \subseteq Nat /\ k \in Others
  OBVIOUS
<1> HIDE DEF Others
<1>2. PICK x \in Others : \A y \in Others : ~(<<y, x>> \in OpToRel(<, Nat))
  BY <1>1, NatLessThanWellFounded, WFMin, Zenon
<1>3. \A y \in Others : ~(y < x)
  BY <1>1, <1>2 DEF OpToRel
<1>4. x \in 1..n /\ x \notin T /\ x - 1 \in 0..n
  BY DEF Others
<1>5. x - 1 \notin T
  BY <1>4
<1> QED BY <1>3, <1>4, <1>5 DEF Others

-----------------------------------------------------------------------------
(* Quotients and remainders *)

\* Quotient and remainder, of numbers that are products.
LEMMA Quotient ==
  ASSUME NEW d \in Nat \ {0}, NEW x \in Nat
  PROVE  x \div d \in Nat /\ x % d \in 0..(d - 1) /\ x = d * (x \div d) + (x % d)
OBVIOUS

LEMMA Unique ==
  ASSUME NEW d \in Nat \ {0}, NEW q \in Nat, NEW r \in 0..(d - 1)
  PROVE  (d * q + r) \div d = q /\ (d * q + r) % d = r
OBVIOUS

LEMMA ProductBound ==
  ASSUME NEW m \in Nat, NEW n \in Nat, NEW t \in 0..(n - 1), NEW r \in 0..(m - 1)
  PROVE  m * t + r \in 0..(m * n - 1)
<1>1. t + 1 <= n /\ m * (t + 1) = m * t + m
  OBVIOUS
<1>2. m * (t + 1) <= m * n
  BY <1>1
<1>3. m * t \in Nat /\ m * n \in Nat
  OBVIOUS
<1> QED BY <1>1, <1>2, <1>3

LEMMA DivDiv ==
  ASSUME NEW m \in Nat \ {0}, NEW n \in Nat \ {0}, NEW x \in Nat
  PROVE  (x \div m) \div n = x \div (m * n)
<1> DEFINE q == x \div m
           r == x % m
           p == q \div n
           t == q % n
<1>1. q \in Nat /\ r \in 0..(m - 1) /\ x = m * q + r
  BY Quotient
<1>2. p \in Nat /\ t \in 0..(n - 1) /\ q = n * p + t
  BY <1>1, Quotient
<1> HIDE DEF q, r, p, t
<1>3. m * n \in Nat \ {0} /\ m * t + r \in 0..(m * n - 1)
  BY <1>1, <1>2, ProductBound
<1>4. x = (m * n) * p + (m * t + r)
  <2>1. m * q = m * (n * p) + m * t /\ m * (n * p) = (m * n) * p
    BY <1>2
  <2> QED BY <1>1, <1>2, <2>1
<1>5. x \div (m * n) = p
  BY <1>2, <1>3, <1>4, Unique
<1> QED BY <1>5 DEF p, q

LEMMA DivisionBound ==
  ASSUME NEW p \in Nat \ {0}, NEW q \in Nat \ {0}, NEW v \in Nat, v < p * q
  PROVE  v \div p \in 0..(q - 1)
OBVIOUS

\* What is below a cut, by the digits above and below a lower one.
LEMMA CutDigits ==
  ASSUME NEW m \in Nat \ {0}, NEW e \in Nat \ {0}, NEW x \in Nat
  PROVE  (x % (m * e)) \div m = (x \div m) % e
<1> DEFINE q == x \div m
           l == x % m
           p == q \div e
           t == q % e
           low == m * t + l
<1>1. q \in Nat /\ l \in 0..(m - 1) /\ x = m * q + l
  BY Quotient
<1>2. p \in Nat /\ t \in 0..(e - 1) /\ q = e * p + t
  BY <1>1, Quotient
<1> HIDE DEF q, l, p, t
<1>3. low \in 0..(m * e - 1)
  BY <1>1, <1>2, ProductBound
<1>4. low \div m = t
  BY <1>1, <1>2, Unique
<1>5. x = (m * e) * p + low
  <2>1. m * q = m * (e * p) + m * t /\ m * (e * p) = (m * e) * p
    BY <1>2
  <2> QED BY <1>1, <1>2, <2>1
<1> HIDE DEF low
<1>6. m * e \in Nat \ {0}
  OBVIOUS
<1>7. x % (m * e) = low
  BY <1>2, <1>3, <1>5, <1>6, Unique
<1> QED BY <1>4, <1>7 DEF t, q

LEMMA CutTwice ==
  ASSUME NEW b \in Nat \ {0}, NEW r \in Nat \ {0}, NEW x \in Nat
  PROVE  (x % (b * r)) % b = x % b
<1> DEFINE c == b * r
           w == x % c
           p == x \div c
           q == w \div b
           t == w % b
<1>1. c \in Nat \ {0}
  OBVIOUS
<1> HIDE DEF c
<1>2. w \in Nat /\ p \in Nat /\ x = c * p + w
  BY <1>1, Quotient
<1>3. q \in Nat /\ t \in 0..(b - 1) /\ w = b * q + t
  BY <1>2, Quotient
<1> HIDE DEF w, p, q, t
<1>4. x = b * (r * p + q) + t /\ r * p + q \in Nat
  <2>1. c * p = b * (r * p)
    BY <1>2 DEF c
  <2>2. r * p \in Nat
    BY <1>2
  <2> QED BY <1>2, <1>3, <2>1, <2>2
<1> DEFINE above == r * p + q
<1> HIDE DEF above
<1>5. x % b = t
  <2>1. above \in Nat /\ x = b * above + t
    BY <1>4 DEF above
  <2> QED BY <1>3, <2>1, Unique
<1> QED BY <1>5 DEF t, w, c

-----------------------------------------------------------------------------
(* Parts of words *)

\* Powers of the size of a byte.
LEMMA BytePowers ==
  /\ \A k \in 0..4 : 2^(ByteBits * k) \in Nat \ {0}
  /\ \A j, k \in 0..4 : j + k <= 4 => 2^(ByteBits * (j + k)) = 2^(ByteBits * j) * 2^(ByteBits * k)
  /\ 2^(ByteBits * 4) = Modulus
<1>1. ByteBits \in Nat /\ WordBits = ByteBits * 4
  BY ByteAssumption DEF WordBits
<1>2. \A k \in 0..4 : ByteBits * k \in 0..WordBits
  BY <1>1
<1>3. \A j, k \in 0..4 : j + k <= 4 => ByteBits * (j + k) = ByteBits * j + ByteBits * k
  BY <1>1
<1>4. ASSUME NEW k \in 0..4 PROVE 2^(ByteBits * k) \in Nat \ {0}
  <2>1. /\ ByteBits * k \in 0..WordBits /\ 0 \in 0..WordBits
    BY <1>1, <1>2
  <2>2. \A m \in 0..WordBits : m + 0 <= WordBits
    BY <1>1
  <2> QED BY <2>1, <2>2, PowersAssumption
<1>5. ASSUME NEW j \in 0..4, NEW k \in 0..4, j + k <= 4
      PROVE  2^(ByteBits * (j + k)) = 2^(ByteBits * j) * 2^(ByteBits * k)
  <2>1. j + k \in 0..4
    BY <1>5
  <2> DEFINE m == ByteBits * j
             n == ByteBits * k
  <2>2. m \in 0..WordBits /\ n \in 0..WordBits
    BY <1>2
  <2>3. ByteBits * (j + k) = m + n
    BY <1>3, <1>5
  <2>4. m + n <= WordBits
    BY <1>1, <1>2, <2>1, <2>3
  <2> HIDE DEF m, n
  <2>5. 2^(m + n) = 2^m * 2^n
    BY <2>2, <2>4, PowersAssumption
  <2> QED BY <2>3, <2>5 DEF m, n
<1> QED BY <1>1, <1>4, <1>5 DEF Modulus

Power(k) == 2^(ByteBits * k)

\* An access to size bytes from offset on, and what is above it.
Access(offset, size) ==
  /\ offset \in 0..3 /\ size \in {1, 2, 4} /\ offset % size = 0

LEMMA AccessPowers ==
  ASSUME NEW offset, NEW size, Access(offset, size)
  PROVE  /\ offset + size \in 1..4 /\ size \in 1..4
         /\ Power(offset) \in Nat \ {0} /\ Power(size) \in Nat \ {0}
         /\ Power(4 - (offset + size)) \in Nat \ {0}
         /\ Power(offset + size) = Power(offset) * Power(size)
         /\ Modulus = (Power(offset) * Power(size)) * Power(4 - (offset + size))
<1> DEFINE above == 4 - (offset + size)
<1>1. offset + size \in 1..4 /\ size \in 1..4 /\ offset \in 0..4 /\ size \in 0..4
      /\ offset + size \in 0..4 /\ offset + size <= 4
  BY DEF Access
<1>2. above \in 0..4 /\ (offset + size) + above = 4 /\ (offset + size) + above <= 4
  BY <1>1
<1>3. \A k \in 0..4 : Power(k) \in Nat \ {0}
  BY BytePowers DEF Power
<1>4. \A j, k \in 0..4 : j + k <= 4 => Power(j + k) = Power(j) * Power(k)
  BY BytePowers DEF Power
<1>5. Power(4) = Modulus
  BY BytePowers DEF Power
<1> HIDE DEF above
<1>6. Power(offset + size) = Power(offset) * Power(size)
  BY <1>1, <1>4
<1>7. Power((offset + size) + above) = Power(offset + size) * Power(above)
  BY <1>1, <1>2, <1>4
<1>8. Modulus = (Power(offset) * Power(size)) * Power(above)
  BY <1>2, <1>5, <1>6, <1>7
<1> QED BY <1>1, <1>2, <1>3, <1>6, <1>8 DEF above

\* A word is what is below, in and above an access.
LEMMA ThreeParts ==
  ASSUME NEW offset, NEW size, Access(offset, size), NEW w \in Word
  PROVE  LET P == Power(offset)
             S == Power(size)
             low == w % P
             high == w \div (P * S)
         IN /\ Part(w, offset, size) = (w \div P) % S
            /\ low \in 0..(P - 1) /\ Part(w, offset, size) \in 0..(S - 1)
            /\ high \in 0..(Power(4 - (offset + size)) - 1)
            /\ w \div P = S * high + Part(w, offset, size)
            /\ w = P * (S * high + Part(w, offset, size)) + low
<1> DEFINE P == Power(offset)
           S == Power(size)
           Q == Power(4 - (offset + size))
           low == w % P
           high == w \div (P * S)
           part == (w \div P) % S
<1>1. P \in Nat \ {0} /\ S \in Nat \ {0} /\ Q \in Nat \ {0} /\ Modulus = (P * S) * Q
  BY AccessPowers
<1>2. Part(w, offset, size) = part
  BY DEF Part, Power
<1> HIDE DEF P, S, Q
<1>3. w \in Nat /\ w < (P * S) * Q /\ P * S \in Nat \ {0}
  <2>1. w \in Nat /\ w < Modulus
    BY BytePowers DEF Word
  <2> QED BY <1>1, <2>1
<1>4. w \div P \in Nat /\ low \in 0..(P - 1) /\ w = P * (w \div P) + low
  BY <1>1, <1>3, Quotient
<1>5. (w \div P) \div S = high
  BY <1>1, <1>3, DivDiv
<1>6. part \in 0..(S - 1) /\ w \div P = S * high + part
  BY <1>1, <1>4, <1>5, Quotient
<1>7. high \in 0..(Q - 1)
  BY <1>1, <1>3, DivisionBound
<1> QED BY <1>2, <1>4, <1>6, <1>7 DEF P, S, Q

LEMMA PowerSum ==
  ASSUME NEW j \in 0..4, NEW k \in 0..4, j + k <= 4
  PROVE  Power(j) \in Nat \ {0} /\ Power(k) \in Nat \ {0} /\ Power(j + k) = Power(j) * Power(k)
BY BytePowers DEF Power

\* Cutting a number off does not change a byte below the cut.
LEMMA ByteBelow ==
  ASSUME NEW n \in 0..4, NEW k \in 0..(n - 1), NEW x \in Nat
  PROVE  Part(x % Power(n), k, 1) = Part(x, k, 1)
<1> DEFINE j == n - k - 1
<1>1. k \in 0..4 /\ 1 \in 0..4 /\ j \in 0..4 /\ 1 + j \in 0..4 /\ 1 + j <= 4
      /\ k + (1 + j) = n /\ k + (1 + j) <= 4
  OBVIOUS
<1> HIDE DEF j
<1>2. /\ Power(1) \in Nat \ {0} /\ Power(j) \in Nat \ {0}
      /\ Power(1 + j) = Power(1) * Power(j)
  BY <1>1, PowerSum
<1>3. /\ Power(k) \in Nat \ {0} /\ Power(1 + j) \in Nat \ {0}
      /\ Power(n) = Power(k) * Power(1 + j)
  BY <1>1, PowerSum
<1> DEFINE y == x \div Power(k)
<1>4. y \in Nat
  BY <1>3, Quotient
<1>5. (x % Power(n)) \div Power(k) = y % Power(1 + j)
  BY <1>2, <1>3, CutDigits
<1> HIDE DEF y
<1>6. (y % Power(1 + j)) % Power(1) = y % Power(1)
  <2>1. Power(1) \in Nat \ {0} /\ Power(j) \in Nat \ {0}
    BY <1>2
  <2>2. (y % (Power(1) * Power(j))) % Power(1) = y % Power(1)
    BY ONLY <1>4, <2>1, CutTwice, Zenon
  <2> QED BY <1>2, <2>2
<1> QED BY <1>5, <1>6 DEF Part, Power, y

\* A byte of an access is a byte of what is accessed.
LEMMA ByteOfPart ==
  ASSUME NEW offset, NEW size, Access(offset, size), NEW x \in Nat, NEW k \in 0..(size - 1)
  PROVE  Part(Part(x, offset, size), k, 1) = Part(x, offset + k, 1)
<1>1. offset \in 0..4 /\ size \in 0..4 /\ k \in 0..4 /\ offset + k <= 4 /\ offset + k \in 0..4
  BY DEF Access
<1>2. /\ Power(offset) \in Nat \ {0} /\ Power(k) \in Nat \ {0}
      /\ Power(offset + k) = Power(offset) * Power(k)
  BY <1>1, PowerSum
<1> DEFINE y == x \div Power(offset)
<1>3. y \in Nat
  BY <1>2, Quotient
<1>4. y \div Power(k) = x \div Power(offset + k)
  BY <1>2, DivDiv
<1> HIDE DEF y
<1>5. Part(y % Power(size), k, 1) = Part(y, k, 1)
  BY <1>1, <1>3, ByteBelow
<1>6. Part(x, offset, size) = y % Power(size)
  BY DEF Part, Power, y
<1>7. Part(y, k, 1) = Part(x, offset + k, 1)
  BY <1>4 DEF Part, Power
<1> QED BY <1>5, <1>6, <1>7

\* A byte above a number of bytes is one of what is above them.
LEMMA ByteAbove ==
  ASSUME NEW n \in 0..4, NEW k \in n..3, NEW x \in Nat
  PROVE  Part(x, k, 1) = Part(x \div Power(n), k - n, 1)
<1> DEFINE j == k - n
<1>1. n \in 0..4 /\ j \in 0..4 /\ n + j <= 4 /\ n + j = k
  OBVIOUS
<1> HIDE DEF j
<1>2. Power(n) \in Nat \ {0} /\ Power(j) \in Nat \ {0} /\ Power(k) = Power(n) * Power(j)
  BY <1>1, PowerSum
<1>3. (x \div Power(n)) \div Power(j) = x \div Power(k)
  BY <1>2, DivDiv
<1> QED BY <1>3 DEF Part, Power, j

\* What replacing a part changes of a word, and what it leaves.
LEMMA ReplacedParts ==
  ASSUME NEW offset, NEW size, Access(offset, size), NEW w \in Word, NEW v \in Nat
  PROVE  LET P == Power(offset)
             S == Power(size)
             replaced == Replaced(w, offset, size, v)
         IN /\ replaced \in Word
            /\ replaced % P = w % P
            /\ Part(replaced, offset, size) = v % S
            /\ replaced \div Power(offset + size) = w \div Power(offset + size)
<1> DEFINE P == Power(offset)
           S == Power(size)
           Q == Power(4 - (offset + size))
           low == w % P
           part == Part(w, offset, size)
           high == w \div (P * S)
           new == v % S
           mid == S * high + new
           replaced == Replaced(w, offset, size, v)
<1>1. /\ P \in Nat \ {0} /\ S \in Nat \ {0} /\ Q \in Nat \ {0}
      /\ Power(offset + size) = P * S /\ Modulus = (P * S) * Q
  BY AccessPowers
<1>2. /\ low \in 0..(P - 1) /\ part \in 0..(S - 1) /\ high \in 0..(Q - 1)
      /\ w = P * (S * high + part) + low
  BY ThreeParts
<1>3. replaced = w + (new - part) * P
  BY DEF Replaced, Power
<1>4. Part(replaced, offset, size) = (replaced \div P) % S
  BY DEF Part, Power
<1> HIDE DEF P, S, Q, low, part, high, replaced
<1>5. new \in 0..(S - 1)
  BY <1>1, Quotient
<1> HIDE DEF new
<1>6. mid \in Nat
  BY <1>1, <1>2, <1>5
<1>7. replaced = P * mid + low
  BY <1>1, <1>2, <1>3, <1>5
<1>8. mid \div S = high /\ mid % S = new
  BY <1>1, <1>2, <1>5, Unique
<1>9. mid \in 0..(S * Q - 1)
  BY <1>1, <1>2, <1>5, ProductBound
<1> HIDE DEF mid
<1>10. replaced \div P = mid /\ replaced % P = low
  BY <1>1, <1>2, <1>6, <1>7, Unique
<1>11. replaced \in 0..(Modulus - 1)
  <2>1. S * Q \in Nat /\ (P * S) * Q = P * (S * Q)
    BY <1>1
  <2>2. P * mid + low \in 0..(P * (S * Q) - 1)
    BY <1>1, <1>2, <1>9, <2>1, ProductBound
  <2> QED BY <1>1, <1>7, <2>1, <2>2
<1>12. replaced \div (P * S) = high
  <2>1. replaced \in Nat
    BY <1>1, <1>2, <1>6, <1>7
  <2>2. (replaced \div P) \div S = replaced \div (P * S)
    BY <1>1, <2>1, DivDiv
  <2> QED BY <1>8, <1>10, <2>2
<1> QED BY <1>1, <1>4, <1>8, <1>10, <1>11, <1>12 DEF Word, P, S, low, high, new, replaced

\* Replacing a part replaces its bytes and no other.
LEMMA ReplacedBytes ==
  ASSUME NEW offset, NEW size, Access(offset, size), NEW w \in Word, NEW v \in Nat
  PROVE  LET replaced == Replaced(w, offset, size, v)
         IN /\ replaced \in Word
            /\ \A k \in 0..3 :
                 Part(replaced, k, 1) = IF k - offset \in 0..(size - 1) THEN Part(v, k - offset, 1)
                                        ELSE Part(w, k, 1)
<1> DEFINE replaced == Replaced(w, offset, size, v)
           end == offset + size
<1>1. /\ replaced \in Word
      /\ replaced % Power(offset) = w % Power(offset)
      /\ Part(replaced, offset, size) = v % Power(size)
      /\ replaced \div Power(end) = w \div Power(end)
  BY ReplacedParts
<1>2. Modulus \in Nat /\ \A x \in Word : x \in Nat
  BY BytePowers DEF Word
<1>3. /\ offset \in 0..3 /\ size \in 1..4 /\ end \in 1..4
      /\ offset \in 0..4 /\ size \in 0..4 /\ end \in 0..4
  BY DEF Access
<1> HIDE DEF replaced
<1>4. replaced \in Nat /\ w \in Nat
  BY <1>1, <1>2
<1>5. ASSUME NEW k \in 0..3, k - offset \in 0..(size - 1)
      PROVE  Part(replaced, k, 1) = Part(v, k - offset, 1)
  <2> DEFINE j == k - offset
  <2>1. j \in 0..(size - 1) /\ offset + j = k
    BY <1>3, <1>5
  <2> HIDE DEF j
  <2>2. Part(replaced, offset + j, 1) = Part(Part(replaced, offset, size), j, 1)
    BY <1>4, <2>1, ByteOfPart
  <2>3. Part(v % Power(size), j, 1) = Part(v, j, 1)
    BY <1>3, <2>1, ByteBelow
  <2> QED BY <1>1, <2>1, <2>2, <2>3 DEF j
<1>6. ASSUME NEW k \in 0..3, k - offset \notin 0..(size - 1)
      PROVE  Part(replaced, k, 1) = Part(w, k, 1)
  <2>1. CASE k < offset
    <3>1. k \in 0..(offset - 1)
      BY <1>3, <2>1
    <3>2. Part(replaced % Power(offset), k, 1) = Part(replaced, k, 1)
      BY <1>3, <1>4, <3>1, ByteBelow
    <3>3. Part(w % Power(offset), k, 1) = Part(w, k, 1)
      BY <1>3, <1>4, <3>1, ByteBelow
    <3> QED BY <1>1, <3>2, <3>3
  <2>2. CASE k \in end..3
    <3>1. Part(replaced, k, 1) = Part(replaced \div Power(end), k - end, 1)
      BY <1>3, <1>4, <2>2, ByteAbove
    <3>2. Part(w, k, 1) = Part(w \div Power(end), k - end, 1)
      BY <1>3, <1>4, <2>2, ByteAbove
    <3> QED BY <1>1, <3>1, <3>2
  <2> QED BY <1>3, <1>6, <2>1, <2>2
<1> QED BY <1>1, <1>5, <1>6 DEF replaced

-----------------------------------------------------------------------------
(* Loads and stores *)

\* Memory as it is made: words and registers at aligned addresses of their own.
MemoryOK(mem) ==
  /\ DOMAIN mem = {"words", "registers", "keys_hash"}
  /\ \A a \in DOMAIN mem.words : a \in Nat /\ a % 4 = 0 /\ mem.words[a] \in Word
  /\ \A a \in DOMAIN mem.registers : a \in Nat /\ a % 4 = 0 /\ mem.registers[a] \in Word
  /\ DOMAIN mem.words \cap DOMAIN mem.registers = {}
  /\ mem.keys_hash = KeysHash(DOMAIN mem.registers)

\* What an access must be to succeed.
Reaches(mem, a, size) ==
  /\ a % size = 0
  /\ Aligned(a) \in DOMAIN mem.words \/ (size = 4 /\ a \in DOMAIN mem.registers)

\* get_register_at finds every memory mapped register and nothing else: the hash
\* of the addresses, a filter before the lookup, lets all of them through.
THEOREM RegistersAreFound ==
  ASSUME NEW mem, MemoryOK(mem), NEW a
  PROVE  IsRegister(mem, a) <=> a \in DOMAIN mem.registers
BY DEF IsRegister, MemoryOK, KeysHash

LEMMA ByteIsPart ==
  ASSUME NEW ws, NEW a
  PROVE  ByteAt(ws, a) = Part(ws[Aligned(a)], a % 4, 1)
<1>1. ByteBits * 1 = ByteBits
  BY ByteAssumption
<1> QED BY <1>1 DEF ByteAt, Part

LEMMA SameWord ==
  ASSUME NEW a \in Nat, NEW size \in {1, 2, 4}, a % size = 0, NEW j \in 0..(size - 1)
  PROVE  Aligned(a + j) = Aligned(a) /\ (a + j) % 4 = (a % 4) + j
<1>1. (a + j) % 4 = (a % 4) + j
  <2>1. CASE size = 1
    BY <2>1
  <2>2. CASE size = 2
    BY <2>2
  <2>3. CASE size = 4
    BY <2>3
  <2> QED BY <2>1, <2>2, <2>3
<1> QED BY <1>1 DEF Aligned

\* Where in a word an aligned access is.
LEMMA AccessAt ==
  ASSUME NEW a \in Nat, NEW size \in {1, 2, 4}, a % size = 0
  PROVE  /\ Access(a % 4, size) /\ Aligned(a) \in Nat
         /\ \A j \in 0..(size - 1) : Aligned(a + j) = Aligned(a) /\ (a + j) % 4 = (a % 4) + j
         /\ \A b \in Nat : b - a \in 0..(size - 1) =>
              Aligned(b) = Aligned(a) /\ (b % 4) - (a % 4) = b - a
         /\ \A b \in Nat : Aligned(b) = Aligned(a) => (b % 4) - (a % 4) = b - a
         /\ size = 4 => Aligned(a) = a /\ a % 4 = 0
<1>1. a % 4 \in 0..3 /\ Aligned(a) = a - (a % 4)
  BY DEF Aligned
<1>2. (a % 4) % size = 0
  <2>1. CASE size = 1
    BY <1>1, <2>1
  <2>2. CASE size = 2
    BY <2>2
  <2>3. CASE size = 4
    BY <2>3
  <2> QED BY <2>1, <2>2, <2>3
<1>3. Access(a % 4, size)
  BY <1>1, <1>2 DEF Access
<1>4. \A j \in 0..(size - 1) : (a + j) % 4 = (a % 4) + j
  BY SameWord
<1>5. \A j \in 0..(size - 1) : Aligned(a + j) = Aligned(a)
  BY SameWord
<1>6. ASSUME NEW b \in Nat, b - a \in 0..(size - 1)
      PROVE  Aligned(b) = Aligned(a) /\ (b % 4) - (a % 4) = b - a
  <2>1. b - a \in 0..(size - 1) /\ a + (b - a) = b
    BY <1>6
  <2>2. b % 4 = (a % 4) + (b - a)
    BY <1>4, <2>1
  <2> QED BY <1>1, <2>2 DEF Aligned
<1>7. \A b \in Nat : Aligned(b) = Aligned(a) => (b % 4) - (a % 4) = b - a
  BY DEF Aligned
<1>8. Aligned(a) \in Nat
  BY <1>1
<1>9. size = 4 => Aligned(a) = a /\ a % 4 = 0
  BY <1>1
<1> QED BY <1>3, <1>4, <1>5, <1>6, <1>7, <1>8, <1>9

\* A word is its four bytes, and so a word access one to all of them.
LEMMA WholeWord ==
  ASSUME NEW w \in Word
  PROVE  Part(w, 0, 4) = w
<1>1. 2^(ByteBits * 0) = 1 /\ 2^(ByteBits * 4) = Modulus /\ Modulus \in Nat \ {0}
  <2>1. ByteBits * 0 = 0 /\ ByteBits * 4 = WordBits
    BY ByteAssumption DEF WordBits
  <2>2. 2^0 = 1
    <3>1. 0 \in 0..WordBits /\ 0 + 0 = 0 /\ 0 + 0 <= WordBits
      BY ByteAssumption DEF WordBits
    <3>2. 2^0 \in Nat \ {0} /\ 2^0 = 2^0 * 2^0
      BY <3>1, PowersAssumption
    <3> QED BY <3>2
  <2>3. 2^(ByteBits * 4) \in Nat \ {0}
    BY BytePowers
  <2> QED BY <2>1, <2>2, <2>3 DEF Modulus
<1>2. w \in Nat /\ w < Modulus
  BY <1>1 DEF Word
<1>3. w \div 1 = w /\ w % Modulus = w
  BY <1>1, <1>2
<1> QED BY <1>1, <1>3 DEF Part

LEMMA WordsIs ==
  ASSUME NEW mem, MemoryOK(mem)
  PROVE  /\ DOMAIN WordsOf(mem) = DOMAIN mem.words \cup DOMAIN mem.registers
         /\ \A a \in DOMAIN mem.words : WordsOf(mem)[a] = mem.words[a]
         /\ \A a \in DOMAIN mem.registers : WordsOf(mem)[a] = mem.registers[a]
BY DEF WordsOf, MemoryOK

\* What is in memory after the word of one register, or a part of a word, was written.
LEMMA WriteIs ==
  ASSUME NEW mem, MemoryOK(mem), NEW a \in Nat, NEW size \in {1, 2, 4}, NEW v \in Word,
         Reaches(mem, a, size)
  PROVE  LET x == Aligned(a)
             written == Write(mem, a, size, v).mem
             w == IF size = 4 THEN v ELSE Replaced(mem.words[x], a % 4, size, v)
         IN /\ Write(mem, a, size, v).ok
            /\ x \in DOMAIN WordsOf(mem)
            /\ size # 4 => x \in DOMAIN mem.words
            /\ w \in Word
            /\ MemoryOK(written)
            /\ WordsOf(written) = [WordsOf(mem) EXCEPT ![x] = w]
<1> DEFINE x == Aligned(a)
           written == Write(mem, a, size, v).mem
           w == IF size = 4 THEN v ELSE Replaced(mem.words[x], a % 4, size, v)
<1>1. Access(a % 4, size) /\ (size = 4 => x = a /\ a % 4 = 0) /\ a % size = 0
  BY AccessAt DEF Reaches
<1> HIDE DEF x
<1>2. v \in Nat
  BY BytePowers DEF Word
<1>3. CASE size = 4 /\ IsRegister(mem, a)
  <2>1. a \in DOMAIN mem.registers /\ x = a /\ w = v
    BY <1>1, <1>3, RegistersAreFound
  <2>2. Write(mem, a, size, v) = [ok |-> TRUE, mem |-> [mem EXCEPT !.registers[a] = v]]
    BY <1>3 DEF Write
  <2>3. /\ DOMAIN written = DOMAIN mem /\ written.words = mem.words
        /\ written.registers = [mem.registers EXCEPT ![a] = v]
        /\ written.keys_hash = mem.keys_hash
    BY <2>2 DEF MemoryOK
  <2> HIDE DEF written
  <2>4. MemoryOK(written)
    BY <2>1, <2>3 DEF MemoryOK
  <2>5. WordsOf(written) = [WordsOf(mem) EXCEPT ![x] = w]
    BY <2>1, <2>3 DEF WordsOf, MemoryOK
  <2> QED BY <1>3, <2>1, <2>2, <2>4, <2>5 DEF WordsOf, written, x
<1>4. CASE ~(size = 4 /\ IsRegister(mem, a))
  <2>1. x \in DOMAIN mem.words /\ IsMapped(mem, a, size)
    BY <1>1, <1>4, RegistersAreFound DEF Reaches, IsMapped, x
  <2>2. mem.words[x] \in Word
    BY <2>1 DEF MemoryOK
  <2> DEFINE replaced == Replaced(mem.words[x], a % 4, size, v)
  <2>3. replaced \in Word
    BY <1>1, <1>2, <2>2, ReplacedParts
  <2>4. size = 4 => replaced = v
    <3>1. SUFFICES ASSUME size = 4 PROVE replaced = v
      OBVIOUS
    <3>2. Part(replaced, 0, 4) = v % Power(4)
      <4> DEFINE o == a % 4
                 old == mem.words[x]
      <4>1. Access(o, size) /\ old \in Word
        BY <1>1, <2>2
      <4> HIDE DEF o, old
      <4>2. Part(Replaced(old, o, size, v), o, size) = v % Power(size)
        BY <1>2, <4>1, ReplacedParts
      <4> QED BY <1>1, <3>1, <4>2 DEF o, old
    <3>3. Part(replaced, 0, 4) = replaced /\ Part(v, 0, 4) = v
      BY <2>3, WholeWord
    <3>4. v % Power(4) = v
      <4>1. Power(4) = Modulus /\ Modulus \in Nat \ {0}
        BY BytePowers DEF Power
      <4> QED BY <4>1 DEF Word
    <3> QED BY <3>2, <3>3, <3>4
  <2> HIDE DEF replaced
  <2>5. w = replaced
    BY <2>4 DEF replaced
  <2> HIDE DEF w
  <2>6. Write(mem, a, size, v) = [ok |-> TRUE, mem |-> [mem EXCEPT !.words[x] = replaced]]
    BY <1>4, <2>1 DEF Write, replaced, x
  <2>7. /\ DOMAIN written = DOMAIN mem /\ written.registers = mem.registers
        /\ written.words = [mem.words EXCEPT ![x] = replaced]
        /\ written.keys_hash = mem.keys_hash
    BY <2>6 DEF MemoryOK
  <2> HIDE DEF written
  <2>8. MemoryOK(written)
    BY <2>1, <2>3, <2>7 DEF MemoryOK
  <2>9. WordsOf(written) = [WordsOf(mem) EXCEPT ![x] = w]
    BY <2>1, <2>5, <2>7 DEF WordsOf
  <2> QED BY <2>1, <2>3, <2>5, <2>6, <2>8, <2>9 DEF WordsOf, written, x, w
<1> QED BY <1>3, <1>4

\* A store puts its bytes where it is told, low byte first, and changes no other.
THEOREM StoreWritesItsBytes ==
  ASSUME NEW mem, MemoryOK(mem), NEW a \in Nat, NEW size \in {1, 2, 4}, NEW v \in Word,
         Reaches(mem, a, size)
  PROVE  LET written == Write(mem, a, size, v).mem
         IN /\ Write(mem, a, size, v).ok
            /\ MemoryOK(written) /\ DOMAIN WordsOf(written) = DOMAIN WordsOf(mem)
            /\ \A b \in Nat : Aligned(b) \in DOMAIN WordsOf(mem) =>
                 ByteAt(WordsOf(written), b) = IF b - a \in 0..(size - 1) THEN Part(v, b - a, 1)
                                               ELSE ByteAt(WordsOf(mem), b)
<1> DEFINE x == Aligned(a)
           o == a % 4
           written == Write(mem, a, size, v).mem
           w == IF size = 4 THEN v ELSE Replaced(mem.words[x], o, size, v)
<1>1. /\ Write(mem, a, size, v).ok /\ MemoryOK(written)
      /\ x \in DOMAIN WordsOf(mem) /\ (size # 4 => x \in DOMAIN mem.words)
      /\ WordsOf(written) = [WordsOf(mem) EXCEPT ![x] = w]
  BY WriteIs
<1> HIDE DEF written
<1>2. /\ Access(o, size) /\ (size = 4 => o = 0)
      /\ \A b \in Nat : b - a \in 0..(size - 1) => Aligned(b) = x /\ (b % 4) - o = b - a
      /\ \A b \in Nat : Aligned(b) = x => (b % 4) - o = b - a
  BY AccessAt DEF Reaches
<1>3. v \in Nat /\ \A b \in Nat : b % 4 \in 0..3
  BY BytePowers DEF Word
<1> HIDE DEF x, o, w
<1>4. ASSUME NEW k \in 0..3
      PROVE  Part(w, k, 1) = IF k - o \in 0..(size - 1) THEN Part(v, k - o, 1)
                             ELSE Part(WordsOf(mem)[x], k, 1)
  <2>1. CASE size = 4
    <3>1. w = v /\ k - o \in 0..(size - 1) /\ k - o = k
      BY <1>2, <2>1 DEF w
    <3> QED BY <3>1
  <2>2. CASE size # 4
    <3>1. x \in DOMAIN mem.words /\ WordsOf(mem)[x] = mem.words[x]
      BY <1>1, <2>2, WordsIs
    <3> DEFINE old == mem.words[x]
    <3>2. old \in Word
      BY <3>1 DEF MemoryOK
    <3> HIDE DEF old
    <3>3. \A n \in 0..3 :
             Part(Replaced(old, o, size, v), n, 1) =
               IF n - o \in 0..(size - 1) THEN Part(v, n - o, 1) ELSE Part(old, n, 1)
      <4>1. Access(o, size) /\ v \in Nat
        BY <1>2, <1>3
      <4> QED BY ONLY <3>2, <4>1, ReplacedBytes
    <3> QED BY <2>2, <3>1, <3>3 DEF old, w
  <2> QED BY <2>1, <2>2
<1>5. ASSUME NEW b \in Nat, Aligned(b) \in DOMAIN WordsOf(mem)
      PROVE  ByteAt(WordsOf(written), b) = IF b - a \in 0..(size - 1) THEN Part(v, b - a, 1)
                                           ELSE ByteAt(WordsOf(mem), b)
  <2>1. /\ ByteAt(WordsOf(written), b) = Part(WordsOf(written)[Aligned(b)], b % 4, 1)
        /\ ByteAt(WordsOf(mem), b) = Part(WordsOf(mem)[Aligned(b)], b % 4, 1)
    BY ByteIsPart
  <2>2. CASE Aligned(b) = x
    <3>1. WordsOf(written)[Aligned(b)] = w
      BY <1>1, <2>2
    <3>2. (b % 4) - o = b - a /\ b % 4 \in 0..3
      BY <1>2, <1>3, <2>2
    <3> QED BY <1>4, <2>1, <2>2, <3>1, <3>2
  <2>3. CASE Aligned(b) # x
    <3>1. WordsOf(written)[Aligned(b)] = WordsOf(mem)[Aligned(b)]
      BY <1>1, <1>5, <2>3
    <3>2. b - a \notin 0..(size - 1)
      BY <1>2, <2>3
    <3> QED BY <2>1, <3>1, <3>2
  <2> QED BY <2>2, <2>3
<1>6. DOMAIN WordsOf(written) = DOMAIN WordsOf(mem)
  BY <1>1
<1> QED BY <1>1, <1>5, <1>6 DEF written

\* A load returns the bytes that are there, low byte first.
THEOREM LoadReadsItsBytes ==
  ASSUME NEW mem, MemoryOK(mem), NEW a \in Nat, NEW size \in {1, 2, 4}, Reaches(mem, a, size)
  PROVE  LET value == Read(mem, a, size).value
         IN /\ Read(mem, a, size).ok
            /\ value \in 0..(Power(size) - 1)
            /\ \A j \in 0..(size - 1) : Part(value, j, 1) = ByteAt(WordsOf(mem), a + j)
<1> DEFINE x == Aligned(a)
           o == a % 4
           value == Read(mem, a, size).value
<1>1. /\ Access(o, size) /\ (size = 4 => x = a /\ o = 0) /\ a % size = 0
      /\ \A j \in 0..(size - 1) : Aligned(a + j) = x /\ (a + j) % 4 = o + j
  BY AccessAt DEF Reaches
<1> HIDE DEF x, o
<1>2. x \in DOMAIN WordsOf(mem) /\ WordsOf(mem)[x] \in Word
  <2>1. x \in DOMAIN mem.words \cup DOMAIN mem.registers
    BY <1>1 DEF Reaches, x
  <2>2. x \in DOMAIN mem.words => WordsOf(mem)[x] \in Word
    BY WordsIs DEF MemoryOK
  <2>3. x \in DOMAIN mem.registers => WordsOf(mem)[x] \in Word
    BY WordsIs DEF MemoryOK
  <2> QED BY <2>1, <2>2, <2>3, WordsIs
<1>3. Read(mem, a, size).ok /\ value = Part(WordsOf(mem)[x], o, size)
  <2>1. CASE size = 4 /\ IsRegister(mem, a)
    <3>1. x \in DOMAIN mem.registers /\ WordsOf(mem)[x] = mem.registers[x] /\ x = a /\ o = 0
      BY <1>1, <2>1, RegistersAreFound, WordsIs
    <3>2. Part(WordsOf(mem)[x], 0, 4) = WordsOf(mem)[x]
      BY <1>2, WholeWord
    <3> QED BY <2>1, <3>1, <3>2 DEF Read
  <2>2. CASE ~(size = 4 /\ IsRegister(mem, a))
    <3>1. x \in DOMAIN mem.words /\ IsMapped(mem, a, size)
      BY <1>1, <2>2, RegistersAreFound DEF Reaches, IsMapped, x
    <3>2. WordsOf(mem)[x] = mem.words[x]
      BY <3>1, WordsIs
    <3> QED BY <2>2, <3>1, <3>2 DEF Read, x, o
  <2> QED BY <2>1, <2>2
<1> HIDE DEF value
<1> DEFINE word == WordsOf(mem)[x]
<1>4. word \in Nat
  BY <1>2, BytePowers DEF Word
<1> HIDE DEF word
<1>5. value \in 0..(Power(size) - 1)
  BY <1>1, <1>2, <1>3, ThreeParts
<1>6. ASSUME NEW j \in 0..(size - 1)
      PROVE  Part(value, j, 1) = ByteAt(WordsOf(mem), a + j)
  <2>1. Part(Part(word, o, size), j, 1) = Part(word, o + j, 1)
    BY <1>1, <1>4, ByteOfPart
  <2>2. ByteAt(WordsOf(mem), a + j) = Part(WordsOf(mem)[x], o + j, 1)
    BY <1>1, ByteIsPart
  <2> QED BY <1>3, <2>1, <2>2 DEF word
<1> QED BY <1>3, <1>5, <1>6 DEF value

\* An access that does not reach memory fails, and leaves it.
THEOREM OthersFail ==
  ASSUME NEW mem, MemoryOK(mem), NEW a \in Nat, NEW size \in {1, 2, 4}, NEW v,
         ~Reaches(mem, a, size)
  PROVE  /\ Read(mem, a, size) = [ok |-> FALSE, value |-> 0]
         /\ Write(mem, a, size, v) = [ok |-> FALSE, mem |-> mem]
<1>1. ~(size = 4 /\ IsRegister(mem, a))
  <2>1. SUFFICES ASSUME size = 4, IsRegister(mem, a) PROVE FALSE
    OBVIOUS
  <2>2. a \in DOMAIN mem.registers /\ a % 4 = 0
    BY <2>1, RegistersAreFound DEF MemoryOK
  <2> QED BY <2>1, <2>2 DEF Reaches
<1>2. ~IsMapped(mem, a, size)
  BY DEF IsMapped, Reaches
<1> QED BY <1>1, <1>2 DEF Read, Write

\* What is made of words and registers that do not overlap is such a memory.
LEMMA NewMemoryOK ==
  ASSUME NEW words, NEW registers, DOMAIN words \cap DOMAIN registers = {},
         \A a \in DOMAIN words : a \in Nat /\ a % 4 = 0 /\ words[a] \in Word,
         \A a \in DOMAIN registers : a \in Nat /\ a % 4 = 0 /\ registers[a] \in Word
  PROVE  MemoryOK(NewMemory(words, registers))
BY DEF MemoryOK, NewMemory

\* A load after a store sees the bytes of the store, and elsewhere what was there.
THEOREM LoadSeesStore ==
  ASSUME NEW mem, MemoryOK(mem),
         NEW a \in Nat, NEW size \in {1, 2, 4}, NEW v \in Word, Reaches(mem, a, size),
         NEW b \in Nat, NEW width \in {1, 2, 4}, Reaches(mem, b, width)
  PROVE  LET got == Read(Write(mem, a, size, v).mem, b, width)
         IN /\ got.ok
            /\ \A j \in 0..(width - 1) :
                 Part(got.value, j, 1) = IF b + j - a \in 0..(size - 1) THEN Part(v, b + j - a, 1)
                                         ELSE ByteAt(WordsOf(mem), b + j)
<1> DEFINE written == Write(mem, a, size, v).mem
<1>1. /\ MemoryOK(written) /\ DOMAIN WordsOf(written) = DOMAIN WordsOf(mem)
      /\ \A c \in Nat : Aligned(c) \in DOMAIN WordsOf(mem) =>
           ByteAt(WordsOf(written), c) = IF c - a \in 0..(size - 1) THEN Part(v, c - a, 1)
                                         ELSE ByteAt(WordsOf(mem), c)
  BY StoreWritesItsBytes
<1>2. Aligned(b) \in DOMAIN WordsOf(mem)
  <2>1. width = 4 /\ b % 4 = 0 => Aligned(b) = b
    BY DEF Aligned
  <2>2. Aligned(b) \in DOMAIN mem.words \/ (width = 4 /\ b \in DOMAIN mem.registers)
    BY DEF Reaches
  <2>3. width = 4 => b % 4 = 0
    BY DEF Reaches
  <2>4. DOMAIN WordsOf(mem) = DOMAIN mem.words \cup DOMAIN mem.registers
    BY WordsIs
  <2> QED BY ONLY <2>1, <2>2, <2>3, <2>4
<1>3. ASSUME NEW j \in 0..(width - 1) PROVE b + j \in Nat /\ Aligned(b + j) = Aligned(b)
  <2>1. b % width = 0
    BY DEF Reaches
  <2>2. Aligned(b + j) = Aligned(b)
    BY <2>1, SameWord
  <2> QED BY <2>2
<1>4. Reaches(written, b, width)
  <2>2. CASE size = 4 /\ IsRegister(mem, a)
    BY <2>2 DEF Write, Reaches, MemoryOK
  <2>3. CASE ~(size = 4 /\ IsRegister(mem, a)) /\ IsMapped(mem, a, size)
    BY <2>3 DEF Write, Reaches, MemoryOK
  <2>4. CASE ~(size = 4 /\ IsRegister(mem, a)) /\ ~IsMapped(mem, a, size)
    BY <2>4 DEF Write
  <2> QED BY <2>2, <2>3, <2>4
<1> HIDE DEF written
<1>5. /\ Read(written, b, width).ok
      /\ \A j \in 0..(width - 1) :
           Part(Read(written, b, width).value, j, 1) = ByteAt(WordsOf(written), b + j)
  BY <1>1, <1>4, LoadReadsItsBytes
<1> QED BY <1>1, <1>2, <1>3, <1>5 DEF written

-----------------------------------------------------------------------------
(* Regions and segments *)

LEMMA RegionIs ==
  ASSUME NEW start \in Nat, NEW words, Len(words) \in Nat, DOMAIN words = 1..Len(words)
  PROVE  /\ DOMAIN Region(start, words) = Addresses(start, Len(words))
         /\ \A i \in 1..Len(words) : Region(start, words)[start + 4 * (i - 1)] = words[i]
<1>1. DOMAIN Region(start, words) = Addresses(start, Len(words))
  BY DEF Region
<1>2. ASSUME NEW i \in 1..Len(words)
      PROVE  Region(start, words)[start + 4 * (i - 1)] = words[i]
  <2>1. i - 1 \in 0..(Len(words) - 1) /\ start + 4 * (i - 1) \in Addresses(start, Len(words))
    BY DEF Addresses
  <2>2. ((start + 4 * (i - 1)) - start) \div 4 + 1 = i
    OBVIOUS
  <2> QED BY <2>1, <2>2 DEF Region
<1> QED BY <1>1, <1>2

\* The region that alone has an address is the one that is found.
LEMMA OnlyRegion ==
  ASSUME NEW regions, Len(regions) \in Nat, DOMAIN regions = 1..Len(regions),
         NEW k, k \in DOMAIN regions, NEW a, a \in DOMAIN regions[k],
         \A j \in DOMAIN regions : j # k => a \notin DOMAIN regions[j]
  PROVE  a \in DOMAIN MappedWords(regions) /\ MappedWords(regions)[a] = regions[k][a]
<1> DEFINE having == {i \in 1..Len(regions) : a \in DOMAIN regions[i]}
<1>1. having = {k} /\ k \in Int
  OBVIOUS
<1>2. Min({k}) = k
  BY <1>1 DEF Min
<1>3. FindRegion(regions, a) = regions[k]
  BY <1>1, <1>2 DEF FindRegion, SelectInSeq
<1>4. regions[k] \in ToSet(regions)
  BY DEF ToSet
<1> QED BY <1>3, <1>4 DEF MappedWords

\* What is mapped is what the regions map.
LEMMA MappedDomain ==
  ASSUME NEW regions, NEW a \in DOMAIN MappedWords(regions)
  PROVE  \E k \in DOMAIN regions : a \in DOMAIN regions[k]
BY DEF MappedWords, ToSet

Segments == [virtual : Nat, physical : Nat, size : Nat, progbits : Seq(Word)]

\* A segment of an image is mapped where the image needs it, with its progbits.
LEMMA SegmentIs ==
  ASSUME NEW s \in Segments, NEW fill, Len(s.progbits) <= s.size,
         ~Stays(s) => Addresses(s.physical, Len(s.progbits)) \cap Addresses(s.virtual, s.size) = {}
  PROVE  LET words == MappedWords(Regions(s, fill))
             holds(start, i) == /\ start + 4 * (i - 1) \in Areas(s)
                                /\ words[start + 4 * (i - 1)] = s.progbits[i]
         IN /\ DOMAIN words = Areas(s)
            /\ fill \in Word => \A a \in Areas(s) : a \in Nat /\ words[a] \in Word
            /\ Stays(s)  => \A i \in 1..Len(s.progbits) : holds(s.virtual, i)
            /\ ~Stays(s) => \A i \in 1..Len(s.progbits) : holds(s.physical, i)
<1> DEFINE words == MappedWords(Regions(s, fill))
           loaded == Segment(s.size, s.progbits, fill)
           empty  == Segment(s.size, <<>>, fill)
           n      == Len(s.progbits)
<1>1. /\ s.virtual \in Nat /\ s.physical \in Nat /\ s.size \in Nat
      /\ n \in Nat /\ DOMAIN s.progbits = 1..n
  BY DEF Segments
<1>2. /\ Len(loaded) = s.size /\ DOMAIN loaded = 1..s.size
      /\ \A i \in 1..n : i \in 1..s.size /\ loaded[i] = s.progbits[i]
  BY <1>1 DEF Segment
<1>3. Len(empty) = s.size /\ DOMAIN empty = 1..s.size
  BY <1>1 DEF Segment
<1>4. \A i \in 1..n : s.progbits[i] \in Word
  BY <1>1 DEF Segments
<1>5. fill \in Word => \A i \in 1..s.size : loaded[i] \in Word /\ empty[i] \in Word
  BY <1>1, <1>4 DEF Segment
<1> HIDE DEF loaded, empty
<1>6. CASE Stays(s)
  <2> DEFINE region == Region(s.virtual, loaded)
  <2>1. Regions(s, fill) = <<region>>
    BY <1>6 DEF Regions, Stays, loaded
  <2>2. /\ DOMAIN region = Addresses(s.virtual, s.size)
        /\ \A i \in 1..s.size : region[s.virtual + 4 * (i - 1)] = loaded[i]
    <3>1. Len(loaded) \in Nat /\ DOMAIN loaded = 1..Len(loaded)
      BY <1>1, <1>2
    <3>2. /\ DOMAIN region = Addresses(s.virtual, Len(loaded))
          /\ \A i \in 1..Len(loaded) : region[s.virtual + 4 * (i - 1)] = loaded[i]
      BY <1>1, <3>1, RegionIs
    <3> QED BY <1>2, <3>2
  <2> HIDE DEF region
  <2>3. \A a \in DOMAIN region :
           a \in DOMAIN MappedWords(<<region>>) /\ MappedWords(<<region>>)[a] = region[a]
    BY OnlyRegion
  <2>4. DOMAIN MappedWords(<<region>>) \subseteq DOMAIN region
    BY MappedDomain
  <2>5. Areas(s) = DOMAIN region
    BY <1>6, <2>2 DEF Areas
  <2>6. ASSUME NEW i \in 1..n
        PROVE  /\ s.virtual + 4 * (i - 1) \in Areas(s)
               /\ words[s.virtual + 4 * (i - 1)] = s.progbits[i]
    <3>1. i - 1 \in 0..(s.size - 1) /\ i \in 1..s.size
      BY <1>1, <1>2
    <3>2. s.virtual + 4 * (i - 1) \in Areas(s)
      BY <2>2, <2>5, <3>1 DEF Addresses
    <3> QED BY <1>2, <2>1, <2>2, <2>3, <2>5, <3>1, <3>2
  <2>7. \A a \in DOMAIN region : fill \in Word => a \in Nat /\ words[a] \in Word
    <3>1. SUFFICES ASSUME fill \in Word, NEW i \in 0..(s.size - 1)
                   PROVE  /\ s.virtual + 4 * i \in Nat
                          /\ words[s.virtual + 4 * i] \in Word
      BY <2>2 DEF Addresses
    <3>2. s.virtual + 4 * i \in DOMAIN region /\ s.virtual + 4 * i \in Nat
      BY <1>1, <2>2 DEF Addresses
    <3>3. i + 1 \in 1..s.size /\ (i + 1) - 1 = i
      BY <1>1
    <3>4. region[s.virtual + 4 * i] = loaded[i + 1]
      BY <2>2, <3>3
    <3> QED BY <1>5, <2>1, <2>3, <3>1, <3>2, <3>3, <3>4
  <2> QED BY <1>6, <2>1, <2>3, <2>4, <2>5, <2>6, <2>7
<1>7. CASE ~Stays(s)
  <2> DEFINE held == Region(s.physical, s.progbits)
             region == Region(s.virtual, empty)
             regions == <<held, region>>
  <2>1. Regions(s, fill) = <<held, region>>
    BY <1>7 DEF Regions, Stays, empty
  <2>2. /\ DOMAIN held = Addresses(s.physical, n)
        /\ \A i \in 1..n : held[s.physical + 4 * (i - 1)] = s.progbits[i]
    <3> DEFINE start == s.physical
               bits  == s.progbits
    <3>1. start \in Nat /\ Len(bits) \in Nat /\ DOMAIN bits = 1..Len(bits)
      BY <1>1
    <3> HIDE DEF start, bits
    <3>2. /\ DOMAIN Region(start, bits) = Addresses(start, Len(bits))
          /\ \A i \in 1..Len(bits) : Region(start, bits)[start + 4 * (i - 1)] = bits[i]
      BY <3>1, RegionIs
    <3> QED BY <3>2 DEF start, bits
  <2>3. /\ DOMAIN region = Addresses(s.virtual, s.size)
        /\ \A i \in 1..s.size : region[s.virtual + 4 * (i - 1)] = empty[i]
    <3>1. Len(empty) \in Nat /\ DOMAIN empty = 1..Len(empty)
      BY <1>1, <1>3
    <3>2. /\ DOMAIN region = Addresses(s.virtual, Len(empty))
          /\ \A i \in 1..Len(empty) : region[s.virtual + 4 * (i - 1)] = empty[i]
      BY <1>1, <3>1, RegionIs
    <3> QED BY <1>3, <3>2
  <2>4. DOMAIN held \cap DOMAIN region = {}
    BY <1>7, <2>2, <2>3
  <2> HIDE DEF held, region
  <2>5. /\ Len(regions) = 2 /\ DOMAIN regions = 1..2 /\ 1..2 = {1, 2}
        /\ regions[1] = held /\ regions[2] = region
    OBVIOUS
  <2> HIDE DEF regions
  <2>6. \A a \in DOMAIN held :
           a \in DOMAIN MappedWords(regions) /\ MappedWords(regions)[a] = held[a]
    <3>1. Len(regions) \in Nat /\ 1 \in DOMAIN regions /\ \A j \in DOMAIN regions : j = 1 \/ j = 2
      BY <2>5
    <3> QED BY <2>4, <2>5, <3>1, OnlyRegion
  <2>7. \A a \in DOMAIN region :
           a \in DOMAIN MappedWords(regions) /\ MappedWords(regions)[a] = region[a]
    <3>1. Len(regions) \in Nat /\ 2 \in DOMAIN regions /\ \A j \in DOMAIN regions : j = 1 \/ j = 2
      BY <2>5
    <3> QED BY <2>4, <2>5, <3>1, OnlyRegion
  <2>8. DOMAIN MappedWords(regions) \subseteq DOMAIN held \cup DOMAIN region
    BY <2>5, MappedDomain
  <2>9. Areas(s) = DOMAIN region \cup DOMAIN held
    BY <1>7, <2>2, <2>3 DEF Areas
  <2>10. words = MappedWords(regions)
    BY <2>1 DEF regions
  <2>11. ASSUME NEW i \in 1..n
         PROVE  /\ s.physical + 4 * (i - 1) \in Areas(s)
                /\ words[s.physical + 4 * (i - 1)] = s.progbits[i]
    <3>1. i - 1 \in 0..(n - 1)
      BY <1>1
    <3>2. s.physical + 4 * (i - 1) \in DOMAIN held
      BY <2>2, <3>1 DEF Addresses
    <3> QED BY <2>2, <2>6, <2>9, <2>10, <3>2
  <2>12. \A a \in Areas(s) : fill \in Word => a \in Nat /\ words[a] \in Word
    <3>1. ASSUME fill \in Word, NEW i \in 0..(n - 1)
          PROVE  s.physical + 4 * i \in Nat /\ words[s.physical + 4 * i] \in Word
      <4>1. i + 1 \in 1..n /\ (i + 1) - 1 = i
        BY <1>1
      <4>2. words[s.physical + 4 * i] = s.progbits[i + 1]
        BY <2>11, <4>1
      <4>3. s.physical + 4 * i \in Nat
        BY <1>1
      <4> QED BY <1>4, <4>1, <4>2, <4>3
    <3>2. ASSUME fill \in Word, NEW i \in 0..(s.size - 1)
          PROVE  s.virtual + 4 * i \in Nat /\ words[s.virtual + 4 * i] \in Word
      <4>1. i + 1 \in 1..s.size /\ (i + 1) - 1 = i
        BY <1>1
      <4>2. s.virtual + 4 * i \in DOMAIN region /\ s.virtual + 4 * i \in Nat
        BY <1>1, <2>3 DEF Addresses
      <4>3. words[s.virtual + 4 * i] = region[s.virtual + 4 * i]
        BY <2>7, <2>10, <4>2
      <4>4. region[s.virtual + 4 * i] = empty[i + 1]
        BY <2>3, <4>1
      <4> QED BY <1>5, <3>2, <4>1, <4>2, <4>3, <4>4
    <3> QED BY <2>2, <2>3, <2>9, <3>1, <3>2 DEF Addresses
  <2> QED BY <1>7, <2>6, <2>7, <2>8, <2>9, <2>10, <2>11, <2>12
<1> QED BY <1>6, <1>7

LEMMA LinkedSegments ==
  ASSUME NEW img, WellLinked(img)
  PROVE  /\ Len(img.segments) \in Nat /\ DOMAIN img.segments = 1..Len(img.segments)
         /\ \A i \in DOMAIN img.segments :
              LET s == img.segments[i]
              IN /\ s \in Segments /\ Len(s.progbits) <= s.size
                 /\ ~Stays(s) =>
                      Addresses(s.physical, Len(s.progbits)) \cap Addresses(s.virtual, s.size) = {}
<1>1. img.segments \in Seq(Segments)
  BY DEF WellLinked, Segments
<1>2. /\ Len(img.segments) \in Nat /\ DOMAIN img.segments = 1..Len(img.segments)
      /\ \A i \in DOMAIN img.segments : img.segments[i] \in Segments
  BY <1>1
<1>3. \A i \in DOMAIN img.segments :
        LET s == img.segments[i]
        IN /\ Len(s.progbits) <= s.size
           /\ ~Stays(s) =>
                Addresses(s.physical, Len(s.progbits)) \cap Addresses(s.virtual, s.size) = {}
  BY DEF WellLinked
<1> QED BY <1>2, <1>3

\* What a segment of a well linked image maps is what is found there.
LEMMA LoadedIs ==
  ASSUME NEW img, WellLinked(img), NEW fill, NEW k \in DOMAIN img.segments,
         NEW a \in Areas(img.segments[k])
  PROVE  /\ a \in DOMAIN LoadElf(img, fill)
         /\ LoadElf(img, fill)[a] = MappedWords(Regions(img.segments[k], fill))[a]
<1> DEFINE segments == img.segments
           maps == [i \in DOMAIN segments |-> MappedWords(Regions(segments[i], fill))]
<1>1. /\ Len(segments) \in Nat /\ DOMAIN segments = 1..Len(segments)
  BY LinkedSegments
<1>2. \A i \in DOMAIN segments : DOMAIN maps[i] = Areas(segments[i])
  BY LinkedSegments, SegmentIs
<1>3. \A j \in DOMAIN segments : j # k => a \notin Areas(segments[j])
  BY DEF WellLinked
<1>4. DOMAIN maps = DOMAIN segments /\ Len(maps) = Len(segments)
  BY <1>1
<1>5. maps[k] = MappedWords(Regions(segments[k], fill)) /\ a \in DOMAIN maps[k]
  BY <1>2
<1>6. LoadElf(img, fill) = MappedWords(maps)
  BY DEF LoadElf
<1> HIDE DEF maps
<1>7. a \in DOMAIN MappedWords(maps) /\ MappedWords(maps)[a] = maps[k][a]
  <2>1. Len(maps) \in Nat /\ DOMAIN maps = 1..Len(maps) /\ k \in DOMAIN maps
    BY <1>1, <1>4
  <2>2. \A j \in DOMAIN maps : j # k => a \notin DOMAIN maps[j]
    BY <1>2, <1>3, <1>4
  <2>3. a \in DOMAIN maps[k]
    BY <1>5
  <2> HIDE DEF segments
  <2> QED BY <2>1, <2>2, <2>3, OnlyRegion
<1> QED BY <1>5, <1>6, <1>7

\* After _init_memory the image is in place.
LEMMA InitialisedIs ==
  ASSUME NEW img, WellLinked(img), NEW fill
  PROVE  LET words == InitMemory(LoadElf(img, fill), img)
         IN /\ \A a \in Addresses(img.bss_start, img.bss_size) : a \in DOMAIN words /\ words[a] = 0
            /\ \A i \in DOMAIN img.data : words[img.data_start + 4 * (i - 1)] = img.data[i]
            /\ \A i \in DOMAIN img.rom : words[4 * (i - 1)] = img.rom[i]
<1> DEFINE segments == img.segments
           loaded   == LoadElf(img, fill)
           words    == InitMemory(loaded, img)
           bss      == Addresses(img.bss_start, img.bss_size)
           data     == Addresses(img.data_start, img.data_size)
           initial  == Addresses(img.init_data_start, img.data_size)
           cleared  == [a \in DOMAIN loaded |-> IF a \in bss THEN 0 ELSE loaded[a]]
<1>1. words = [a \in DOMAIN loaded |->
                 IF a \in data THEN cleared[img.init_data_start + (a - img.data_start)]
                 ELSE cleared[a]]
  BY DEF InitMemory
<1>2. \A i \in DOMAIN segments :
         /\ segments[i] \in Segments /\ Len(segments[i].progbits) <= segments[i].size
         /\ ~Stays(segments[i]) => Addresses(segments[i].physical, Len(segments[i].progbits))
                                    \cap Addresses(segments[i].virtual, segments[i].size) = {}
  BY LinkedSegments
<1>3. \A i \in DOMAIN segments : \A a \in Areas(segments[i]) :
         a \in DOMAIN loaded /\ loaded[a] = MappedWords(Regions(segments[i], fill))[a]
  BY LoadedIs
<1>4. /\ bss \subseteq UNION {Areas(segments[i]) : i \in DOMAIN segments}
      /\ bss \cap (Addresses(0, Len(img.rom)) \cup data \cup initial) = {}
  BY DEF WellLinked
<1> HIDE DEF loaded, words, bss, data, initial
<1>5. ASSUME NEW a \in bss PROVE a \in DOMAIN words /\ words[a] = 0
  BY <1>1, <1>3, <1>4
<1>6. ASSUME NEW i \in DOMAIN img.data
      PROVE  words[img.data_start + 4 * (i - 1)] = img.data[i]
  <2>1. PICK k \in DOMAIN segments :
          /\ ~Stays(segments[k]) /\ segments[k].progbits = img.data
          /\ segments[k].virtual = img.data_start
          /\ segments[k].physical = img.init_data_start
    BY DEF WellLinked
  <2> DEFINE s == segments[k]
             to == img.data_start + 4 * (i - 1)
             from == img.init_data_start + 4 * (i - 1)
  <2>2. /\ s.virtual \in Nat /\ s.physical \in Nat /\ s.size \in Nat
        /\ i \in 1..Len(img.data) /\ Len(img.data) \in Nat /\ Len(img.data) <= s.size
    BY <1>2, <2>1 DEF Segments
  <2>3. i - 1 \in 0..(Len(img.data) - 1) /\ i - 1 \in 0..(s.size - 1)
    BY <2>2
  <2>4. img.data_size = Len(img.data)
    BY DEF WellLinked
  <2>5. to \in data /\ from \in initial
    BY <2>3, <2>4 DEF data, initial, Addresses
  <2>6. to \in Areas(s)
    BY <2>1, <2>3 DEF Areas, Addresses
  <2>7. from \in Areas(s) /\ MappedWords(Regions(s, fill))[from] = img.data[i]
    <3>1. \A j \in 1..Len(s.progbits) :
             /\ s.physical + 4 * (j - 1) \in Areas(s)
             /\ MappedWords(Regions(s, fill))[s.physical + 4 * (j - 1)] = s.progbits[j]
      <4>1. /\ s \in Segments /\ Len(s.progbits) <= s.size /\ ~Stays(s)
            /\ ~Stays(s) =>
                 Addresses(s.physical, Len(s.progbits)) \cap Addresses(s.virtual, s.size) = {}
        BY <1>2, <2>1
      <4> HIDE DEF s
      <4> QED BY <4>1, SegmentIs
    <3> QED BY <2>1, <2>2, <3>1
  <2>8. from \in DOMAIN loaded /\ loaded[from] = img.data[i] /\ to \in DOMAIN loaded
    BY <1>3, <2>6, <2>7
  <2>9. cleared[from] = img.data[i]
    BY <1>4, <2>5, <2>8
  <2>10. img.init_data_start + (to - img.data_start) = from
    BY <2>1, <2>2
  <2> QED BY <1>1, <2>5, <2>8, <2>9, <2>10
<1>7. ASSUME NEW i \in DOMAIN img.rom PROVE words[4 * (i - 1)] = img.rom[i]
  <2>1. PICK k \in DOMAIN segments :
          segments[k].virtual = 0 /\ Stays(segments[k]) /\ segments[k].progbits = img.rom
    BY DEF WellLinked
  <2> DEFINE s == segments[k]
             a == 4 * (i - 1)
  <2>2. /\ s \in Segments /\ Len(img.rom) \in Nat
        /\ i \in 1..Len(img.rom) /\ i - 1 \in 0..(Len(img.rom) - 1)
    BY <1>2, <2>1 DEF Segments
  <2>3. a \in Areas(s) /\ MappedWords(Regions(s, fill))[a] = img.rom[i]
    <3>1. \A j \in 1..Len(s.progbits) :
             /\ s.virtual + 4 * (j - 1) \in Areas(s)
             /\ MappedWords(Regions(s, fill))[s.virtual + 4 * (j - 1)] = s.progbits[j]
      <4>1. /\ s \in Segments /\ Len(s.progbits) <= s.size /\ Stays(s)
            /\ ~Stays(s) =>
                 Addresses(s.physical, Len(s.progbits)) \cap Addresses(s.virtual, s.size) = {}
        BY <1>2, <2>1
      <4> HIDE DEF s
      <4> QED BY <4>1, SegmentIs
    <3>2. s.virtual + 4 * (i - 1) = a
      BY <2>1, <2>2
    <3> QED BY <2>1, <2>2, <3>1, <3>2
  <2>4. a \in DOMAIN loaded /\ loaded[a] = img.rom[i]
    BY <1>3, <2>3
  <2>5. a \notin bss
    BY <1>4, <2>2 DEF Addresses
  <2>6. a \notin data
    <3>1. SUFFICES ASSUME a \in data PROVE FALSE
      OBVIOUS
    <3>2. img.data_size = Len(img.data) /\ img.data # <<>>
      <4>1. img.data_size = Len(img.data)
        BY DEF WellLinked
      <4>2. img.data = <<>> => Len(img.data) = 0
        OBVIOUS
      <4> QED BY <3>1, <4>1, <4>2 DEF data, Addresses
    <3>3. PICK j \in DOMAIN segments :
            /\ ~Stays(segments[j]) /\ segments[j].progbits = img.data
            /\ segments[j].virtual = img.data_start
      BY <3>2 DEF WellLinked
    <3>4. Len(img.data) <= segments[j].size /\ Len(img.data) \in Nat /\ segments[j].size \in Nat
      BY <1>2, <3>3 DEF Segments
    <3>5. a \in Areas(segments[j])
      <4>1. a \in Addresses(segments[j].virtual, Len(img.data))
        BY <3>1, <3>2, <3>3 DEF data
      <4>2. Addresses(segments[j].virtual, Len(img.data))
              \subseteq Addresses(segments[j].virtual, segments[j].size)
        BY <3>4 DEF Addresses
      <4> QED BY <4>1, <4>2 DEF Areas
    <3>6. j # k
      BY <2>1, <3>3
    <3> QED BY <2>3, <3>5, <3>6 DEF WellLinked
  <2> QED BY <1>1, <2>4, <2>5, <2>6
<1> QED BY <1>5, <1>6, <1>7 DEF words, loaded, bss

LEMMA AlignedAddresses ==
  ASSUME NEW start \in Nat, start % 4 = 0, NEW size \in Nat, NEW a \in Addresses(start, size)
  PROVE  a % 4 = 0
<1>1. PICK i \in 0..(size - 1) : a = start + 4 * i
  BY DEF Addresses
<1> QED BY <1>1

\* Memory before and after _init_memory has words at aligned addresses.
LEMMA LoadedWordsTyped ==
  ASSUME NEW img, WellLinked(img), NEW fill \in Word
  PROVE  \A a \in DOMAIN LoadElf(img, fill) :
           /\ a \in Nat /\ a % 4 = 0 /\ LoadElf(img, fill)[a] \in Word
           /\ \E k \in DOMAIN img.segments : a \in Areas(img.segments[k])
<1> DEFINE segments == img.segments
           maps == [i \in DOMAIN segments |-> MappedWords(Regions(segments[i], fill))]
<1>1. \A i \in DOMAIN segments :
        /\ segments[i] \in Segments /\ Len(segments[i].progbits) <= segments[i].size
        /\ ~Stays(segments[i]) => Addresses(segments[i].physical, Len(segments[i].progbits))
                                    \cap Addresses(segments[i].virtual, segments[i].size) = {}
  BY LinkedSegments
<1> SUFFICES ASSUME NEW a \in DOMAIN LoadElf(img, fill)
             PROVE  /\ a \in Nat /\ a % 4 = 0 /\ LoadElf(img, fill)[a] \in Word
                    /\ \E k \in DOMAIN segments : a \in Areas(segments[k])
  OBVIOUS
<1>2. PICK k \in DOMAIN segments : a \in DOMAIN MappedWords(Regions(segments[k], fill))
  <2>1. a \in DOMAIN MappedWords(maps) /\ DOMAIN maps = DOMAIN segments
    BY DEF LoadElf
  <2>2. PICK k \in DOMAIN maps : a \in DOMAIN maps[k]
    BY <2>1, MappedDomain
  <2> QED BY <2>1, <2>2
<1> DEFINE s == segments[k]
           words == MappedWords(Regions(s, fill))
<1>3. /\ s \in Segments /\ Len(s.progbits) <= s.size
      /\ ~Stays(s) => Addresses(s.physical, Len(s.progbits)) \cap Addresses(s.virtual, s.size) = {}
  BY <1>1
<1> HIDE DEF s
<1>4. DOMAIN words = Areas(s) /\ \A b \in Areas(s) : b \in Nat /\ words[b] \in Word
  BY <1>3, SegmentIs
<1>5. a \in Areas(s)
  BY <1>2, <1>4 DEF s
<1>6. LoadElf(img, fill)[a] = words[a]
  <2>1. a \in Areas(segments[k])
    BY <1>5 DEF s
  <2>2. LoadElf(img, fill)[a] = MappedWords(Regions(segments[k], fill))[a]
    BY <2>1, LoadedIs
  <2> QED BY <2>2 DEF s
<1>7. a % 4 = 0
  <2>1. s.virtual % 4 = 0 /\ s.physical % 4 = 0
    BY DEF WellLinked, s
  <2>2. s.virtual \in Nat /\ s.physical \in Nat /\ s.size \in Nat /\ Len(s.progbits) \in Nat
    BY <1>3 DEF Segments
  <2>3. \/ a \in Addresses(s.virtual, s.size)
        \/ a \in Addresses(s.physical, Len(s.progbits))
    BY <1>5 DEF Areas
  <2> QED BY <2>1, <2>2, <2>3, AlignedAddresses
<1> QED BY <1>4, <1>5, <1>6, <1>7 DEF s

LEMMA InitialisedWordsTyped ==
  ASSUME NEW img, WellLinked(img), NEW fill \in Word
  PROVE  LET loaded == LoadElf(img, fill)
             words  == InitMemory(loaded, img)
         IN DOMAIN words = DOMAIN loaded /\ \A a \in DOMAIN words : words[a] \in Word
<1> DEFINE segments == img.segments
           loaded   == LoadElf(img, fill)
           words    == InitMemory(loaded, img)
           bss      == Addresses(img.bss_start, img.bss_size)
           data     == Addresses(img.data_start, img.data_size)
           cleared  == [a \in DOMAIN loaded |-> IF a \in bss THEN 0 ELSE loaded[a]]
<1>1. words = [a \in DOMAIN loaded |->
                 IF a \in data THEN cleared[img.init_data_start + (a - img.data_start)]
                 ELSE cleared[a]]
  BY DEF InitMemory
<1>2. \A a \in DOMAIN loaded : loaded[a] \in Word
  BY LoadedWordsTyped
<1> HIDE DEF loaded, words, bss, data
<1>3. \A a \in DOMAIN loaded : cleared[a] \in Word
  <2>1. 0 \in Word
    BY BytePowers DEF Word
  <2> QED BY <1>2, <2>1
<1>4. ASSUME NEW a \in data PROVE img.init_data_start + (a - img.data_start) \in DOMAIN loaded
  <2>1. img.data_size = Len(img.data)
    BY DEF WellLinked
  <2>2. PICK i \in 0..(img.data_size - 1) : a = img.data_start + 4 * i
    BY DEF data, Addresses
  <2>3. img.data # <<>>
    <3>1. img.data = <<>> => Len(img.data) = 0
      OBVIOUS
    <3> QED BY <2>1, <2>2, <3>1
  <2>4. PICK k \in DOMAIN segments :
           /\ ~Stays(segments[k]) /\ segments[k].progbits = img.data
           /\ segments[k].virtual = img.data_start
           /\ segments[k].physical = img.init_data_start
    BY <2>3 DEF WellLinked
  <2>5. segments[k].virtual \in Nat /\ segments[k].physical \in Nat
    BY LinkedSegments DEF Segments
  <2>6. img.init_data_start + (a - img.data_start) = img.init_data_start + 4 * i
    BY <2>2, <2>4, <2>5
  <2>7. img.init_data_start + 4 * i \in Areas(segments[k])
    BY <2>1, <2>2, <2>4 DEF Areas, Addresses
  <2> QED BY <2>6, <2>7, LoadedIs DEF loaded
<1>5. DOMAIN words = DOMAIN loaded /\ \A a \in DOMAIN words : words[a] \in Word
  BY <1>1, <1>3, <1>4
<1> QED BY <1>5 DEF words, loaded

-----------------------------------------------------------------------------
(* From the image to main *)

HasMemory(m) ==
  /\ "mem" \in DOMAIN m
  /\ DOMAIN m.mem = {"words", "registers", "keys_hash"}
  /\ m.mem.registers = MappedRegisters
  /\ m.mem.keys_hash = KeysHash(DOMAIN MappedRegisters)

\* The stages before a program starts, and what is in memory in each.
ImageInv ==
  /\ image \in Images
  /\ stage = "off" => machine = Blank
  /\ stage \in {"loaded", "reset"} =>
       HasMemory(machine) /\ machine.mem.words = LoadElf(image, image.fill)
  /\ stage = "main" =>
       HasMemory(machine) /\ machine.mem.words = InitMemory(LoadElf(image, image.fill), image)

LEMMA ImageInit == Init => ImageInv
BY DEF Init, ImageInv

LEMMA WordsReplaced ==
  ASSUME NEW m, HasMemory(m), NEW words
  PROVE  /\ HasMemory([m EXCEPT !.mem.words = words])
         /\ [m EXCEPT !.mem.words = words].mem.words = words
BY DEF HasMemory

LEMMA BlankHasMemory == HasMemory(Blank)
BY DEF HasMemory, Blank, NewMemory

\* Reset keeps the memory.
LEMMA ResetKeepsMemory ==
  ASSUME NEW mem, NEW sp, NEW pc
  PROVE  LET m == [WithSp([Blank EXCEPT !.mem = mem], sp)
                     EXCEPT !.pc = pc, !.branched = TRUE, !.thumb = TRUE]
         IN "mem" \in DOMAIN m /\ m.mem = mem
BY DEF WithSp, Blank

LEMMA ImageStep == ImageInv /\ [Next]_vars => ImageInv'
<1> SUFFICES ASSUME ImageInv, [Next]_vars PROVE ImageInv'
  OBVIOUS
<1>1. CASE LoadImage
  BY <1>1, BlankHasMemory, WordsReplaced DEF LoadImage, ImageInv
<1>2. CASE Reset
  <2>1. machine'.mem = machine.mem /\ "mem" \in DOMAIN machine'
    BY <1>2, ResetKeepsMemory DEF Reset
  <2> QED BY <1>2, <2>1 DEF Reset, ImageInv, HasMemory
<1>3. CASE Startup
  <2> DEFINE words == InitMemory(machine.mem.words, image)
             started == [machine EXCEPT !.mem.words = words]
  <2>1. machine' = [started EXCEPT !.pc = CodeStart]
    BY <1>3 DEF Startup
  <2>2. HasMemory(started) /\ started.mem.words = words
    BY <1>3, WordsReplaced DEF Startup, ImageInv
  <2> HIDE DEF started
  <2>3. HasMemory(machine') /\ machine'.mem.words = words
    BY <2>1, <2>2 DEF HasMemory
  <2> QED BY <1>3, <2>3 DEF Startup, ImageInv
<1>4. ASSUME NEW s, NEW pair, TryInstruction(s, pair) PROVE ImageInv'
  BY <1>4 DEF TryInstruction, ImageInv
<1>5. ASSUME NEW s, NEW p, StartProgram(s, p) PROVE ImageInv'
  BY <1>5 DEF StartProgram, ImageInv
<1>6. ASSUME NEW e, Raise(e) PROVE ImageInv'
  BY <1>6 DEF Raise, ImageInv
<1>7. CASE RunStep
  BY <1>7 DEF RunStep, ImageInv
<1>8. CASE UNCHANGED vars
  BY <1>8 DEF vars, ImageInv
<1> QED
  BY <1>1, <1>2, <1>3, <1>4, <1>5, <1>6, <1>7, <1>8 DEF Next

\* main finds .bss cleared, .data initialised and the code intact, for every
\* image that is linked as link.ld does it and whatever memory was filled with.
THEOREM ImageReachesMain == Spec => []ImageIsInPlace
<1>1. ImageInv => ImageIsInPlace
  <2> SUFFICES ASSUME ImageInv, stage = "main" PROVE ImageIsInPlace
    BY DEF ImageIsInPlace
  <2>1. WellLinked(image) /\ machine.mem.words = InitMemory(LoadElf(image, image.fill), image)
    BY ImagesAssumption DEF ImageInv
  <2> QED BY <2>1, InitialisedIs DEF ImageIsInPlace
<1> QED BY <1>1, ImageInit, ImageStep, PTL DEF Spec

\* From its load on, memory is words at aligned addresses, none of them that of
\* a register.
LEMMA ImageMemory == ImageInv => (stage \in {"loaded", "reset", "main"} => MemoryOK(machine.mem))
<1> SUFFICES ASSUME ImageInv, stage \in {"loaded", "reset", "main"} PROVE MemoryOK(machine.mem)
  OBVIOUS
<1> DEFINE loaded == LoadElf(image, image.fill)
           words  == machine.mem.words
<1>1. /\ WellLinked(image) /\ image.fill \in Word
      /\ \A s \in ToSet(image.segments) : Areas(s) \cap DOMAIN MappedRegisters = {}
  BY ImagesAssumption DEF ImageInv
<1>2. (words = loaded \/ words = InitMemory(loaded, image)) /\ HasMemory(machine)
  BY DEF ImageInv
<1>3. \A a \in DOMAIN loaded :
        /\ a \in Nat /\ a % 4 = 0 /\ loaded[a] \in Word
        /\ \E k \in DOMAIN image.segments : a \in Areas(image.segments[k])
  BY <1>1, LoadedWordsTyped
<1>4. DOMAIN words = DOMAIN loaded /\ \A a \in DOMAIN words : words[a] \in Word
  <2>1. words = InitMemory(loaded, image) =>
          DOMAIN words = DOMAIN loaded /\ \A a \in DOMAIN words : words[a] \in Word
    BY <1>1, InitialisedWordsTyped
  <2> HIDE DEF loaded, words
  <2> QED BY <1>2, <1>3, <2>1
<1> HIDE DEF loaded
<1>5. DOMAIN words \cap DOMAIN MappedRegisters = {}
  BY <1>1, <1>3, <1>4 DEF ToSet
<1> QED BY <1>2, <1>3, <1>4, <1>5, RegistersAssumption DEF MemoryOK, HasMemory

\* The memory that main finds is one that the theorems about loads and stores
\* are about: words at aligned addresses, none of them that of a register.
THEOREM MainHasMemory == Spec => [](stage = "main" => MemoryOK(machine.mem))
<1>1. ImageInv => (stage = "main" => MemoryOK(machine.mem))
  BY ImageMemory
<1> QED BY <1>1, ImageInit, ImageStep, PTL DEF Spec

-----------------------------------------------------------------------------
(* Exception entry and return *)

\* The powers that frames are made of.
LEMMA SmallPowers ==
  /\ 2^0 = 1 /\ 2^1 = 2 /\ 2^2 = 4 /\ 2^3 = 8 /\ 2^4 = 16 /\ 2^6 = 64 /\ 2^8 = 256
  /\ 2^9 = 512 /\ 2^12 = 4096 /\ WordBits \in Nat /\ WordBits >= 16
<1>1. WordBits \in Nat /\ WordBits >= 16
  BY ByteAssumption, FrameAssumption DEF WordBits
<1>2. \A m, n \in 0..16 : m + n <= 16 => 2^m \in Nat \ {0} /\ 2^(m + n) = 2^m * 2^n
  BY <1>1, PowersAssumption
<1>3. 2^0 = 1
  <2>1. 2^0 \in Nat \ {0} /\ 2^(0 + 1) = 2^0 * 2^1
    BY <1>2
  <2>2. 0 + 1 = 1
    OBVIOUS
  <2> QED BY <2>1, <2>2, PowersAssumption
<1>4. 2^1 = 2
  BY PowersAssumption
<1>5. 2^2 = 4
  <2>1. 2^(1 + 1) = 2^1 * 2^1
    BY <1>2
  <2>2. 1 + 1 = 2
    OBVIOUS
  <2> QED BY <2>1, <2>2, <1>4
<1>6. 2^3 = 8
  <2>1. 2^(1 + 2) = 2^1 * 2^2
    BY <1>2
  <2>2. 1 + 2 = 3
    OBVIOUS
  <2> QED BY <2>1, <2>2, <1>4, <1>5
<1>7. 2^4 = 16
  <2>1. 2^(2 + 2) = 2^2 * 2^2
    BY <1>2
  <2>2. 2 + 2 = 4
    OBVIOUS
  <2> QED BY <2>1, <2>2, <1>5
<1>8. 2^6 = 64
  <2>1. 2^(2 + 4) = 2^2 * 2^4
    BY <1>2
  <2>2. 2 + 4 = 6
    OBVIOUS
  <2> QED BY <2>1, <2>2, <1>5, <1>7
<1>9. 2^8 = 256
  <2>1. 2^(4 + 4) = 2^4 * 2^4
    BY <1>2
  <2>2. 4 + 4 = 8
    OBVIOUS
  <2> QED BY <2>1, <2>2, <1>7
<1>10. 2^9 = 512
  <2>1. 2^(1 + 8) = 2^1 * 2^8
    BY <1>2
  <2>2. 1 + 8 = 9
    OBVIOUS
  <2> QED BY <2>1, <2>2, <1>4, <1>9
<1>11. 2^12 = 4096
  <2>1. 2^(4 + 8) = 2^4 * 2^8
    BY <1>2
  <2>2. 4 + 8 = 12
    OBVIOUS
  <2> QED BY <2>1, <2>2, <1>7, <1>9
<1> QED BY <1>1, <1>3, <1>4, <1>5, <1>6, <1>7, <1>8, <1>9, <1>10, <1>11

\* What the upper half of a word starts with: T, 8 bits from the top, and the
\* flags above it.
LEMMA UpperPowers ==
  /\ 2^ThumbBit \in Nat \ {0}
  /\ ThumbBit = 8 \/ \E s \in Nat \ {0} : 2^ThumbBit = 4096 * s
  /\ ThumbBit = 8 \/ ThumbBit >= 12
  /\ 2^(WordBits - 4) = 16 * 2^ThumbBit
  /\ Modulus = 256 * 2^ThumbBit
<1>1. /\ ThumbBit \in Nat /\ ThumbBit + 8 = WordBits /\ (ThumbBit = 8 \/ ThumbBit >= 12)
  BY ByteAssumption, FrameAssumption DEF WordBits, ThumbBit
<1>2. \A m, n \in 0..WordBits : m + n <= WordBits => 2^m \in Nat \ {0} /\ 2^(m + n) = 2^m * 2^n
  BY PowersAssumption
<1>3. 2^ThumbBit \in Nat \ {0} /\ 2^(ThumbBit + 8) = 2^ThumbBit * 2^8
  <2>1. ThumbBit \in 0..WordBits /\ 8 \in 0..WordBits /\ ThumbBit + 8 <= WordBits
    BY <1>1
  <2> QED BY <1>2, <2>1
<1>4. 2^(ThumbBit + 4) = 2^ThumbBit * 2^4
  <2>1. ThumbBit \in 0..WordBits /\ 4 \in 0..WordBits /\ ThumbBit + 4 <= WordBits
    BY <1>1
  <2> QED BY <1>2, <2>1
<1>5. ThumbBit + 4 = WordBits - 4
  BY <1>1
<1>6. ASSUME ThumbBit >= 12 PROVE \E s \in Nat \ {0} : 2^ThumbBit = 4096 * s
  <2> DEFINE k == ThumbBit - 12
  <2>1. k \in 0..WordBits /\ 12 \in 0..WordBits /\ 12 + k <= WordBits
    BY <1>1, <1>6
  <2>2. 12 + k = ThumbBit
    BY <1>1, <1>6
  <2> HIDE DEF k
  <2> DEFINE e(n) == 2^n
  <2>3. \A m, n \in 0..WordBits : m + n <= WordBits => e(n) \in Nat \ {0} /\ e(m + n) = e(m) * e(n)
    BY <1>2
  <2> HIDE DEF e
  <2>4. e(k) \in Nat \ {0} /\ e(12 + k) = e(12) * e(k)
    BY <2>1, <2>3
  <2> QED BY <2>2, <2>4, SmallPowers DEF e
<1> QED BY <1>1, <1>3, <1>4, <1>5, <1>6, SmallPowers DEF Modulus

\* The flags, T, the exception number and the alignment bit of an XPSR, as
\* numbers, where t is 2^ThumbBit.
XpsrNumber(f, T, exception, align, t) == f * (16 * t) + T * t + exception + align * 512

HasDigits(x, f, T, exception, align, t) ==
  /\ x \in Nat /\ x < 256 * t
  /\ x \div (16 * t) = f /\ (x \div t) % 2 = T
  /\ (x \div 512) % 2 = align /\ x % 64 = exception

ThumbPower(t) == t \in Nat \ {0} /\ (t = 256 \/ \E s \in Nat \ {0} : t = 4096 * s)

\* The numbers of a frame's XPSR, where t is 2^ThumbBit.
\* These numbers are found again in an XPSR.
LEMMA XpsrDigits ==
  ASSUME NEW F \in 0..15, NEW T \in 0..1, NEW exception \in 0..63, NEW align \in 0..1,
         NEW t, ThumbPower(t)
  PROVE  HasDigits(XpsrNumber(F, T, exception, align, t), F, T, exception, align, t)
<1> DEFINE x == XpsrNumber(F, T, exception, align, t)
<1>0. /\ t \in Nat \ {0} /\ (t = 256 \/ \E s \in Nat \ {0} : t = 4096 * s)
      /\ x = F * (16 * t) + T * t + exception + align * 512
  BY DEF XpsrNumber, ThumbPower
<1> HIDE DEF x
<1>1. CASE t = 256
  <2>1. x = 4096 * F + 256 * T + exception + 512 * align
    BY <1>0, <1>1
  <2>2. x \in Nat /\ x < 256 * 256 /\ x \div (16 * 256) = F
    BY <2>1
  <2>3. (x \div 256) % 2 = T
    <3> DEFINE q == 16 * F + T + 2 * align
    <3>1. x = 256 * q + exception /\ q \in Nat /\ q % 2 = T
      BY <2>1
    <3> HIDE DEF q
    <3>2. (256 * q + exception) \div 256 = q
      BY <3>1
    <3> QED BY <3>1, <3>2
  <2>4. (x \div 512) % 2 = align
    <3> DEFINE q == 8 * F + align
    <3>1. x = 512 * q + (256 * T + exception) /\ q \in Nat /\ q % 2 = align
      BY <2>1
    <3> HIDE DEF q
    <3>2. (512 * q + (256 * T + exception)) \div 512 = q
      BY <3>1
    <3> QED BY <3>1, <3>2
  <2>5. x % 64 = exception
    <3> DEFINE q == 64 * F + 4 * T + 8 * align
    <3>1. x = 64 * q + exception /\ q \in Nat
      BY <2>1
    <3> HIDE DEF q
    <3>2. (64 * q + exception) % 64 = exception
      BY <3>1
    <3> QED BY <3>1, <3>2
  <2>6. HasDigits(x, F, T, exception, align, 256)
    <3>1. 16 * 256 = 4096 /\ 256 * 256 = 65536
      OBVIOUS
    <3> QED BY ONLY <2>2, <2>3, <2>4, <2>5, <3>1 DEF HasDigits
  <2> QED BY <1>1, <2>6 DEF x
<1>2. ASSUME NEW s \in Nat \ {0}, t = 4096 * s
      PROVE  HasDigits(x, F, T, exception, align, t)
  <2> DEFINE y == 16 * F + T
             low == exception + 512 * align
  <2>1. y \in 0..255 /\ y % 2 = T /\ y \div 16 = F /\ low \in 0..(t - 1)
    BY <1>2
  <2>2. F * (16 * t) + T * t = t * y
    <3>1. F * (16 * t) = t * (16 * F) /\ T * t = t * T /\ t * (16 * F + T) = t * (16 * F) + t * T
      BY <1>0
    <3> QED BY <3>1
  <2>3. x = t * y + low
    <3>1. t * y \in Nat
      BY <1>0, <2>1
    <3> QED BY <1>0, <2>2, <3>1
  <2> HIDE DEF y
  <2>4. x \in Nat /\ x < 256 * t
    <3>1. t * y \in Nat /\ t * y <= t * 255
      BY <1>0, <2>1
    <3> QED BY <1>0, <2>1, <2>3, <3>1
  <2>5. x \div t = y
    <3>1. y \in Nat /\ t \in Nat \ {0} /\ low \in 0..(t - 1)
      BY <1>0, <2>1
    <3> HIDE DEF low
    <3>2. (t * y + low) \div t = y
      BY ONLY <3>1, Unique
    <3> QED BY <2>3, <3>2
  <2>6. x \div (16 * t) = F
    <3>1. (x \div t) \div 16 = x \div (t * 16)
      BY <1>0, <2>4, DivDiv
    <3>2. t * 16 = 16 * t
      BY <1>0
    <3> QED BY <2>1, <2>5, <3>1, <3>2
  <2>7. (x \div 512) % 2 = align /\ x % 64 = exception
    <3> DEFINE K == s * y
               p == 8 * K + align
               q == 64 * K + 8 * align
    <3>1. (4096 * s) * y = 4096 * (s * y) /\ s * y \in Nat
      BY <2>1
    <3>2. t * y = 4096 * K /\ K \in Nat
      BY <1>2, <3>1
    <3> HIDE DEF K
    <3>3. x = 512 * p + exception /\ x = 64 * q + exception
      BY <2>3, <3>2
    <3>4. p \in Nat /\ q \in Nat /\ p % 2 = align
      BY <3>2
    <3> HIDE DEF p, q
    <3>5. (512 * p + exception) \div 512 = p
      BY <3>4
    <3>6. (64 * q + exception) % 64 = exception
      BY <3>4
    <3> QED BY <3>3, <3>4, <3>5, <3>6
  <2> QED BY <2>1, <2>4, <2>5, <2>6, <2>7 DEF HasDigits
<1> QED BY <1>0, <1>1, <1>2 DEF x

XpsrWord(f, T, exception, align) ==
  f * 2^(WordBits - 4) + T * 2^ThumbBit + exception + align * 2^AlignBit

FieldsAreKept(x, f, T, exception, align) ==
  /\ x \in Word
  /\ x \div 2^(WordBits - 4) = f
  /\ Field(x, ThumbBit, 1) = T
  /\ Field(x, AlignBit, 1) = align
  /\ Field(x, 0, 6) = exception

\* A frame's XPSR gives back what it was made of.
LEMMA XpsrFields ==
  ASSUME NEW F \in 0..15, NEW T \in 0..1, NEW exception \in 0..63, NEW align \in 0..1
  PROVE  FieldsAreKept(XpsrWord(F, T, exception, align), F, T, exception, align)
<1> DEFINE t == 2^ThumbBit
           x == XpsrWord(F, T, exception, align)
<1>1. 2^(WordBits - 4) = 16 * t /\ Modulus = 256 * t /\ ThumbPower(t)
  <2>1. ThumbBit = 8 => t = 256
    BY SmallPowers
  <2> QED BY <2>1, UpperPowers DEF ThumbPower
<1>2. 2^AlignBit = 512 /\ 2^1 = 2 /\ 2^0 = 1 /\ 2^6 = 64
  BY SmallPowers DEF AlignBit
<1>3. x = XpsrNumber(F, T, exception, align, t)
  BY <1>1, <1>2 DEF XpsrNumber, XpsrWord
<1>4. HasDigits(x, F, T, exception, align, t)
  <2> HIDE DEF t, x
  <2> QED BY <1>1, <1>3, XpsrDigits
<1>5. /\ Field(x, ThumbBit, 1) = (x \div t) % 2
      /\ Field(x, AlignBit, 1) = (x \div 512) % 2
      /\ Field(x, 0, 6) = (x \div 1) % 64
      /\ x \div 2^(WordBits - 4) = x \div (16 * t)
  BY <1>1, <1>2 DEF Field
<1> HIDE DEF t, x
<1>6. x \in Word /\ x \div 1 = x
  BY <1>1, <1>4 DEF Word, HasDigits, ThumbPower
<1>7. FieldsAreKept(x, F, T, exception, align)
  BY <1>4, <1>5, <1>6 DEF HasDigits, FieldsAreKept
<1> QED BY <1>7 DEF x

\* The flags as the four bits at the top of XPSR.
FlagsNumber(f) ==
  LET bit(b) == IF b THEN 1 ELSE 0
  IN 8 * bit(f.n) + 4 * bit(f.z) + 2 * bit(f.c) + bit(f.v)

Flags == [n : BOOLEAN, z : BOOLEAN, c : BOOLEAN, v : BOOLEAN]

\* The number of the flags has them as its bits.
LEMMA FlagsBits ==
  ASSUME NEW f \in Flags
  PROVE  LET number == FlagsNumber(f)
         IN /\ number \in 0..15
            /\ f.n = ((number \div 8) % 2 = 1) /\ f.z = ((number \div 4) % 2 = 1)
            /\ f.c = ((number \div 2) % 2 = 1) /\ f.v = (number % 2 = 1)
            /\ FlagsWord(f) = number * 2^(WordBits - 4)
<1>1. /\ f.n \in BOOLEAN /\ f.z \in BOOLEAN /\ f.c \in BOOLEAN /\ f.v \in BOOLEAN
  BY DEF Flags
<1>2. \A n, z, c, v \in 0..1 :
        LET number == 8 * n + 4 * z + 2 * c + v
        IN /\ number \in 0..15
           /\ n = (number \div 8) % 2 /\ z = (number \div 4) % 2
           /\ c = (number \div 2) % 2 /\ v = number % 2
  OBVIOUS
<1> DEFINE bit(b) == IF b THEN 1 ELSE 0
<1>3. \A b \in BOOLEAN : bit(b) \in 0..1 /\ b = (bit(b) = 1)
  OBVIOUS
<1> HIDE DEF bit
<1>4. FlagsNumber(f) = 8 * bit(f.n) + 4 * bit(f.z) + 2 * bit(f.c) + bit(f.v)
  BY DEF FlagsNumber, bit
<1>5. FlagsWord(f) = FlagsNumber(f) * 2^(WordBits - 4)
  BY DEF FlagsWord, FlagsNumber
<1>6. /\ FlagsNumber(f) \in 0..15
      /\ bit(f.n) = (FlagsNumber(f) \div 8) % 2 /\ bit(f.z) = (FlagsNumber(f) \div 4) % 2
      /\ bit(f.c) = (FlagsNumber(f) \div 2) % 2 /\ bit(f.v) = FlagsNumber(f) % 2
  BY <1>1, <1>2, <1>3, <1>4
<1> QED BY <1>1, <1>3, <1>5, <1>6

\* XPSR gives back the flags that are its top four bits.
LEMMA FlagsBack ==
  ASSUME NEW f \in Flags, NEW x \in Word, x \div 2^(WordBits - 4) = FlagsNumber(f)
  PROVE  FlagsOf(x) = f
<1> DEFINE P == 2^(WordBits - 4)
           number == FlagsNumber(f)
<1>1. /\ P \in Nat \ {0} /\ 2^(WordBits - 1) = P * 8 /\ 2^(WordBits - 2) = P * 4
      /\ 2^(WordBits - 3) = P * 2
  <2> DEFINE k == WordBits - 4
             e(n) == 2^n
  <2>1. k \in Nat /\ k + 3 = WordBits - 1 /\ k + 2 = WordBits - 2 /\ k + 1 = WordBits - 3
    BY SmallPowers
  <2>2. \A m, n \in 0..WordBits : m + n <= WordBits => e(m) \in Nat \ {0} /\ e(m + n) = e(m) * e(n)
    BY PowersAssumption
  <2>3. /\ k \in 0..WordBits /\ \A n \in 1..3 : n \in 0..WordBits /\ k + n <= WordBits
    BY SmallPowers
  <2> HIDE DEF e, k
  <2>4. e(k) \in Nat \ {0} /\ e(k + 3) = e(k) * e(3) /\ e(k + 2) = e(k) * e(2) /\ e(k + 1) = e(k) * e(1)
    BY <2>2, <2>3
  <2> QED BY <2>1, <2>4, SmallPowers DEF e, k
<1>2. x \in Nat
  BY SmallPowers, UpperPowers DEF Word
<1> HIDE DEF P
<1>3. x \div (P * 8) = number \div 8 /\ x \div (P * 4) = number \div 4 /\ x \div (P * 2) = number \div 2
  BY <1>1, <1>2, DivDiv DEF P
<1>4. /\ Field(x, WordBits - 1, 1) = (number \div 8) % 2 /\ Field(x, WordBits - 2, 1) = (number \div 4) % 2
      /\ Field(x, WordBits - 3, 1) = (number \div 2) % 2 /\ Field(x, WordBits - 4, 1) = number % 2
  BY <1>1, <1>3, SmallPowers DEF Field, P
<1> HIDE DEF number
<1>5. FlagsOf(x) = [n |-> (number \div 8) % 2 = 1, z |-> (number \div 4) % 2 = 1,
                    c |-> (number \div 2) % 2 = 1, v |-> number % 2 = 1]
  BY <1>4 DEF FlagsOf, BitOf
<1>6. f = [n |-> f.n, z |-> f.z, c |-> f.c, v |-> f.v]
  BY DEF Flags
<1> QED BY <1>5, <1>6, FlagsBits DEF number

\* EXC_RETURN is recognised, whatever its last bits.
LEMMA ExcReturnIs ==
  ASSUME NEW ret_bits \in 0..15
  PROVE  Field(ExcReturn(ret_bits), WordBits - 4, 4) = 15 /\ ExcReturn(ret_bits) % 16 = ret_bits
<1> DEFINE P == 2^(WordBits - 4)
           x == ExcReturn(ret_bits)
<1>1. P \in Nat /\ P >= 16 /\ Modulus = 16 * P /\ 2^4 = 16
  BY SmallPowers, UpperPowers
<1> HIDE DEF P
<1>2. x = P * 15 + (P - 16 + ret_bits) /\ x = 16 * (P - 1) + ret_bits
  BY <1>1 DEF ExcReturn
<1> DEFINE low == P - 16 + ret_bits
           q == P - 1
<1>3. low \in 0..(P - 1) /\ q \in Nat
  BY <1>1
<1> HIDE DEF low, q
<1>4. (P * 15 + low) \div P = 15
  BY <1>1, <1>3, Unique
<1>5. (16 * q + ret_bits) % 16 = ret_bits
  BY <1>3
<1>6. x \div P = 15
  BY <1>2, <1>4 DEF low
<1>7. Field(x, WordBits - 4, 4) = 15
  BY <1>1, <1>6 DEF Field, P
<1> QED BY <1>2, <1>5, <1>7 DEF q

\* Where a frame is stacked, below s.
FrameBelow(s) ==
  LET below == Wrap(s - 32)
  IN below - 4 * Field(below, 2, 1)

\* A frame starts at a multiple of 8 and its words do not overlap, even when
\* addresses wrap; above it the stack pointer is found again.
LEMMA FrameFits ==
  ASSUME NEW s \in Word, s % 4 = 0
  PROVE  LET align == Field(s, 2, 1)
             frame == FrameBelow(s)
             above == Wrap(frame + 32)
         IN /\ align \in 0..1 /\ frame \in Word /\ Wrap(frame) = frame
            /\ (IF align = 1 THEN WithBit(above, 2) ELSE above) = s
            /\ \A k \in 0..7 : Wrap(frame + 4 * k) \in Nat /\ Wrap(frame + 4 * k) % 4 = 0
            /\ \A j, k \in 0..7 : j # k => Wrap(frame + 4 * j) # Wrap(frame + 4 * k)
<1> DEFINE M == Modulus
           align == (s \div 4) % 2
           below == Wrap(s - 32)
           frame == FrameBelow(s)
<1>1. PICK n \in Nat : M = 8 * n /\ n >= 32
  <2> DEFINE t == 2^ThumbBit
  <2>1. t \in Nat \ {0} /\ M = 256 * t
    BY UpperPowers
  <2> HIDE DEF t, M
  <2>2. 32 * t \in Nat /\ M = 8 * (32 * t) /\ 32 * t >= 32
    BY <2>1
  <2> QED BY <2>2
<1>2. \A v : Field(v, 2, 1) = (v \div 4) % 2
  BY SmallPowers DEF Field
<1>3. \A v \in (-32)..(2 * M - 1) :
        Wrap(v) = IF v < 0 THEN v + M ELSE IF v < M THEN v ELSE v - M
  BY <1>1 DEF Wrap
<1> HIDE DEF M
<1>4. s \in 0..(M - 1)
  BY DEF Word, M
<1>5. PICK c \in Nat : s = 8 * c + 4 * align /\ align \in 0..1
  <2>1. s = 8 * (s \div 8) + 4 * align /\ s \div 8 \in Nat /\ align \in 0..1
    BY <1>4
  <2> QED BY <2>1
<1> HIDE DEF align
<1>6. PICK b \in Nat : below = 8 * b + 4 * align
  <2>1. CASE s < 32
    <3>1. below = 8 * (c - 4 + n) + 4 * align /\ c - 4 + n \in Nat
      BY <1>1, <1>3, <1>4, <1>5, <2>1
    <3> QED BY <3>1
  <2>2. CASE s >= 32
    <3>1. below = 8 * (c - 4) + 4 * align /\ c - 4 \in Nat
      BY <1>1, <1>3, <1>4, <1>5, <2>2
    <3> QED BY <3>1
  <2> QED BY <1>4, <2>1, <2>2
<1>7. (below \div 4) % 2 = align
  <2> HIDE DEF below
  <2>1. below \div 4 = 2 * b + align
    BY <1>5, <1>6
  <2> QED BY <1>5, <2>1
<1>8. frame = 8 * b
  <2>1. frame = below - 4 * Field(below, 2, 1)
    BY DEF FrameBelow
  <2> HIDE DEF frame, below
  <2>2. Field(below, 2, 1) = align
    BY <1>2, <1>7
  <2> QED BY <1>5, <1>6, <2>1, <2>2
<1>9. below = IF s < 32 THEN s - 32 + M ELSE s - 32
  BY <1>1, <1>3, <1>4
<1> HIDE DEF below, frame
<1>10. frame \in 0..(M - 1) /\ Wrap(frame) = frame
  BY <1>1, <1>3, <1>4, <1>5, <1>6, <1>8, <1>9
<1>11. Wrap(frame + 32) = s - 4 * align
  BY <1>1, <1>3, <1>4, <1>5, <1>6, <1>8, <1>9, <1>10
<1>12. (IF align = 1 THEN WithBit(s - 4 * align, 2) ELSE s - 4 * align) = s
  <2>1. CASE align = 1
    <3>1. s - 4 * align = 8 * c /\ ((8 * c) \div 4) % 2 = 0
      BY <1>5
    <3>2. WithBit(8 * c, 2) = 8 * c + 4
      BY <1>2, <3>1, SmallPowers DEF WithBit, BitOf
    <3> QED BY <1>5, <2>1, <3>1, <3>2
  <2>2. CASE align = 0
    BY <1>4, <2>2
  <2> QED BY <1>5, <2>1, <2>2
<1>13. \A k \in 0..7 :
         /\ frame + 4 * k \in 0..(2 * M - 1)
         /\ Wrap(frame + 4 * k) = IF frame + 4 * k < M THEN frame + 4 * k ELSE frame + 4 * k - M
  BY <1>1, <1>3, <1>10
<1>14. \A k \in 0..7 : Wrap(frame + 4 * k) \in Nat /\ Wrap(frame + 4 * k) % 4 = 0
  <2> SUFFICES ASSUME NEW k \in 0..7
               PROVE  Wrap(frame + 4 * k) \in Nat /\ Wrap(frame + 4 * k) % 4 = 0
    OBVIOUS
  <2>1. CASE frame + 4 * k < M
    <3>1. Wrap(frame + 4 * k) = 4 * (2 * b + k)
      BY <1>8, <1>13, <2>1
    <3> QED BY <3>1
  <2>2. CASE ~(frame + 4 * k < M)
    <3>1. Wrap(frame + 4 * k) = 4 * (2 * b + k - 2 * n) /\ 2 * b + k - 2 * n \in Nat
      BY <1>1, <1>8, <1>13, <2>2
    <3> QED BY <3>1
  <2> QED BY <2>1, <2>2
<1>15. \A j, k \in 0..7 : j # k => Wrap(frame + 4 * j) # Wrap(frame + 4 * k)
  BY <1>1, <1>10, <1>13
<1>16. Field(s, 2, 1) = align
  BY <1>2 DEF align
<1> QED BY <1>5, <1>10, <1>11, <1>12, <1>14, <1>15, <1>16 DEF Word, M, frame

\* A word that memory has is read as it is.
LEMMA ReadIs ==
  ASSUME NEW mem, MemoryOK(mem), NEW a \in Nat, Reaches(mem, a, 4)
  PROVE  Read(mem, a, 4) = [ok |-> TRUE, value |-> WordsOf(mem)[a]]
<1>1. a % 4 = 0 /\ Aligned(a) = a
  BY DEF Reaches, Aligned
<1>2. CASE a \in DOMAIN mem.registers
  BY <1>2, RegistersAreFound, WordsIs DEF Read
<1>3. CASE a \notin DOMAIN mem.registers
  <2>1. a \in DOMAIN mem.words /\ mem.words[a] \in Word
    BY <1>1, <1>3 DEF Reaches, MemoryOK
  <2>2. Part(mem.words[a], 0, 4) = mem.words[a]
    BY <2>1, WholeWord
  <2> QED BY <1>1, <1>3, <2>1, <2>2, RegistersAreFound, WordsIs DEF Read, IsMapped
<1> QED BY <1>2, <1>3

\* A word that can be accessed is one that memory has.
LEMMA ReachIs ==
  ASSUME NEW mem, MemoryOK(mem), NEW a \in Nat
  PROVE  Reaches(mem, a, 4) <=> a % 4 = 0 /\ a \in DOMAIN WordsOf(mem)
<1>1. DOMAIN WordsOf(mem) = DOMAIN mem.words \cup DOMAIN mem.registers
  BY WordsIs
<1>2. a % 4 = 0 => Aligned(a) = a
  BY DEF Aligned
<1> QED BY <1>1, <1>2 DEF Reaches

\* What a store of a word leaves in memory.
LEMMA WriteWord ==
  ASSUME NEW mem, MemoryOK(mem), NEW a \in Nat, Reaches(mem, a, 4), NEW v \in Word
  PROVE  LET written == Write(mem, a, 4, v)
         IN /\ written.ok /\ MemoryOK(written.mem)
            /\ WordsOf(written.mem) = [WordsOf(mem) EXCEPT ![a] = v]
<1>1. Aligned(a) = a
  BY DEF Aligned, Reaches
<1> QED BY <1>1, WriteIs

\* The machine m with memory mem, which has, of the words that are stacked, the
\* first k at their addresses.
StackedTo(m, at, words, k, mem) ==
  /\ MemoryOK(mem)
  /\ DOMAIN WordsOf(mem) = DOMAIN WordsOf(m.mem)
  /\ \A i \in 1..k : WordsOf(mem)[at[i]] = words[i]

\* One more word is stacked, and those before it stay.
LEMMA StackOne ==
  ASSUME NEW m, "mem" \in DOMAIN m, MemoryOK(m.mem),
         NEW at, NEW words, NEW size \in Nat,
         \A i \in 1..size : /\ at[i] \in Nat /\ Reaches(m.mem, at[i], 4) /\ words[i] \in Word
                            /\ \A j \in 1..size : i # j => at[i] # at[j],
         NEW k \in 1..size, NEW mem, StackedTo(m, at, words, k - 1, mem)
  PROVE  \E new : /\ Stored([m EXCEPT !.mem = mem], at[k], 4, words[k]) = [m EXCEPT !.mem = new]
                  /\ StackedTo(m, at, words, k, new)
<1> DEFINE a == at[k]
           new == Write(mem, a, 4, words[k]).mem
<1>1. a \in Nat /\ Reaches(m.mem, a, 4) /\ words[k] \in Word
  OBVIOUS
<1>2. MemoryOK(mem) /\ DOMAIN WordsOf(mem) = DOMAIN WordsOf(m.mem)
  BY DEF StackedTo
<1>3. \A i \in 1..size : at[i] \in Nat /\ at[i] % 4 = 0 /\ at[i] \in DOMAIN WordsOf(mem)
  BY <1>2, ReachIs
<1>4. Reaches(mem, a, 4)
  BY <1>2, <1>3, ReachIs
<1>5. /\ Write(mem, a, 4, words[k]).ok /\ MemoryOK(new)
      /\ WordsOf(new) = [WordsOf(mem) EXCEPT ![a] = words[k]]
  <2> DEFINE v == words[k]
  <2> HIDE DEF a, v
  <2>1. /\ Write(mem, a, 4, v).ok /\ MemoryOK(Write(mem, a, 4, v).mem)
        /\ WordsOf(Write(mem, a, 4, v).mem) = [WordsOf(mem) EXCEPT ![a] = v]
    BY <1>1, <1>2, <1>4, WriteWord DEF v
  <2> QED BY <2>1 DEF v
<1>6. Stored([m EXCEPT !.mem = mem], a, 4, words[k]) = [m EXCEPT !.mem = new]
  BY <1>5 DEF Stored
<1>7. \A i \in 1..k : WordsOf(new)[at[i]] = words[i]
  <2> SUFFICES ASSUME NEW i \in 1..k PROVE WordsOf(new)[at[i]] = words[i]
    OBVIOUS
  <2>1. CASE i = k
    BY <1>2, <1>3, <1>5, <2>1
  <2>2. CASE i # k
    <3>1. i \in 1..(k - 1) /\ i \in 1..size /\ k \in 1..size
      BY <2>2
    <3>2. at[i] # a /\ WordsOf(mem)[at[i]] = words[i]
      BY <2>2, <3>1 DEF StackedTo
    <3>3. at[i] \in DOMAIN WordsOf(mem)
      BY <1>3, <3>1
    <3> QED BY <1>5, <3>2, <3>3
  <2> QED BY <2>1, <2>2
<1> QED BY <1>2, <1>5, <1>6, <1>7 DEF StackedTo

\* The memory after each of the words that a transfer stores.
LEMMA EachStored ==
  ASSUME NEW m, NEW a, NEW words, Len(words) \in Nat
  PROVE  \E after :
           /\ after[0] = m /\ after[Len(words)] = StoredWords(m, a, words)
           /\ \A k \in 1..Len(words) :
                after[k] = Stored(after[k - 1], Wrap(a + 4 * (k - 1)), 4, words[k])
<1> DEFINE next(x, k) == Stored(x, Wrap(a + 4 * (k - 1)), 4, words[k])
           Solves(f, n) == f = [k \in 0..n |-> IF k = 0 THEN m ELSE next(f[k - 1], k)]
           after == CHOOSE f : Solves(f, Len(words))
           T == {n \in 0..Len(words) : \E f : Solves(f, n)}
<1>1. StoredWords(m, a, words) = after[Len(words)]
  BY DEF StoredWords
<1> HIDE DEF next
<1>2. 0 \in T
  <2> DEFINE g == [k \in 0..0 |-> m]
  <2>1. g = [k \in 0..0 |-> g[k]] /\ \A k \in 0..0 : k = 0 /\ g[k] = m
    OBVIOUS
  <2> HIDE DEF g
  <2>2. Solves(g, 0)
    BY <2>1
  <2> QED BY <2>2
<1>3. ASSUME NEW n \in 1..Len(words), n - 1 \in T PROVE n \in T
  <2>1. PICK f : Solves(f, n - 1)
    BY <1>3
  <2> DEFINE g == [k \in 0..n |-> IF k = n THEN next(f[n - 1], n) ELSE f[k]]
  <2>2. \A k \in 0..(n - 1) : f[k] = IF k = 0 THEN m ELSE next(f[k - 1], k)
    BY <2>1
  <2>3. \A k \in 0..n : g[k] = IF k = 0 THEN m ELSE next(g[k - 1], k)
    <3> SUFFICES ASSUME NEW k \in 0..n PROVE g[k] = IF k = 0 THEN m ELSE next(g[k - 1], k)
      OBVIOUS
    <3>1. CASE k = n
      BY <3>1
    <3>2. CASE k # n
      <4>1. k \in 0..(n - 1) /\ (k # 0 => k - 1 \in 0..(n - 1))
        BY <3>2
      <4> QED BY <2>2, <3>2, <4>1
    <3> QED BY <3>1, <3>2
  <2>4. g = [k \in 0..n |-> g[k]]
    OBVIOUS
  <2> HIDE DEF g
  <2>5. Solves(g, n)
    BY <2>3, <2>4
  <2> QED BY <2>5
<1> HIDE DEF T
<1>4. Len(words) \in T
  <2>1. \A k \in 1..Len(words) : k - 1 \in T => k \in T
    BY <1>3
  <2>2. \A k \in 0..Len(words) : k \in T
    BY <1>2, <2>1, Climbing
  <2> QED BY <2>2
<1>5. Solves(after, Len(words))
  <2> HIDE DEF Solves
  <2> QED BY <1>4 DEF after, T
<1> HIDE DEF after
<1>6. after[0] = m /\ \A k \in 1..Len(words) : after[k] = next(after[k - 1], k)
  BY <1>5
<1> QED BY <1>1, <1>6 DEF next

\* A machine that an exception may interrupt.
HasRegisters(m) ==
  /\ DOMAIN m = DOMAIN Blank
  /\ m.r \in [0..12 -> Word] /\ m.lr \in Word /\ m.main \in Word /\ m.process \in Word
  /\ m.flags \in Flags /\ m.thumb \in BOOLEAN /\ m.spsel \in BOOLEAN /\ m.ipsr \in 0..63
  /\ IsFiniteSet(m.active)
  /\ \/ m.mode = "thread" /\ m.ipsr = 0 /\ m.active = {}
     \/ m.mode = "handler" /\ m.active # {} /\ ~m.spsel

IsMachine(m) == HasRegisters(m) /\ MemoryOK(m.mem)

Frame(m)          == FrameBelow(Sp(m))
FrameWord(m, k)   == Wrap(Frame(m) + 4 * k)
HasFrame(m)       == \A k \in 0..7 : Reaches(m.mem, FrameWord(m, k), 4)
Stacked(m, ra) ==
  <<m.r[0], m.r[1], m.r[2], m.r[3], m.r[12], m.lr, ra,
    Xpsr(m) + Field(Sp(m), 2, 1) * 2^AlignBit>>

HoldsFrame(mem, m, ra) ==
  \A k \in 0..7 :
    Read(mem, FrameWord(m, k), 4) = [ok |-> TRUE, value |-> Stacked(m, ra)[k + 1]]

Link(m) == IF m.mode = "handler" THEN ToHandler
           ELSE IF m.spsel THEN ToThreadProcess ELSE ToThreadMain

\* The stack pointer is read as an aligned word.
LEMMA SpIs ==
  ASSUME NEW m, IsMachine(m)
  PROVE  Sp(m) \in Word /\ Sp(m) % 4 = 0
<1>1. BankedSp(m) \in Word
  BY DEF BankedSp, IsMachine, HasRegisters
<1>2. \A v \in Nat : Aligned(v) \in Nat /\ Aligned(v) <= v /\ Aligned(v) % 4 = 0
  BY DEF Aligned
<1>3. Modulus \in Nat
  BY UpperPowers
<1> QED BY <1>1, <1>2, <1>3 DEF Sp, Word

\* What is read from the XPSR that a machine has stacked.
LEMMA XpsrIs ==
  ASSUME NEW m, IsMachine(m), NEW align \in 0..1
  PROVE  LET x == Xpsr(m) + align * 2^AlignBit
         IN /\ x \in Word
            /\ FlagsOf(x) = m.flags
            /\ BitOf(x, ThumbBit) = m.thumb
            /\ BitOf(x, AlignBit) = (align = 1)
            /\ Field(x, 0, 6) = m.ipsr
<1> DEFINE F == FlagsNumber(m.flags)
           T == IF m.thumb THEN 1 ELSE 0
           x == Xpsr(m) + align * 2^AlignBit
<1>1. /\ m.flags \in Flags /\ m.thumb \in BOOLEAN /\ m.ipsr \in 0..63
  BY DEF IsMachine, HasRegisters
<1>2. F \in 0..15 /\ FlagsWord(m.flags) = F * 2^(WordBits - 4)
  BY <1>1, FlagsBits
<1>3. T \in 0..1 /\ (T = 1) = m.thumb
  BY <1>1
<1>4. 2^ThumbBit \in Nat
  BY UpperPowers
<1>5. x = F * 2^(WordBits - 4) + T * 2^ThumbBit + m.ipsr + align * 2^AlignBit
  BY <1>2, <1>4 DEF Xpsr
<1> HIDE DEF F, T, x
<1>6. /\ x \in Word
      /\ x \div 2^(WordBits - 4) = F
      /\ Field(x, ThumbBit, 1) = T
      /\ Field(x, AlignBit, 1) = align
      /\ Field(x, 0, 6) = m.ipsr
  <2> DEFINE exception == m.ipsr
  <2>1. /\ F \in 0..15 /\ T \in 0..1 /\ exception \in 0..63 /\ align \in 0..1
        /\ x = XpsrWord(F, T, exception, align)
    BY <1>1, <1>2, <1>3, <1>5 DEF XpsrWord
  <2> HIDE DEF exception
  <2>2. FieldsAreKept(x, F, T, exception, align)
    BY <2>1, XpsrFields
  <2> QED BY <2>2 DEF exception, FieldsAreKept
<1>7. FlagsOf(x) = m.flags
  BY <1>1, <1>6, FlagsBack DEF F
<1>8. BitOf(x, ThumbBit) = m.thumb /\ BitOf(x, AlignBit) = (align = 1)
  BY <1>3, <1>6 DEF BitOf
<1> QED BY <1>6, <1>7, <1>8 DEF x

\* An entry stacks the eight words of the frame.
LEMMA PushedIs ==
  ASSUME NEW m, IsMachine(m), HasFrame(m), NEW ra \in Word
  PROVE  \E mem :
           /\ PushStack(ra, m) = [WithSp(m, Frame(m)) EXCEPT !.mem = mem, !.lr = Link(m)]
           /\ HoldsFrame(mem, m, ra) /\ MemoryOK(mem)
<1> DEFINE at == [i \in 1..8 |-> FrameWord(m, i - 1)]
           words == Stacked(m, ra)
           x == WithSp(m, Frame(m))
<1>1. Sp(m) \in Word /\ Sp(m) % 4 = 0
  BY SpIs
<1>2. /\ Field(Sp(m), 2, 1) \in 0..1
      /\ \A k \in 0..7 : FrameWord(m, k) \in Nat
      /\ \A j, k \in 0..7 : j # k => FrameWord(m, j) # FrameWord(m, k)
  BY <1>1, FrameFits DEF Frame, FrameWord
<1>3. DOMAIN x = DOMAIN m /\ x.mem = m.mem /\ "mem" \in DOMAIN x /\ MemoryOK(x.mem)
  BY DEF WithSp, IsMachine, HasRegisters, Blank
<1>4. Len(words) = 8 /\ \A i \in 1..8 : words[i] \in Word
  <2>1. Xpsr(m) + Field(Sp(m), 2, 1) * 2^AlignBit \in Word
    BY <1>2, XpsrIs
  <2>2. /\ m.r[0] \in Word /\ m.r[1] \in Word /\ m.r[2] \in Word /\ m.r[3] \in Word
        /\ m.r[12] \in Word /\ m.lr \in Word
    BY DEF IsMachine, HasRegisters
  <2> QED BY <2>1, <2>2 DEF Stacked
<1>5. \A i \in 1..8 : /\ at[i] \in Nat /\ Reaches(x.mem, at[i], 4) /\ words[i] \in Word
                      /\ \A j \in 1..8 : i # j => at[i] # at[j]
  <2>1. \A i \in 1..8 : i - 1 \in 0..7 /\ at[i] = FrameWord(m, i - 1)
    OBVIOUS
  <2> HIDE DEF at, words, x
  <2> QED BY <1>2, <1>3, <1>4, <2>1 DEF HasFrame
<1>6. PICK after :
        /\ after[0] = x /\ after[8] = StoredWords(x, Frame(m), words)
        /\ \A k \in 1..8 : after[k] = Stored(after[k - 1], Wrap(Frame(m) + 4 * (k - 1)), 4, words[k])
  <2> HIDE DEF words, x
  <2>1. Len(words) \in Nat
    BY <1>4
  <2>2. \E after :
          /\ after[0] = x /\ after[Len(words)] = StoredWords(x, Frame(m), words)
          /\ \A k \in 1..Len(words) :
               after[k] = Stored(after[k - 1], Wrap(Frame(m) + 4 * (k - 1)), 4, words[k])
    BY <2>1, EachStored
  <2> QED BY <1>4, <2>2
<1>7. \A k \in 1..8 : Wrap(Frame(m) + 4 * (k - 1)) = at[k]
  BY DEF FrameWord
<1> DEFINE Done(k) == \E mem : after[k] = [x EXCEPT !.mem = mem] /\ StackedTo(x, at, words, k, mem)
<1>8. Done(0)
  <2>1. x = [x EXCEPT !.mem = x.mem]
    BY DEF WithSp
  <2>2. StackedTo(x, at, words, 0, x.mem)
    BY <1>3 DEF StackedTo
  <2> QED BY <1>6, <2>1, <2>2
<1> HIDE DEF at, words, x
<1>9. \A k \in 1..8 : Done(k - 1) => Done(k)
  <2> SUFFICES ASSUME NEW k \in 1..8, NEW mem, after[k - 1] = [x EXCEPT !.mem = mem],
                      StackedTo(x, at, words, k - 1, mem)
               PROVE  Done(k)
    OBVIOUS
  <2>1. after[k] = Stored([x EXCEPT !.mem = mem], at[k], 4, words[k])
    BY <1>6, <1>7
  <2>2. \E new : /\ Stored([x EXCEPT !.mem = mem], at[k], 4, words[k]) = [x EXCEPT !.mem = new]
                 /\ StackedTo(x, at, words, k, new)
    BY <1>3, <1>5, StackOne
  <2> QED BY <2>1, <2>2
<1>10. Done(8)
  <2> HIDE DEF Done
  <2> QED BY <1>8, <1>9
<1>11. PICK mem : /\ StoredWords(x, Frame(m), words) = [x EXCEPT !.mem = mem]
                  /\ StackedTo(x, at, words, 8, mem)
  BY <1>6, <1>10
<1>12. \A k \in 0..7 : Read(mem, FrameWord(m, k), 4) = [ok |-> TRUE, value |-> words[k + 1]]
  <2> SUFFICES ASSUME NEW k \in 0..7
               PROVE  Read(mem, FrameWord(m, k), 4) = [ok |-> TRUE, value |-> words[k + 1]]
    OBVIOUS
  <2>1. k + 1 \in 1..8 /\ at[k + 1] = FrameWord(m, k)
    BY DEF at
  <2>2. /\ MemoryOK(mem) /\ DOMAIN WordsOf(mem) = DOMAIN WordsOf(x.mem)
        /\ WordsOf(mem)[at[k + 1]] = words[k + 1]
    BY <1>11, <2>1 DEF StackedTo
  <2>3. FrameWord(m, k) \in Nat /\ Reaches(x.mem, FrameWord(m, k), 4)
    BY <1>2, <1>3 DEF HasFrame
  <2>4. Reaches(mem, FrameWord(m, k), 4)
    BY <1>3, <2>2, <2>3, ReachIs
  <2> QED BY <2>1, <2>2, <2>3, <2>4, ReadIs
<1>13. PushStack(ra, m) = [x EXCEPT !.mem = mem, !.lr = Link(m)]
  <2>1. PushStack(ra, m) = [StoredWords(x, Frame(m), words) EXCEPT !.lr = Link(m)]
    BY DEF PushStack, Frame, FrameBelow, Link, Stacked, words, x
  <2>2. [[x EXCEPT !.mem = mem] EXCEPT !.lr = Link(m)] = [x EXCEPT !.mem = mem, !.lr = Link(m)]
    OBVIOUS
  <2> QED BY <1>11, <2>1, <2>2
<1>14. MemoryOK(mem)
  BY <1>11 DEF StackedTo
<1> QED BY <1>12, <1>13, <1>14 DEF x, words, HoldsFrame

\* What a handler leaves as it found it when it is about to return: the stack
\* pointers, the registers that are not stacked, the frame, and which exceptions
\* are active.
LeavesFrame(entered, h, m) ==
  /\ DOMAIN h = DOMAIN Blank /\ h.r \in [0..12 -> Word]
  /\ \A i \in 4..11 : h.r[i] = entered.r[i]
  /\ h.main = entered.main /\ h.process = entered.process
  /\ h.mode = entered.mode /\ h.ipsr = entered.ipsr /\ h.active = entered.active
  /\ h.primask = entered.primask
  /\ \A k \in 0..7 : Read(h.mem, FrameWord(m, k), 4) = Read(entered.mem, FrameWord(m, k), 4)

\* What a handler finds when it is entered.
LEMMA EnteredIs ==
  ASSUME NEW m, IsMachine(m), HasFrame(m), NEW ra \in Word, NEW e
  PROVE  LET entered == ExceptionEntry(e, ra, m)
             x == WithSp(m, Frame(m))
         IN /\ entered.r = m.r /\ entered.lr = Link(m) /\ entered.primask = m.primask
            /\ entered.main = x.main /\ entered.process = x.process
            /\ entered.mode = "handler" /\ entered.ipsr = e /\ entered.active = m.active \cup {e}
            /\ HoldsFrame(entered.mem, m, ra) /\ entered.mem = PushStack(ra, m).mem
<1> DEFINE x == WithSp(m, Frame(m))
           entered == ExceptionEntry(e, ra, m)
<1>1. PICK mem :
        /\ PushStack(ra, m) = [x EXCEPT !.mem = mem, !.lr = Link(m)]
        /\ HoldsFrame(mem, m, ra)
  BY PushedIs
<1>2. /\ DOMAIN x = DOMAIN Blank /\ x.r = m.r /\ x.primask = m.primask /\ x.active = m.active
  BY DEF WithSp, IsMachine, HasRegisters, Blank
<1> HIDE DEF x
<1> DEFINE p == PushStack(ra, m)
<1>3. /\ DOMAIN p = DOMAIN Blank /\ p.r = m.r /\ p.primask = m.primask /\ p.active = m.active
      /\ p.lr = Link(m) /\ p.mem = mem /\ p.main = x.main /\ p.process = x.process
  BY <1>1, <1>2 DEF Blank
<1> HIDE DEF p
<1> DEFINE q == [p EXCEPT !.mode = "handler", !.ipsr = e, !.spsel = FALSE,
                          !.active = @ \cup {e}, !.pending = @ \ {e}]
<1>4. /\ DOMAIN q = DOMAIN Blank /\ q.r = m.r /\ q.primask = m.primask /\ q.active = m.active \cup {e}
      /\ q.lr = Link(m) /\ q.mem = mem /\ q.main = x.main /\ q.process = x.process
      /\ q.mode = "handler" /\ q.ipsr = e
  BY <1>3 DEF Blank
<1>5. PICK a, b : entered = BranchLinkInterworking(a, IF b THEN q ELSE HardFault(q))
  BY DEF ExceptionEntry, p
<1> HIDE DEF q, entered
<1> DEFINE y == IF b THEN q ELSE HardFault(q)
<1>6. /\ DOMAIN y = DOMAIN Blank /\ y.r = m.r /\ y.primask = m.primask /\ y.active = m.active \cup {e}
      /\ y.lr = Link(m) /\ y.mem = mem /\ y.main = x.main /\ y.process = x.process
      /\ y.mode = "handler" /\ y.ipsr = e
  BY <1>4 DEF Blank, HardFault
<1> HIDE DEF y
<1>7. /\ entered.r = m.r /\ entered.primask = m.primask /\ entered.active = m.active \cup {e}
      /\ entered.lr = Link(m) /\ entered.mem = mem /\ entered.main = x.main
      /\ entered.process = x.process /\ entered.mode = "handler" /\ entered.ipsr = e
  <2>1. entered = BranchLinkInterworking(a, y)
    BY <1>5 DEF y
  <2> QED BY <1>6, <2>1 DEF BranchLinkInterworking, WithPc, Blank
<1> QED BY <1>1, <1>3, <1>7 DEF entered, x, p

\* The last bits of EXC_RETURN that a machine is stacked with.
LinkBits(m) == IF m.mode = "handler" THEN 1 ELSE IF m.spsel THEN 13 ELSE 9

\* EXC_RETURN leads back to the mode and the stack that were interrupted.
LEMMA ReturnsByLink ==
  ASSUME NEW m, IsMachine(m), NEW e, e \notin m.active,
         NEW h, DOMAIN h = DOMAIN Blank, h.mode = "handler", h.ipsr = e,
         h.active = m.active \cup {e}
  PROVE  LET frame == IF OnProcessStack(m) THEN h.process ELSE h.main
             g     == [h EXCEPT !.mode = m.mode, !.spsel = OnProcessStack(m), !.active = m.active]
         IN BranchInterworking(Link(m), h) = PopStack(frame, LinkBits(m), g)
<1> DEFINE bits == LinkBits(m)
           frame == IF OnProcessStack(m) THEN h.process ELSE h.main
           g == [h EXCEPT !.mode = m.mode, !.spsel = OnProcessStack(m), !.active = m.active]
<1>1. Link(m) = ExcReturn(bits) /\ bits \in {1, 9, 13}
  BY DEF Link, LinkBits, ToHandler, ToThreadMain, ToThreadProcess
<1>2. Field(Link(m), WordBits - 4, 4) = 15 /\ Link(m) % 16 = bits
  <2>1. bits \in 0..15
    BY <1>1
  <2> HIDE DEF bits
  <2>2. Field(ExcReturn(bits), WordBits - 4, 4) = 15 /\ ExcReturn(bits) % 16 = bits
    BY <2>1, ExcReturnIs
  <2> QED BY <1>1, <2>2
<1>3. BranchInterworking(Link(m), h) = ExceptionReturn(bits, h)
  BY <1>2 DEF BranchInterworking
<1>4. /\ m.mode = "handler" => Cardinality(h.active) # 1
      /\ m.mode = "thread" => Cardinality(h.active) = 1
  <2>1. CASE m.mode = "thread"
    <3>1. h.active = {e}
      BY <2>1 DEF IsMachine, HasRegisters
    <3> QED BY <2>1, <3>1, FS_Singleton
  <2>2. CASE m.mode = "handler"
    <3>1. IsFiniteSet(m.active) /\ m.active # {}
      BY <2>2 DEF IsMachine, HasRegisters
    <3>2. Cardinality(m.active) \in Nat /\ Cardinality(m.active) # 0
      BY <3>1, FS_CardinalityType, FS_EmptySet
    <3>3. Cardinality(m.active \cup {e}) = Cardinality(m.active) + 1
      BY <3>1, FS_AddElement
    <3> QED BY <2>2, <3>2, <3>3
  <2> QED BY <2>1, <2>2
<1>5. /\ m.mode \in {"thread", "handler"} /\ m.spsel \in BOOLEAN
      /\ (m.mode = "handler" => ~m.spsel)
  BY DEF IsMachine, HasRegisters
<1>6. (m.active \cup {e}) \ {e} = m.active
  OBVIOUS
<1> DEFINE matches == CASE bits = 1         -> Cardinality(h.active) # 1
                        [] bits \in {9, 13} -> Cardinality(h.active) = 1
                        [] OTHER            -> FALSE
<1>7. matches
  BY <1>4, <1>5 DEF LinkBits
<1>8. /\ (bits = 13) = OnProcessStack(m)
      /\ (IF bits = 1 THEN "handler" ELSE "thread") = m.mode
  BY <1>5 DEF LinkBits, OnProcessStack
<1> DEFINE entered == IF ~matches THEN h
                      ELSE [h EXCEPT !.mode = IF bits = 1 THEN "handler" ELSE "thread",
                                     !.spsel = (bits = 13)]
           start == IF ~matches THEN 0 ELSE IF bits = 13 THEN h.process ELSE h.main
<1>9. ExceptionReturn(bits, h) = PopStack(start, bits, [entered EXCEPT !.active = @ \ {h.ipsr}])
  BY DEF ExceptionReturn
<1>10. start = frame
  BY <1>7, <1>8
<1>11. entered = [h EXCEPT !.mode = m.mode, !.spsel = OnProcessStack(m)]
  BY <1>7, <1>8
<1> HIDE DEF entered, start, frame, bits
<1>12. [entered EXCEPT !.active = @ \ {h.ipsr}] = g
  <2>1. entered.active = m.active \cup {e}
    BY <1>11 DEF Blank
  <2> QED BY <1>6, <1>11, <2>1
<1> QED BY <1>3, <1>9, <1>10, <1>12 DEF bits, frame

\* What a frame gives back to the machine g that is returned to.
LEMMA PoppedIs ==
  ASSUME NEW m, IsMachine(m), NEW ra \in Word,
         NEW g, DOMAIN g = DOMAIN Blank, g.r \in [0..12 -> Word], g.mode = m.mode,
         HoldsFrame(g.mem, m, ra),
         NEW bits \in {1, 9, 13}
  PROVE  LET back == PopStack(Frame(m), bits, g)
             above(sp) == IF Field(Sp(m), 2, 1) = 1 THEN WithBit(Wrap(sp + 32), 2) ELSE Wrap(sp + 32)
         IN /\ back.r = [g.r EXCEPT ![0] = m.r[0], ![1] = m.r[1], ![2] = m.r[2], ![3] = m.r[3],
                                    ![12] = m.r[12]]
            /\ back.lr = m.lr /\ back.pc = ra
            /\ back.main = (IF bits \in {1, 9} THEN above(g.main) ELSE g.main)
            /\ back.process = (IF bits = 13 THEN above(g.process) ELSE g.process)
            /\ back.flags = m.flags /\ back.thumb = m.thumb /\ back.ipsr = m.ipsr
            /\ back.mode = m.mode /\ back.spsel = g.spsel /\ back.primask = g.primask
            /\ back.active = g.active
<1> DEFINE word(k) == Read(g.mem, Wrap(Frame(m) + 4 * k), 4)
           xpsr == word(7).value
           align == Field(Sp(m), 2, 1)
           above(sp) == IF align = 1 THEN WithBit(Wrap(sp + 32), 2) ELSE Wrap(sp + 32)
           back == PopStack(Frame(m), bits, g)
<1>1. /\ word(0).value = m.r[0] /\ word(1).value = m.r[1] /\ word(2).value = m.r[2]
      /\ word(3).value = m.r[3] /\ word(4).value = m.r[12] /\ word(5).value = m.lr
      /\ word(6).value = ra /\ word(7).value = Xpsr(m) + align * 2^AlignBit
  <2>1. \A k \in 0..7 : word(k).value = Stacked(m, ra)[k + 1]
    BY DEF HoldsFrame, FrameWord
  <2>2. /\ Stacked(m, ra)[1] = m.r[0] /\ Stacked(m, ra)[2] = m.r[1] /\ Stacked(m, ra)[3] = m.r[2]
        /\ Stacked(m, ra)[4] = m.r[3] /\ Stacked(m, ra)[5] = m.r[12] /\ Stacked(m, ra)[6] = m.lr
        /\ Stacked(m, ra)[7] = ra /\ Stacked(m, ra)[8] = Xpsr(m) + align * 2^AlignBit
    BY DEF Stacked
  <2> HIDE DEF word
  <2>3. \A k \in {0, 1, 2, 3, 4, 5, 6, 7} : word(k).value = Stacked(m, ra)[k + 1]
    BY <2>1
  <2> QED BY <2>2, <2>3
<1>2. /\ FlagsOf(xpsr) = m.flags /\ BitOf(xpsr, ThumbBit) = m.thumb
      /\ BitOf(xpsr, AlignBit) = (align = 1) /\ Field(xpsr, 0, 6) = m.ipsr
  <2>1. align \in 0..1
    BY SpIs, FrameFits
  <2> DEFINE x == Xpsr(m) + align * 2^AlignBit
  <2>2. /\ FlagsOf(x) = m.flags /\ BitOf(x, ThumbBit) = m.thumb
        /\ BitOf(x, AlignBit) = (align = 1) /\ Field(x, 0, 6) = m.ipsr
    BY <2>1, XpsrIs
  <2> HIDE DEF x, xpsr
  <2>3. xpsr = x
    BY <1>1 DEF x, xpsr
  <2> QED BY <2>2, <2>3
<1>3. (IF g.mode = "thread" /\ g.npriv THEN 0 ELSE m.ipsr) = m.ipsr
  BY DEF IsMachine, HasRegisters
<1> DEFINE faults == \E k \in 0..7 : ~word(k).ok
           popped(sp) == IF BitOf(xpsr, AlignBit) THEN WithBit(Wrap(sp + 32), 2) ELSE Wrap(sp + 32)
<1>4. back =
        [g EXCEPT
           !.r       = [@ EXCEPT ![0] = word(0).value, ![1] = word(1).value, ![2] = word(2).value,
                                 ![3] = word(3).value, ![12] = word(4).value],
           !.lr      = word(5).value,
           !.pc      = word(6).value,
           !.branched = TRUE,
           !.main    = IF bits \in {1, 9} THEN popped(@) ELSE @,
           !.process = IF bits = 13 THEN popped(@) ELSE @,
           !.flags   = FlagsOf(xpsr),
           !.thumb   = BitOf(xpsr, ThumbBit),
           !.ipsr    = IF g.mode = "thread" /\ g.npriv THEN 0 ELSE Field(xpsr, 0, 6),
           !.pending = IF faults THEN @ \cup {HARDFAULT} ELSE @]
  BY DEF PopStack
<1>5. popped(g.main) = above(g.main) /\ popped(g.process) = above(g.process)
  BY <1>2
<1> HIDE DEF back, word, xpsr, align, faults, popped, above
<1>6. /\ {"r", "lr", "pc", "branched", "main", "process", "flags", "thumb", "ipsr", "pending",
          "mode", "spsel", "primask", "active"} \subseteq DOMAIN g
  BY DEF Blank
<1>7. back.r = [g.r EXCEPT ![0] = m.r[0], ![1] = m.r[1], ![2] = m.r[2], ![3] = m.r[3],
                           ![12] = m.r[12]]
  BY <1>1, <1>4, <1>6
<1>8. back.lr = m.lr /\ back.pc = ra
  BY <1>1, <1>4, <1>6
<1>9. /\ back.main = (IF bits \in {1, 9} THEN above(g.main) ELSE g.main)
      /\ back.process = (IF bits = 13 THEN above(g.process) ELSE g.process)
  BY <1>4, <1>5, <1>6
<1>10. back.flags = m.flags /\ back.thumb = m.thumb /\ back.ipsr = m.ipsr
  BY <1>2, <1>3, <1>4, <1>6
<1>11. /\ back.mode = m.mode /\ back.spsel = g.spsel /\ back.primask = g.primask
       /\ back.active = g.active
  BY <1>4, <1>6
<1> QED BY <1>7, <1>8, <1>9, <1>10, <1>11 DEF back, above, align

(***************************************************************************)
(* context_switcher::exception_return undoes exception_entry: a handler    *)
(* that leaves the stack pointers, R4 to R11, PRIMASK and the frame as it  *)
(* found them, whatever else it does to registers, flags, memory and       *)
(* pending exceptions, and branches to the EXC_RETURN it was entered with, *)
(* goes back to all of the context that was interrupted, on the same stack *)
(* and in the same mode, and the exceptions that were active still are.    *)
(* So for every size of a byte, from a thread or from another handler,     *)
(* with the main or the process stack, whether or not the frame had to be  *)
(* aligned to 8 bytes and also where addresses wrap.                       *)
(***************************************************************************)
THEOREM ReturnUndoesEntry ==
  ASSUME NEW m, IsMachine(m), HasFrame(m), NEW ra \in Word, NEW e, e \notin m.active,
         NEW h, LeavesFrame(ExceptionEntry(e, ra, m), h, m)
  PROVE  LET back == BranchInterworking(ExceptionEntry(e, ra, m).lr, h)
         IN /\ Context(back) = Context([WithSp(m, Sp(m)) EXCEPT !.pc = ra])
            /\ back.active = m.active
<1> DEFINE entered == ExceptionEntry(e, ra, m)
           back == BranchInterworking(entered.lr, h)
           process == OnProcessStack(m)
           g == [h EXCEPT !.mode = m.mode, !.spsel = process, !.active = m.active]
           x == WithSp(m, Frame(m))
           bits == LinkBits(m)
           left == [WithSp(m, Sp(m)) EXCEPT !.pc = ra]
<1>1. /\ entered.r = m.r /\ entered.lr = Link(m) /\ entered.primask = m.primask
      /\ entered.main = x.main /\ entered.process = x.process
      /\ entered.mode = "handler" /\ entered.ipsr = e /\ entered.active = m.active \cup {e}
      /\ HoldsFrame(entered.mem, m, ra)
  <2>1. IsMachine(m) /\ HasFrame(m) /\ ra \in Word
    OBVIOUS
  <2> QED BY ONLY <2>1, EnteredIs
<1>2. Sp(m) \in Word /\ Sp(m) % 4 = 0
  BY SpIs
<1> DEFINE align == Field(Sp(m), 2, 1)
           above(sp) == IF align = 1 THEN WithBit(Wrap(sp + 32), 2) ELSE Wrap(sp + 32)
<1>3. above(Frame(m)) = Sp(m) /\ Wrap(Frame(m)) = Frame(m) /\ Wrap(Sp(m)) = Sp(m)
  <2>1. above(Frame(m)) = Sp(m) /\ Wrap(Frame(m)) = Frame(m)
    BY <1>2, FrameFits DEF Frame
  <2>2. Wrap(Sp(m)) = Sp(m)
    BY <1>2, UpperPowers DEF Wrap, Word
  <2> QED BY <2>1, <2>2
<1>4. /\ x.main = (IF process THEN m.main ELSE Frame(m))
      /\ x.process = (IF process THEN Frame(m) ELSE m.process)
  BY <1>3 DEF WithSp, IsMachine, HasRegisters, Blank
<1>5. /\ left.main = (IF process THEN m.main ELSE Sp(m))
      /\ left.process = (IF process THEN Sp(m) ELSE m.process)
      /\ left.r = m.r /\ left.lr = m.lr /\ left.pc = ra /\ left.flags = m.flags
      /\ left.thumb = m.thumb /\ left.ipsr = m.ipsr /\ left.mode = m.mode /\ left.spsel = m.spsel
      /\ left.primask = m.primask
  BY <1>3 DEF WithSp, IsMachine, HasRegisters, Blank
<1> HIDE DEF entered, x, left
<1>6. /\ DOMAIN h = DOMAIN Blank /\ h.r \in [0..12 -> Word] /\ \A i \in 4..11 : h.r[i] = m.r[i]
      /\ h.main = x.main /\ h.process = x.process /\ h.mode = "handler" /\ h.ipsr = e
      /\ h.active = m.active \cup {e} /\ h.primask = m.primask
      /\ HoldsFrame(h.mem, m, ra)
  BY <1>1 DEF LeavesFrame, entered, HoldsFrame
<1>7. back = PopStack(Frame(m), bits, g)
  <2>1. (IF process THEN h.process ELSE h.main) = Frame(m)
    BY <1>4, <1>6
  <2>2. IsMachine(m) /\ e \notin m.active
    OBVIOUS
  <2>3. BranchInterworking(Link(m), h)
          = PopStack(IF process THEN h.process ELSE h.main, bits, g)
    BY ONLY <1>6, <2>2, ReturnsByLink
  <2> HIDE DEF process, bits, g
  <2> QED BY <1>1, <2>1, <2>3
<1>8. /\ DOMAIN g = DOMAIN Blank /\ g.r = h.r /\ g.mode = m.mode /\ g.spsel = process
      /\ g.active = m.active /\ g.primask = m.primask /\ g.mem = h.mem
      /\ g.main = x.main /\ g.process = x.process
  BY <1>6 DEF Blank
<1>9. bits \in {1, 9, 13} /\ (bits = 13 <=> process) /\ process = m.spsel
  BY DEF LinkBits, OnProcessStack, IsMachine, HasRegisters
<1> HIDE DEF g, bits, process
<1>10. /\ back.r = [g.r EXCEPT ![0] = m.r[0], ![1] = m.r[1], ![2] = m.r[2], ![3] = m.r[3],
                               ![12] = m.r[12]]
       /\ back.lr = m.lr /\ back.pc = ra
       /\ back.main = (IF bits \in {1, 9} THEN above(g.main) ELSE g.main)
       /\ back.process = (IF bits = 13 THEN above(g.process) ELSE g.process)
       /\ back.flags = m.flags /\ back.thumb = m.thumb /\ back.ipsr = m.ipsr
       /\ back.mode = m.mode /\ back.spsel = g.spsel /\ back.primask = g.primask
       /\ back.active = g.active
  <2>1. IsMachine(m) /\ ra \in Word /\ HoldsFrame(g.mem, m, ra) /\ g.r \in [0..12 -> Word]
    BY <1>6, <1>8
  <2> QED BY ONLY <1>7, <1>8, <1>9, <2>1, PoppedIs
<1> HIDE DEF back, above
<1>11. back.r = m.r
  <2>1. m.r \in [0..12 -> Word]
    BY DEF IsMachine, HasRegisters
  <2>2. \A i \in 0..12 : i \in {0, 1, 2, 3, 12} \/ i \in 4..11
    OBVIOUS
  <2> QED BY <1>6, <1>8, <1>10, <2>1, <2>2
<1>12. back.main = left.main /\ back.process = left.process
  BY <1>3, <1>4, <1>5, <1>8, <1>9, <1>10
<1>13. Context(back) = Context(left) /\ back.active = m.active
  BY <1>5, <1>8, <1>9, <1>10, <1>11, <1>12 DEF Context
<1> QED BY <1>13 DEF back, left, entered

\* An interrupted machine is one that may be interrupted in its turn: the theorem
\* above is about handlers of handlers too.
THEOREM EntryKeepsMachine ==
  ASSUME NEW m, IsMachine(m), HasFrame(m), NEW ra \in Word, NEW e \in 1..63
  PROVE  IsMachine(ExceptionEntry(e, ra, m))
<1> DEFINE x == WithSp(m, Frame(m))
           entered == ExceptionEntry(e, ra, m)
<1>1. PICK mem : PushStack(ra, m) = [x EXCEPT !.mem = mem, !.lr = Link(m)] /\ MemoryOK(mem)
  BY PushedIs
<1>2. Modulus \in Nat /\ Modulus >= 256
  <2> DEFINE t == 2^ThumbBit
  <2>1. t \in Nat \ {0} /\ Modulus = 256 * t
    BY UpperPowers
  <2> HIDE DEF t
  <2> QED BY <2>1
<1>3. \A v \in Int : Wrap(v) \in Word
  BY <1>2 DEF Wrap, Word
<1>4. Frame(m) \in Int /\ Link(m) \in Word
  <2>1. Frame(m) \in Word
    BY SpIs, FrameFits DEF Frame
  <2>2. \A ret_bits \in 0..15 : ExcReturn(ret_bits) \in Word
    BY <1>2 DEF ExcReturn, Word
  <2>3. Link(m) \in Word
    BY <2>2 DEF Link, ToHandler, ToThreadMain, ToThreadProcess
  <2> QED BY <1>2, <2>1, <2>3 DEF Word
<1>5. HasRegisters(m)
  BY DEF IsMachine
<1>6. /\ DOMAIN x = DOMAIN Blank /\ x.r = m.r /\ x.active = m.active /\ x.flags = m.flags
      /\ x.thumb = m.thumb /\ x.main \in Word /\ x.process \in Word
  BY <1>3, <1>4, <1>5 DEF WithSp, HasRegisters, Blank
<1> HIDE DEF x
<1> DEFINE p == PushStack(ra, m)
<1>7. /\ DOMAIN p = DOMAIN Blank /\ p.r = m.r /\ p.active = m.active /\ p.flags = m.flags
      /\ p.thumb = m.thumb /\ p.main \in Word /\ p.process \in Word /\ p.lr \in Word
      /\ MemoryOK(p.mem)
  BY <1>1, <1>4, <1>6 DEF Blank
<1> HIDE DEF p
<1> DEFINE q == [p EXCEPT !.mode = "handler", !.ipsr = e, !.spsel = FALSE,
                          !.active = @ \cup {e}, !.pending = @ \ {e}]
<1>8. /\ DOMAIN q = DOMAIN Blank /\ q.r = m.r /\ q.active = m.active \cup {e} /\ q.flags = m.flags
      /\ q.main \in Word /\ q.process \in Word /\ q.lr \in Word
      /\ MemoryOK(q.mem) /\ q.mode = "handler" /\ q.ipsr = e /\ q.spsel = FALSE
  BY <1>7 DEF Blank
<1>9. PICK a, b : entered = BranchLinkInterworking(a, IF b THEN q ELSE HardFault(q))
  BY DEF ExceptionEntry, p
<1> HIDE DEF q, entered
<1> DEFINE y == IF b THEN q ELSE HardFault(q)
<1>10. /\ DOMAIN y = DOMAIN Blank /\ y.r = m.r /\ y.active = m.active \cup {e} /\ y.flags = m.flags
       /\ y.main \in Word /\ y.process \in Word /\ y.lr \in Word
       /\ MemoryOK(y.mem) /\ y.mode = "handler" /\ y.ipsr = e /\ y.spsel = FALSE
  BY <1>8 DEF HardFault, Blank
<1> HIDE DEF y
<1>11. entered = BranchLinkInterworking(a, y)
  BY <1>9 DEF y
<1>12. /\ DOMAIN entered = DOMAIN Blank /\ entered.r = m.r /\ entered.active = m.active \cup {e}
       /\ entered.flags = m.flags /\ entered.thumb \in BOOLEAN /\ entered.main \in Word
       /\ entered.process \in Word /\ entered.lr \in Word /\ MemoryOK(entered.mem)
       /\ entered.mode = "handler" /\ entered.ipsr = e /\ entered.spsel = FALSE
  BY <1>10, <1>11 DEF BranchLinkInterworking, WithPc, Blank
<1>13. IsFiniteSet(m.active \cup {e}) /\ m.active \cup {e} # {}
  BY <1>5, FS_AddElement DEF HasRegisters
<1>14. HasRegisters(entered)
  <2>1. entered.r \in [0..12 -> Word] /\ entered.flags \in Flags
    BY <1>5, <1>12 DEF HasRegisters
  <2>2. e \in 0..63
    OBVIOUS
  <2>3. entered.ipsr \in 0..63 /\ entered.spsel \in BOOLEAN /\ ~entered.spsel
    BY <1>12, <2>2, Zenon
  <2>4. IsFiniteSet(entered.active) /\ entered.active # {}
    BY <1>12, <1>13, Zenon
  <2> QED BY ONLY <1>12, <2>1, <2>3, <2>4, Zenon DEF HasRegisters
<1> QED BY <1>12, <1>14 DEF entered, IsMachine

\* What Reset leaves in the registers, and _startup keeps.
BootInv == stage \in {"reset", "main"} => HasRegisters(machine)

LEMMA BootStep == ImageInv /\ BootInv /\ [Next]_vars => BootInv'
<1> SUFFICES ASSUME ImageInv, BootInv, [Next]_vars PROVE BootInv'
  OBVIOUS
<1>1. CASE LoadImage
  BY <1>1 DEF LoadImage, BootInv
<1>2. CASE Reset
  <2> DEFINE sp == Aligned(Read(machine.mem, 0, 4).value)
             start == WithSp([Blank EXCEPT !.mem = machine.mem], sp)
  <2>1. Modulus \in Nat \ {0}
    BY UpperPowers
  <2>2. Read(machine.mem, 0, 4).value \in Word
    <3>1. MemoryOK(machine.mem)
      BY <1>2, ImageMemory DEF Reset
    <3>2. CASE Reaches(machine.mem, 0, 4)
      <4>1. Read(machine.mem, 0, 4) = [ok |-> TRUE, value |-> WordsOf(machine.mem)[0]]
        BY <3>1, <3>2, ReadIs
      <4>2. 0 \in DOMAIN WordsOf(machine.mem)
        BY <3>1, <3>2, ReachIs
      <4> QED BY <3>1, <4>1, <4>2 DEF WordsOf, MemoryOK
    <3>3. CASE ~Reaches(machine.mem, 0, 4)
      <4>1. Read(machine.mem, 0, 4) = [ok |-> FALSE, value |-> 0]
        BY <3>1, <3>3, OthersFail
      <4> QED BY <2>1, <4>1 DEF Word
    <3> QED BY <3>2, <3>3
  <2>3. Wrap(sp) \in Word /\ 0 \in Word
    <3>1. sp \in Int
      BY <2>1, <2>2 DEF Aligned, Word
    <3> QED BY <2>1, <3>1 DEF Wrap, Word
  <2> HIDE DEF sp
  <2>4. /\ DOMAIN start = DOMAIN Blank /\ start.main = Wrap(sp) /\ start.process = 0
        /\ start.r = [i \in 0..12 |-> 0] /\ start.lr = 0 /\ start.flags = FlagsOf(0)
        /\ start.spsel = FALSE /\ start.ipsr = 0 /\ start.active = {} /\ start.mode = "thread"
    BY DEF WithSp, OnProcessStack, Blank
  <2> HIDE DEF start
  <2>5. machine' = [start EXCEPT !.pc = image.entry, !.branched = TRUE, !.thumb = TRUE]
    BY <1>2 DEF Reset, start, sp
  <2>6. /\ DOMAIN machine' = DOMAIN Blank /\ machine'.main = Wrap(sp) /\ machine'.process = 0
        /\ machine'.r = [i \in 0..12 |-> 0] /\ machine'.lr = 0 /\ machine'.flags = FlagsOf(0)
        /\ machine'.spsel = FALSE /\ machine'.ipsr = 0 /\ machine'.active = {}
        /\ machine'.mode = "thread" /\ machine'.thumb = TRUE
    BY <2>4, <2>5 DEF Blank
  <2>7. FlagsOf(0) \in Flags /\ IsFiniteSet({})
    BY FS_EmptySet DEF FlagsOf, Flags, BitOf
  <2>8. HasRegisters(machine')
    <3>1. machine'.r \in [0..12 -> Word] /\ machine'.main \in Word
      BY <2>3, <2>6
    <3>2. machine'.ipsr \in 0..63
      BY <2>6
    <3>3. machine'.thumb \in BOOLEAN /\ machine'.spsel \in BOOLEAN
      BY <2>6, Zenon
    <3>4. machine'.lr \in Word /\ machine'.process \in Word /\ machine'.flags \in Flags
      BY <2>3, <2>6, <2>7, Zenon
    <3>5. IsFiniteSet(machine'.active)
      BY <2>6, <2>7, Zenon
    <3> QED BY ONLY <2>6, <3>1, <3>2, <3>3, <3>4, <3>5, Zenon DEF HasRegisters
  <2> QED BY <2>8 DEF BootInv
<1>3. CASE Startup
  <2> DEFINE words == InitMemory(machine.mem.words, image)
  <2>1. HasRegisters(machine) /\ machine' = [machine EXCEPT !.mem.words = words, !.pc = CodeStart]
    BY <1>3 DEF Startup, BootInv
  <2> HIDE DEF words
  <2>2. HasRegisters(machine')
    BY <2>1 DEF HasRegisters, Blank
  <2> QED BY <2>2 DEF BootInv
<1>4. ASSUME NEW s, NEW pair, TryInstruction(s, pair) PROVE BootInv'
  BY <1>4 DEF TryInstruction, BootInv
<1>5. ASSUME NEW s, NEW p, StartProgram(s, p) PROVE BootInv'
  BY <1>5 DEF StartProgram, BootInv
<1>6. ASSUME NEW e, Raise(e) PROVE BootInv'
  BY <1>6 DEF Raise, BootInv
<1>7. CASE RunStep
  BY <1>7 DEF RunStep, BootInv
<1>8. CASE UNCHANGED vars
  BY <1>8 DEF vars, BootInv
<1> QED
  BY <1>1, <1>2, <1>3, <1>4, <1>5, <1>6, <1>7, <1>8 DEF Next

\* The machine that the main of an image starts with is one that the theorems
\* about exceptions are about.
THEOREM MainIsMachine == Spec => [](stage = "main" => IsMachine(machine))
<1>1. Init => BootInv
  BY DEF Init, BootInv
<1>2. ImageInv /\ BootInv => (stage = "main" => IsMachine(machine))
  BY ImageMemory DEF BootInv, IsMachine
<1> QED BY <1>1, <1>2, ImageInit, ImageStep, BootStep, PTL DEF Spec

-----------------------------------------------------------------------------
(* The decoder *)

\* The powers that instructions are cut with.
LEMMA DecoderPowers == 2^5 = 32 /\ 2^7 = 128 /\ 2^11 = 2048 /\ 2^16 = 65536
<1>1. \A m, n \in 0..16 : m + n <= 16 => 2^(m + n) = 2^m * 2^n
  <2>1. WordBits \in Nat /\ WordBits >= 16
    BY SmallPowers
  <2> QED BY <2>1, PowersAssumption
<1>2. 2^5 = 32
  <2>1. 2^(1 + 4) = 2^1 * 2^4
    BY <1>1
  <2>2. 1 + 4 = 5
    OBVIOUS
  <2> QED BY <2>1, <2>2, SmallPowers
<1>3. 2^7 = 128
  <2>1. 2^(1 + 6) = 2^1 * 2^6
    BY <1>1
  <2>2. 1 + 6 = 7
    OBVIOUS
  <2> QED BY <2>1, <2>2, SmallPowers
<1>4. 2^11 = 2048
  <2>1. 2^(3 + 8) = 2^3 * 2^8
    BY <1>1
  <2>2. 3 + 8 = 11
    OBVIOUS
  <2> QED BY <2>1, <2>2, SmallPowers
<1>5. 2^16 = 65536
  <2>1. 2^(8 + 8) = 2^8 * 2^8
    BY <1>1
  <2>2. 8 + 8 = 16
    OBVIOUS
  <2> QED BY <2>1, <2>2, SmallPowers
<1> QED BY <1>2, <1>3, <1>4, <1>5

LEMMA HalfwordIs ==
  ASSUME NEW hw \in Halfword
  PROVE  hw \in Nat /\ hw <= 65535
<1>1. hw \in 0..(2^16 - 1)
  BY DEF Halfword
<1>2. hw \in Nat /\ hw < 65536
  BY <1>1, DecoderPowers, SMT
<1> QED BY ONLY <1>2, SMT

\* The tests of the chain, with their powers as numbers.
LEMMA MatchIs ==
  ASSUME NEW p, NEW hw
  PROVE  /\ p[2] = 5 => (Matches(p, hw) <=> hw \div 32 \in p[3])
         /\ p[2] = 6 => (Matches(p, hw) <=> hw \div 64 \in p[3])
         /\ p[2] = 7 => (Matches(p, hw) <=> hw \div 128 \in p[3])
         /\ p[2] = 8 => (Matches(p, hw) <=> hw \div 256 \in p[3])
         /\ p[2] = 9 => (Matches(p, hw) <=> hw \div 512 \in p[3])
         /\ p[2] = 11 => (Matches(p, hw) <=> hw \div 2048 \in p[3])
<1> DEFINE e(n) == 2^n
<1>1. Matches(p, hw) <=> hw \div e(p[2]) \in p[3]
  BY DEF Matches
<1>2. /\ e(5) = 32 /\ e(6) = 64 /\ e(7) = 128 /\ e(8) = 256 /\ e(9) = 512 /\ e(11) = 2048
  BY SmallPowers, DecoderPowers
<1> HIDE DEF e
<1> QED BY ONLY SMT, <1>1, <1>2

\* Of the first n patterns of a group one, at most, matches, and then the
\* halfword is in the range of the group.
OneOf(group, n, hw, lo, hi) ==
  /\ \A i \in 1..n : Matches(group[i], hw) => lo <= hw /\ hw <= hi
  /\ \A i, j \in 1..n : Matches(group[i], hw) /\ Matches(group[j], hw) => i = j

LEMMA OneShift ==
  ASSUME NEW hw \in Nat
  PROVE  OneOf(ShiftAddMoveCompare, 11, hw, 0, 16383)
<1> DEFINE g == ShiftAddMoveCompare
           M(i) == Matches(g[i], hw)
<1>1. /\ g[1][2] = 11 /\ g[1][3] = {0}
      /\ g[2][2] = 11 /\ g[2][3] = {1}
      /\ g[3][2] = 11 /\ g[3][3] = {2}
      /\ g[4][2] = 9 /\ g[4][3] = {12}
      /\ g[5][2] = 9 /\ g[5][3] = {13}
      /\ g[6][2] = 9 /\ g[6][3] = {14}
      /\ g[7][2] = 9 /\ g[7][3] = {15}
      /\ g[8][2] = 11 /\ g[8][3] = {4}
      /\ g[9][2] = 11 /\ g[9][3] = {5}
      /\ g[10][2] = 11 /\ g[10][3] = {6}
      /\ g[11][2] = 11 /\ g[11][3] = {7}
  BY ONLY SMT DEF ShiftAddMoveCompare
<1> HIDE DEF g
<1>2. /\ M(1) => hw \div 2048 = 0
      /\ M(2) => hw \div 2048 = 1
      /\ M(3) => hw \div 2048 = 2
      /\ M(4) => hw \div 512 = 12
      /\ M(5) => hw \div 512 = 13
      /\ M(6) => hw \div 512 = 14
      /\ M(7) => hw \div 512 = 15
      /\ M(8) => hw \div 2048 = 4
      /\ M(9) => hw \div 2048 = 5
      /\ M(10) => hw \div 2048 = 6
      /\ M(11) => hw \div 2048 = 7
  BY ONLY SMT, <1>1, MatchIs
<1> HIDE DEF M
<1>3. ASSUME NEW i \in 1..11, M(i) PROVE 0 <= hw /\ hw <= 16383
  BY SMT, <1>2, <1>3
<1>4. ASSUME NEW i \in 1..11, NEW j \in 1..11, M(i), M(j) PROVE i = j
  BY SMT, <1>2, <1>4
<1>5. OneOf(g, 11, hw, 0, 16383)
  BY ONLY SMT, <1>3, <1>4 DEF OneOf, M
<1> QED BY ONLY SMT, <1>5 DEF g

LEMMA OneData ==
  ASSUME NEW hw \in Nat
  PROVE  OneOf(DataProcessing, 16, hw, 16384, 17407)
<1> DEFINE g == DataProcessing
           M(i) == Matches(g[i], hw)
<1>1. /\ g[1][2] = 6 /\ g[1][3] = {256}
      /\ g[2][2] = 6 /\ g[2][3] = {257}
      /\ g[3][2] = 6 /\ g[3][3] = {258}
      /\ g[4][2] = 6 /\ g[4][3] = {259}
      /\ g[5][2] = 6 /\ g[5][3] = {260}
      /\ g[6][2] = 6 /\ g[6][3] = {261}
      /\ g[7][2] = 6 /\ g[7][3] = {262}
      /\ g[8][2] = 6 /\ g[8][3] = {263}
      /\ g[9][2] = 6 /\ g[9][3] = {264}
      /\ g[10][2] = 6 /\ g[10][3] = {265}
      /\ g[11][2] = 6 /\ g[11][3] = {266}
      /\ g[12][2] = 6 /\ g[12][3] = {267}
      /\ g[13][2] = 6 /\ g[13][3] = {268}
      /\ g[14][2] = 6 /\ g[14][3] = {269}
      /\ g[15][2] = 6 /\ g[15][3] = {270}
      /\ g[16][2] = 6 /\ g[16][3] = {271}
  BY ONLY SMT DEF DataProcessing
<1> HIDE DEF g
<1>2. /\ M(1) => hw \div 64 = 256
      /\ M(2) => hw \div 64 = 257
      /\ M(3) => hw \div 64 = 258
      /\ M(4) => hw \div 64 = 259
      /\ M(5) => hw \div 64 = 260
      /\ M(6) => hw \div 64 = 261
      /\ M(7) => hw \div 64 = 262
      /\ M(8) => hw \div 64 = 263
      /\ M(9) => hw \div 64 = 264
      /\ M(10) => hw \div 64 = 265
      /\ M(11) => hw \div 64 = 266
      /\ M(12) => hw \div 64 = 267
      /\ M(13) => hw \div 64 = 268
      /\ M(14) => hw \div 64 = 269
      /\ M(15) => hw \div 64 = 270
      /\ M(16) => hw \div 64 = 271
  BY ONLY SMT, <1>1, MatchIs
<1> HIDE DEF M
<1>3. ASSUME NEW i \in 1..16, M(i) PROVE 16384 <= hw /\ hw <= 17407
  BY SMT, <1>2, <1>3
<1>4. ASSUME NEW i \in 1..16, NEW j \in 1..16, M(i), M(j) PROVE i = j
  BY SMT, <1>2, <1>4
<1>5. OneOf(g, 16, hw, 16384, 17407)
  BY ONLY SMT, <1>3, <1>4 DEF OneOf, M
<1> QED BY ONLY SMT, <1>5 DEF g

LEMMA OneSpecial ==
  ASSUME NEW hw \in Nat
  PROVE  OneOf(SpecialData, 6, hw, 17408, 18431)
<1> DEFINE g == SpecialData
           M(i) == Matches(g[i], hw)
<1>1. /\ g[1][2] = 8 /\ g[1][3] = {68}
      /\ g[2][2] = 6 /\ g[2][3] = {276}
      /\ g[3][2] = 6 /\ g[3][3] = {277, 278, 279}
      /\ g[4][2] = 8 /\ g[4][3] = {70}
      /\ g[5][2] = 7 /\ g[5][3] = {142}
      /\ g[6][2] = 7 /\ g[6][3] = {143}
  BY ONLY SMT DEF SpecialData
<1> HIDE DEF g
<1>2. /\ M(1) => hw \div 256 = 68
      /\ M(2) => hw \div 64 = 276
      /\ M(3) => hw \div 64 \in 277..279
      /\ M(4) => hw \div 256 = 70
      /\ M(5) => hw \div 128 = 142
      /\ M(6) => hw \div 128 = 143
  BY ONLY SMT, <1>1, MatchIs
<1> HIDE DEF M
<1>3. ASSUME NEW i \in 1..6, M(i) PROVE 17408 <= hw /\ hw <= 18431
  BY SMT, <1>2, <1>3
<1>4. ASSUME NEW i \in 1..6, NEW j \in 1..6, M(i), M(j) PROVE i = j
  BY SMT, <1>2, <1>4
<1>5. OneOf(g, 6, hw, 17408, 18431)
  BY ONLY SMT, <1>3, <1>4 DEF OneOf, M
<1> QED BY ONLY SMT, <1>5 DEF g

LEMMA OneLoad ==
  ASSUME NEW hw \in Nat
  PROVE  OneOf(LoadStore, 17, hw, 18432, 40959)
<1> DEFINE g == LoadStore
           M(i) == Matches(g[i], hw)
<1>1. /\ g[1][2] = 11 /\ g[1][3] = {9}
      /\ g[2][2] = 9 /\ g[2][3] = {40}
      /\ g[3][2] = 9 /\ g[3][3] = {41}
      /\ g[4][2] = 9 /\ g[4][3] = {42}
      /\ g[5][2] = 9 /\ g[5][3] = {43}
      /\ g[6][2] = 9 /\ g[6][3] = {44}
      /\ g[7][2] = 9 /\ g[7][3] = {45}
      /\ g[8][2] = 9 /\ g[8][3] = {46}
      /\ g[9][2] = 9 /\ g[9][3] = {47}
      /\ g[10][2] = 11 /\ g[10][3] = {12}
      /\ g[11][2] = 11 /\ g[11][3] = {13}
      /\ g[12][2] = 11 /\ g[12][3] = {14}
      /\ g[13][2] = 11 /\ g[13][3] = {15}
      /\ g[14][2] = 11 /\ g[14][3] = {16}
      /\ g[15][2] = 11 /\ g[15][3] = {17}
      /\ g[16][2] = 11 /\ g[16][3] = {18}
      /\ g[17][2] = 11 /\ g[17][3] = {19}
  BY ONLY SMT DEF LoadStore
<1> HIDE DEF g
<1>2. /\ M(1) => hw \div 2048 = 9
      /\ M(2) => hw \div 512 = 40
      /\ M(3) => hw \div 512 = 41
      /\ M(4) => hw \div 512 = 42
      /\ M(5) => hw \div 512 = 43
      /\ M(6) => hw \div 512 = 44
      /\ M(7) => hw \div 512 = 45
      /\ M(8) => hw \div 512 = 46
      /\ M(9) => hw \div 512 = 47
      /\ M(10) => hw \div 2048 = 12
      /\ M(11) => hw \div 2048 = 13
      /\ M(12) => hw \div 2048 = 14
      /\ M(13) => hw \div 2048 = 15
      /\ M(14) => hw \div 2048 = 16
      /\ M(15) => hw \div 2048 = 17
      /\ M(16) => hw \div 2048 = 18
      /\ M(17) => hw \div 2048 = 19
  BY ONLY SMT, <1>1, MatchIs
<1> HIDE DEF M
<1>3. ASSUME NEW i \in 1..17, M(i) PROVE 18432 <= hw /\ hw <= 40959
  BY SMT, <1>2, <1>3
<1>4. ASSUME NEW i \in 1..17, NEW j \in 1..17, M(i), M(j) PROVE i = j
  BY SMT, <1>2, <1>4
<1>5. OneOf(g, 17, hw, 18432, 40959)
  BY ONLY SMT, <1>3, <1>4 DEF OneOf, M
<1> QED BY ONLY SMT, <1>5 DEF g

LEMMA OneStack ==
  ASSUME NEW hw \in Nat
  PROVE  OneOf(StackAndExtend, 14, hw, 40960, 48639)
<1> DEFINE g == StackAndExtend
           M(i) == Matches(g[i], hw)
<1>1. /\ g[1][2] = 11 /\ g[1][3] = {20}
      /\ g[2][2] = 11 /\ g[2][3] = {21}
      /\ g[3][2] = 7 /\ g[3][3] = {352}
      /\ g[4][2] = 7 /\ g[4][3] = {353}
      /\ g[5][2] = 6 /\ g[5][3] = {712}
      /\ g[6][2] = 6 /\ g[6][3] = {713}
      /\ g[7][2] = 6 /\ g[7][3] = {714}
      /\ g[8][2] = 6 /\ g[8][3] = {715}
      /\ g[9][2] = 9 /\ g[9][3] = {90}
      /\ g[10][2] = 5 /\ g[10][3] = {1459}
      /\ g[11][2] = 6 /\ g[11][3] = {744}
      /\ g[12][2] = 6 /\ g[12][3] = {745}
      /\ g[13][2] = 6 /\ g[13][3] = {747}
      /\ g[14][2] = 9 /\ g[14][3] = {94}
  BY ONLY SMT DEF StackAndExtend
<1> HIDE DEF g
<1>2. /\ M(1) => hw \div 2048 = 20
      /\ M(2) => hw \div 2048 = 21
      /\ M(3) => hw \div 128 = 352
      /\ M(4) => hw \div 128 = 353
      /\ M(5) => hw \div 64 = 712
      /\ M(6) => hw \div 64 = 713
      /\ M(7) => hw \div 64 = 714
      /\ M(8) => hw \div 64 = 715
      /\ M(9) => hw \div 512 = 90
      /\ M(10) => hw \div 32 = 1459
      /\ M(11) => hw \div 64 = 744
      /\ M(12) => hw \div 64 = 745
      /\ M(13) => hw \div 64 = 747
      /\ M(14) => hw \div 512 = 94
  BY ONLY SMT, <1>1, MatchIs
<1> HIDE DEF M
<1>3. ASSUME NEW i \in 1..14, M(i) PROVE 40960 <= hw /\ hw <= 48639
  BY SMT, <1>2, <1>3
<1>4. ASSUME NEW i \in 1..14, NEW j \in 1..14, M(i), M(j) PROVE i = j
  BY SMT, <1>2, <1>4
<1>5. OneOf(g, 14, hw, 40960, 48639)
  BY ONLY SMT, <1>3, <1>4 DEF OneOf, M
<1> QED BY ONLY SMT, <1>5 DEF g

LEMMA OneMultiple ==
  ASSUME NEW hw \in Nat
  PROVE  OneOf(MultipleAndBranch, 9, hw, 48640, 65535)
<1> DEFINE g == MultipleAndBranch
           M(i) == Matches(g[i], hw)
<1>1. /\ g[1][2] = 8 /\ g[1][3] = {190}
      /\ g[2][2] = 8 /\ g[2][3] = {191}
      /\ g[3][2] = 11 /\ g[3][3] = {24}
      /\ g[4][2] = 11 /\ g[4][3] = {25}
      /\ g[5][2] = 9 /\ g[5][3] = 104..110
      /\ g[6][2] = 8 /\ g[6][3] = {223}
      /\ g[7][2] = 11 /\ g[7][3] = {28}
      /\ g[8][2] = 11 /\ g[8][3] = {29, 30, 31}
      /\ g[9][2] = 8 /\ g[9][3] = {222}
  BY ONLY SMT DEF MultipleAndBranch
<1> HIDE DEF g
<1>2. /\ M(1) => hw \div 256 = 190
      /\ M(2) => hw \div 256 = 191
      /\ M(3) => hw \div 2048 = 24
      /\ M(4) => hw \div 2048 = 25
      /\ M(5) => hw \div 512 \in 104..110
      /\ M(6) => hw \div 256 = 223
      /\ M(7) => hw \div 2048 = 28
      /\ M(8) => hw \div 2048 \in 29..31
      /\ M(9) => hw \div 256 = 222
  BY ONLY SMT, <1>1, MatchIs
<1> HIDE DEF M
<1>3. ASSUME NEW i \in 1..9, M(i) PROVE 48640 <= hw /\ hw <= 65535
  BY SMT, <1>2, <1>3
<1>4. ASSUME NEW i \in 1..9, NEW j \in 1..9, M(i), M(j) PROVE i = j
  BY SMT, <1>2, <1>4
<1>5. OneOf(g, 9, hw, 48640, 65535)
  BY ONLY SMT, <1>3, <1>4 DEF OneOf, M
<1> QED BY ONLY SMT, <1>5 DEF g

\* The chain is its six groups, one after the other.
OfLength(s, S, n) == s \in Seq(S) /\ Len(s) = n

Joins(c, s, t, m, n) ==
  /\ \A k \in 1..m : c[k] = s[k]
  /\ \A k \in (m + 1)..n : c[k] = t[k - m]

LEMMA Joined ==
  ASSUME NEW S, NEW s, NEW t, NEW m \in Nat, NEW l \in Nat, NEW n, n = m + l,
         OfLength(s, S, m), OfLength(t, S, l)
  PROVE  OfLength(s \o t, S, n) /\ Joins(s \o t, s, t, m, n)
BY DEF OfLength, Joins

\* Where each group of the chain starts.
InGroup(k, start, n, group) ==
  /\ k - start \in 1..n
  /\ Patterns[k] = group[k - start]

LEMMA ChainIs ==
  /\ Len(Patterns) = 73
  /\ \A k \in 1..73 :
       \/ InGroup(k, 0, 11, ShiftAddMoveCompare) \/ InGroup(k, 11, 16, DataProcessing)
       \/ InGroup(k, 27, 6, SpecialData)         \/ InGroup(k, 33, 17, LoadStore)
       \/ InGroup(k, 50, 14, StackAndExtend)     \/ InGroup(k, 64, 9, MultipleAndBranch)
<1> DEFINE s == ShiftAddMoveCompare
           d == DataProcessing
           p == SpecialData
           l == LoadStore
           e == StackAndExtend
           b == MultipleAndBranch
           S == {s[i] : i \in 1..11} \cup {d[i] : i \in 1..16} \cup {p[i] : i \in 1..6}
                  \cup {l[i] : i \in 1..17} \cup {e[i] : i \in 1..14} \cup {b[i] : i \in 1..9}
<1>1. /\ \A i \in 1..11 : s[i] \in S
      /\ \A i \in 1..16 : d[i] \in S
      /\ \A i \in 1..6 : p[i] \in S
      /\ \A i \in 1..17 : l[i] \in S
      /\ \A i \in 1..14 : e[i] \in S
      /\ \A i \in 1..9 : b[i] \in S
  OBVIOUS
<1> HIDE DEF S
<1>2. OfLength(s, S, 11)
  BY <1>1 DEF ShiftAddMoveCompare, OfLength
<1>3. OfLength(d, S, 16)
  BY <1>1 DEF DataProcessing, OfLength
<1>4. OfLength(p, S, 6)
  BY <1>1 DEF SpecialData, OfLength
<1>5. OfLength(l, S, 17)
  BY <1>1 DEF LoadStore, OfLength
<1>6. OfLength(e, S, 14)
  BY <1>1 DEF StackAndExtend, OfLength
<1>7. OfLength(b, S, 9)
  BY <1>1 DEF MultipleAndBranch, OfLength
<1> DEFINE sd == s \o d
           sdp == sd \o p
           sdpl == sdp \o l
           sdple == sdpl \o e
           P == sdple \o b
<1>8. Patterns = P
  BY DEF Patterns
<1> HIDE DEF s, d, p, l, e, b
<1>9. OfLength(sd, S, 27) /\ Joins(sd, s, d, 11, 27)
  BY <1>2, <1>3, Joined
<1> HIDE DEF sd
<1>10. OfLength(sdp, S, 33) /\ Joins(sdp, sd, p, 27, 33)
  BY <1>4, <1>9, Joined
<1> HIDE DEF sdp
<1>11. OfLength(sdpl, S, 50) /\ Joins(sdpl, sdp, l, 33, 50)
  BY <1>5, <1>10, Joined
<1> HIDE DEF sdpl
<1>12. OfLength(sdple, S, 64) /\ Joins(sdple, sdpl, e, 50, 64)
  BY <1>6, <1>11, Joined
<1> HIDE DEF sdple
<1>13. OfLength(P, S, 73) /\ Joins(P, sdple, b, 64, 73)
  BY <1>7, <1>12, Joined
<1> HIDE DEF P
<1>14. ASSUME NEW k \in 1..73
       PROVE  /\ k \in 1..11 => P[k] = s[k]
              /\ k \in 12..27 => P[k] = d[k - 11]
              /\ k \in 28..33 => P[k] = p[k - 27]
              /\ k \in 34..50 => P[k] = l[k - 33]
              /\ k \in 51..64 => P[k] = e[k - 50]
              /\ k \in 65..73 => P[k] = b[k - 64]
  BY <1>9, <1>10, <1>11, <1>12, <1>13 DEF Joins
<1>15. Len(Patterns) = 73
  BY <1>8, <1>13 DEF OfLength
<1>16. ASSUME NEW k \in 1..73
       PROVE  \/ InGroup(k, 0, 11, s) \/ InGroup(k, 11, 16, d) \/ InGroup(k, 27, 6, p)
              \/ InGroup(k, 33, 17, l) \/ InGroup(k, 50, 14, e) \/ InGroup(k, 64, 9, b)
  BY <1>8, <1>14 DEF InGroup
<1> QED BY <1>15, <1>16 DEF s, d, p, l, e, b

\* At most one pattern of the chain matches a halfword.
LEMMA OneMatch ==
  ASSUME NEW hw \in Nat, NEW i \in 1..73, NEW j \in 1..73,
         Matches(Patterns[i], hw), Matches(Patterns[j], hw)
  PROVE  i = j
<1> DEFINE In(k, start, n, group, lo, hi) == InGroup(k, start, n, group) /\ OneOf(group, n, hw, lo, hi)
           s(k) == In(k, 0, 11, ShiftAddMoveCompare, 0, 16383)
           d(k) == In(k, 11, 16, DataProcessing, 16384, 17407)
           p(k) == In(k, 27, 6, SpecialData, 17408, 18431)
           l(k) == In(k, 33, 17, LoadStore, 18432, 40959)
           e(k) == In(k, 50, 14, StackAndExtend, 40960, 48639)
           b(k) == In(k, 64, 9, MultipleAndBranch, 48640, 65535)
<1>1. \A k \in {i, j} : s(k) \/ d(k) \/ p(k) \/ l(k) \/ e(k) \/ b(k)
  BY ChainIs, OneShift, OneData, OneSpecial, OneLoad, OneStack, OneMultiple
<1>2. ASSUME NEW start \in Nat, NEW n \in Nat, NEW group, NEW lo \in Nat, NEW hi \in Nat,
             NEW k \in {i, j}, In(k, start, n, group, lo, hi)
      PROVE  lo <= hw /\ hw <= hi
  BY <1>2 DEF InGroup, OneOf
<1>3. ASSUME NEW start \in Nat, NEW n \in Nat, NEW group, NEW lo \in Nat, NEW hi \in Nat,
             In(i, start, n, group, lo, hi), In(j, start, n, group, lo, hi)
      PROVE  i = j
  <2>1. i - start = j - start
    BY <1>3 DEF InGroup, OneOf
  <2> QED BY <2>1
<1> HIDE DEF In
<1>4. ASSUME NEW k \in {i, j}
      PROVE  /\ s(k) => 0 <= hw /\ hw <= 16383
             /\ d(k) => 16384 <= hw /\ hw <= 17407
             /\ p(k) => 17408 <= hw /\ hw <= 18431
             /\ l(k) => 18432 <= hw /\ hw <= 40959
             /\ e(k) => 40960 <= hw /\ hw <= 48639
             /\ b(k) => 48640 <= hw /\ hw <= 65535
  BY SMT, <1>2
<1>5. \/ (s(i) /\ s(j)) \/ (d(i) /\ d(j)) \/ (p(i) /\ p(j))
      \/ (l(i) /\ l(j)) \/ (e(i) /\ e(j)) \/ (b(i) /\ b(j))
  <2> HIDE DEF s, d, p, l, e, b
  <2> QED BY SMT, <1>1, <1>4
<1> QED BY SMT, <1>3, <1>5

\* Only one pattern is for wide instructions, and none is named after one.
LEMMA NamesAre ==
  ASSUME NEW k \in 1..73
  PROVE  /\ Patterns[k][1] = "wide" <=> k = 72
         /\ Patterns[k][1] \notin OfTwoHalfwords
         /\ Patterns[72] = <<"wide", 11, {29, 30, 31}>>
<1> DEFINE N(name) == name \notin OfTwoHalfwords \cup {"invalid", "wide"}
<1>1. \A i \in 1..11 : N(ShiftAddMoveCompare[i][1])
  BY DEF ShiftAddMoveCompare, OfTwoHalfwords
<1>2. \A i \in 1..16 : N(DataProcessing[i][1])
  BY DEF DataProcessing, OfTwoHalfwords
<1>3. \A i \in 1..6 : N(SpecialData[i][1])
  BY DEF SpecialData, OfTwoHalfwords
<1>4. \A i \in 1..17 : N(LoadStore[i][1])
  BY DEF LoadStore, OfTwoHalfwords
<1>5. \A i \in 1..14 : N(StackAndExtend[i][1])
  BY DEF StackAndExtend, OfTwoHalfwords
<1>6. /\ \A i \in 1..9 : i # 8 => N(MultipleAndBranch[i][1])
      /\ MultipleAndBranch[8] = <<"wide", 11, {29, 30, 31}>>
  BY DEF MultipleAndBranch, OfTwoHalfwords
<1> HIDE DEF N
<1>7. ASSUME k # 72 PROVE N(Patterns[k][1])
  <2>1. CASE InGroup(k, 0, 11, ShiftAddMoveCompare)
    BY <2>1, <1>1 DEF InGroup
  <2>2. CASE InGroup(k, 11, 16, DataProcessing)
    BY <2>2, <1>2 DEF InGroup
  <2>3. CASE InGroup(k, 27, 6, SpecialData)
    BY <2>3, <1>3 DEF InGroup
  <2>4. CASE InGroup(k, 33, 17, LoadStore)
    BY <2>4, <1>4 DEF InGroup
  <2>5. CASE InGroup(k, 50, 14, StackAndExtend)
    BY <2>5, <1>5 DEF InGroup
  <2>6. CASE InGroup(k, 64, 9, MultipleAndBranch)
    <3>1. k - 64 \in 1..9 /\ k - 64 # 8 /\ Patterns[k] = MultipleAndBranch[k - 64]
      BY <1>7, <2>6 DEF InGroup
    <3> QED BY <3>1, <1>6
  <2> QED BY ChainIs, <2>1, <2>2, <2>3, <2>4, <2>5, <2>6
<1>8. Patterns[72] = <<"wide", 11, {29, 30, 31}>>
  <2>1. \/ InGroup(72, 0, 11, ShiftAddMoveCompare) \/ InGroup(72, 11, 16, DataProcessing)
        \/ InGroup(72, 27, 6, SpecialData)         \/ InGroup(72, 33, 17, LoadStore)
        \/ InGroup(72, 50, 14, StackAndExtend)     \/ InGroup(72, 64, 9, MultipleAndBranch)
    BY ChainIs
  <2>2. InGroup(72, 64, 9, MultipleAndBranch)
    BY <2>1 DEF InGroup
  <2> QED BY <2>2, <1>6 DEF InGroup
<1>9. Patterns[72][1] = "wide" /\ "wide" \notin OfTwoHalfwords
  BY <1>8 DEF OfTwoHalfwords
<1>10. \A name : N(name) => name # "wide" /\ name \notin OfTwoHalfwords
  BY DEF N
<1>11. CASE k = 72
  BY <1>8, <1>9, <1>11
<1>12. CASE k # 72
  BY <1>7, <1>8, <1>10, <1>12
<1> QED BY <1>11, <1>12

LEMMA WideIs == \A hw \in Nat : Matches(Patterns[72], hw) <=> hw \div 2048 \in {29, 30, 31}
<1>1. 72 \in 1..73
  OBVIOUS
<1>2. Patterns[72][2] = 11 /\ Patterns[72][3] = {29, 30, 31}
  BY <1>1, NamesAre
<1> QED BY <1>2, MatchIs

\* The order of the tests does not matter: the pattern that matches is found.
LEMMA FirstIs ==
  ASSUME NEW hw \in Nat
  PROVE  /\ \A k \in 1..73 : Matches(Patterns[k], hw) => FirstMatch(hw) = Patterns[k][1]
         /\ (\A k \in 1..73 : ~Matches(Patterns[k], hw)) => FirstMatch(hw) = "invalid"
<1> DEFINE I == {i \in 1..Len(Patterns) : Matches(Patterns[i], hw)}
           k == IF I # {} THEN Min(I) ELSE 0
<1>1. FirstMatch(hw) = IF k = 0 THEN "invalid" ELSE Patterns[k][1]
  BY DEF FirstMatch, SelectInSeq
<1>2. I = {i \in 1..73 : Matches(Patterns[i], hw)}
  BY ChainIs
<1> HIDE DEF I
<1>3. ASSUME NEW j \in 1..73, Matches(Patterns[j], hw)
      PROVE  k = j
  <2>1. I = {j}
    BY <1>2, <1>3, OneMatch
  <2>2. Min(I) = j
    BY <2>1, <1>3 DEF Min
  <2> QED BY <2>1, <2>2
<1>4. (\A j \in 1..73 : ~Matches(Patterns[j], hw)) => k = 0
  BY <1>2
<1> HIDE DEF k
<1> QED BY <1>1, <1>3, <1>4

\* A halfword by its five upper bits.
LEMMA UpperBits ==
  ASSUME NEW hw \in Nat, hw <= 65535
  PROVE  /\ Field(hw, 11, 5) = 30 <=> hw \div 2048 = 30
         /\ (Field(hw, 11, 2) = 2 /\ hw \div 2048 \in {29, 30, 31}) => hw \div 2048 = 30
         /\ Field(hw, 4, 12) = 3967 => hw \div 2048 = 30
<1> DEFINE q == hw \div 2048
<1>1. q \in 0..31
  BY SMT
<1> HIDE DEF q
<1>2. (q % 32 = 30 <=> q = 30) /\ ((q % 4 = 2 /\ q \in {29, 30, 31}) => q = 30)
  BY SMT, <1>1
<1>3. (hw \div 16) % 4096 = 3967 => q = 30
  <2>1. (hw \div 16) % 4096 = 3967 => hw \div 16 = 3967
    BY SMT
  <2>2. hw \div 16 = 3967 => q = 30
    BY SMT DEF q
  <2> QED BY <2>1, <2>2
<1>4. Field(hw, 11, 5) = q % 32 /\ Field(hw, 11, 2) = q % 4
  BY ONLY SMT, DecoderPowers, SmallPowers DEF Field, q
<1>5. Field(hw, 4, 12) = (hw \div 16) % 4096
  BY ONLY SMT, SmallPowers DEF Field
<1> QED BY ONLY SMT, <1>2, <1>3, <1>4, <1>5 DEF q

\* What the first halfword alone says of the kind.
LEMMA WideFirst ==
  ASSUME NEW hw \in Nat
  PROVE  /\ FirstMatch(hw) = "wide" <=> hw \div 2048 \in {29, 30, 31}
         /\ FirstMatch(hw) \notin OfTwoHalfwords
<1>1. CASE \A k \in 1..73 : ~Matches(Patterns[k], hw)
  <2>1. FirstMatch(hw) = "invalid"
    BY <1>1, FirstIs
  <2>2. "invalid" \notin OfTwoHalfwords
    BY DEF OfTwoHalfwords
  <2>3. ~Matches(Patterns[72], hw)
    BY <1>1
  <2> QED BY <2>1, <2>2, <2>3, WideIs
<1>2. ASSUME NEW k \in 1..73, Matches(Patterns[k], hw)
      PROVE  /\ FirstMatch(hw) = "wide" <=> hw \div 2048 \in {29, 30, 31}
             /\ FirstMatch(hw) \notin OfTwoHalfwords
  <2>1. FirstMatch(hw) = Patterns[k][1]
    BY <1>2, FirstIs
  <2>2. FirstMatch(hw) = "wide" <=> k = 72
    BY <2>1, NamesAre
  <2>3. FirstMatch(hw) \notin OfTwoHalfwords
    <3>1. Patterns[k][1] \notin OfTwoHalfwords
      BY NamesAre
    <3> QED BY <2>1, <3>1
  <2>4. Matches(Patterns[72], hw) => k = 72
    <3>1. 72 \in 1..73
      OBVIOUS
    <3> QED BY <1>2, <3>1, OneMatch
  <2>5. Matches(Patterns[72], hw) <=> hw \div 2048 \in {29, 30, 31}
    BY WideIs
  <2> QED BY <1>2, <2>2, <2>3, <2>4, <2>5
<1> QED BY <1>1, <1>2

\* An instruction is as long as what it was decoded from.
LEMMA LengthIs ==
  ASSUME NEW pair \in Halfword \X Halfword
  PROVE  /\ Kind(pair) \in OfTwoHalfwords => Size(pair) = 4
         /\ Size(pair) = 4 => Kind(pair) \in OfTwoHalfwords \cup {"invalid"}
<1> DEFINE hw == pair[1]
           first == FirstMatch(hw)
           q == hw \div 2048
<1>1. hw \in Nat /\ hw <= 65535
  BY HalfwordIs
<1>2. first = "wide" <=> q \in {29, 30, 31}
  BY <1>1, WideFirst
<1>3. first \notin OfTwoHalfwords
  BY <1>1, WideFirst
<1>4. Size(pair) = 4 <=> q = 30
  BY <1>1, UpperBits, SMT DEF Size
<1>5. HintKind(hw) \notin OfTwoHalfwords
  <2> DEFINE n == Field(hw, 0, 4)
  <2>1. n \in Nat
    BY <1>1, SmallPowers, SMT DEF Field
  <2> HIDE DEF n
  <2>2. n <= 4 => <<"nop", "yield", "wfe", "wfi", "sev">>[n + 1] \notin OfTwoHalfwords
    <3>1. n <= 4 => n = 0 \/ n = 1 \/ n = 2 \/ n = 3 \/ n = 4
      BY <2>1
    <3> QED BY <3>1 DEF OfTwoHalfwords
  <2>3. "undefined_hint" \notin OfTwoHalfwords
    BY DEF OfTwoHalfwords
  <2> QED BY <2>2, <2>3 DEF HintKind, n
<1> DEFINE udfw == Field(hw, 4, 12) = 3967 /\ Field(pair[2], 12, 4) = 10
           wide == IsBranchOrMiscControl(pair)
           kind == WideKind(pair)
<1>6. kind \in {"udfw", "bl_imm", "invalid", MiscControlKind(pair)}
  BY SMT DEF WideKind
<1>7. kind # "invalid" => udfw \/ wide
  <2>1. CASE ~udfw /\ ~wide
    BY <2>1 DEF WideKind
  <2> QED BY <2>1
<1>8. kind \in OfTwoHalfwords \cup {"invalid"}
  <2>1. MiscControlKind(pair) \in OfTwoHalfwords \cup {"invalid"}
    BY DEF MiscControlKind, OfTwoHalfwords
  <2>2. "udfw" \in OfTwoHalfwords /\ "bl_imm" \in OfTwoHalfwords
    BY DEF OfTwoHalfwords
  <2> QED BY <1>6, <2>1, <2>2
<1>9. (kind # "invalid" /\ first = "wide") => q = 30
  <2>1. wide => Field(hw, 11, 2) = 2
    BY DEF IsBranchOrMiscControl
  <2> QED BY <1>1, <1>2, <1>7, <2>1, UpperBits, SMT
<1>10. "invalid" \notin OfTwoHalfwords
  BY DEF OfTwoHalfwords
<1>11. CASE first = "wide"
  <2>1. Kind(pair) = WideKind(pair)
    BY <1>11 DEF Kind
  <2> QED BY <1>4, <1>8, <1>9, <1>10, <1>11, <2>1
<1>12. CASE first # "wide"
  <2>1. Kind(pair) \in {"movs", HintKind(hw), first}
    BY <1>12 DEF Kind
  <2>2. Kind(pair) \notin OfTwoHalfwords
    <3>1. "movs" \notin OfTwoHalfwords
      BY DEF OfTwoHalfwords
    <3> QED BY <1>3, <1>5, <2>1, <3>1
  <2>3. q # 30
    BY <1>2, <1>12
  <2> QED BY <1>4, <2>2, <2>3
<1> QED BY <1>11, <1>12

\* What one step of one instruction left, and from what.
StepInv ==
  stage = "stepped" =>
    /\ last.pair \in Halfword \X Halfword
    /\ \E o \in Step(before, last.pair) : machine = o.machine /\ last.taken = o.taken

LEMMA StepStep == ImageInv /\ StepInv /\ [Next]_vars => StepInv'
<1> SUFFICES ASSUME ImageInv, StepInv, [Next]_vars PROVE StepInv'
  OBVIOUS
<1>1. ASSUME NEW s \in Setups(image), NEW pair \in Instructions(s), TryInstruction(s, pair)
      PROVE  StepInv'
  <2>1. pair \in Halfword \X Halfword
    BY InstructionsAssumption DEF ImageInv
  <2>2. PICK o \in Step(Prepared(s), pair) : Stepped(Prepared(s), o, pair)
    BY <1>1 DEF TryInstruction
  <2>3. before' = Prepared(s)
    BY <1>1 DEF TryInstruction
  <2>4. machine' = o.machine /\ last'.taken = o.taken /\ last'.pair = pair
    BY <2>2 DEF Stepped
  <2> HIDE DEF Step
  <2>5. (o \in Step(before, last.pair))'
    BY <2>2, <2>3, <2>4
  <2> QED BY <2>1, <2>4, <2>5 DEF StepInv
<1>2. CASE stage' # "stepped"
  BY <1>2 DEF StepInv
<1>3. CASE UNCHANGED vars
  BY <1>3 DEF vars, StepInv
<1> QED
  BY <1>1, <1>2, <1>3 DEF Next, LoadImage, Reset, Startup, StartProgram, Raise, RunStep

(***************************************************************************)
(* instruction_decoder: whatever halfword is fetched, no two tests of the  *)
(* if-else chain pass, and an instruction is executed with the length that *)
(* it was decoded from, for all 65536 first and 65536 second halfwords.    *)
(***************************************************************************)
THEOREM EncodingsAreInstructions == Spec => []EveryEncodingIsOneInstruction
<1>1. StepInv => EveryEncodingIsOneInstruction
  <2> SUFFICES ASSUME StepInv, stage = "stepped" PROVE EveryEncodingIsOneInstruction
    BY DEF EveryEncodingIsOneInstruction
  <2> DEFINE hw == last.pair[1]
             I == {k \in DOMAIN Patterns : Matches(Patterns[k], hw)}
  <2>1. last.pair \in Halfword \X Halfword /\ hw \in Nat
    <3>1. last.pair \in Halfword \X Halfword
      BY DEF StepInv
    <3>2. hw \in Halfword
      BY <3>1
    <3> QED BY <3>1, <3>2, HalfwordIs
  <2>2. DOMAIN Patterns = 1..73
    BY ChainIs
  <2>3. Cardinality(I) <= 1
    <3>1. CASE I = {}
      BY <3>1, FS_EmptySet
    <3>2. CASE I # {}
      <4>1. PICK k \in 1..73 : k \in I
        BY <3>2, <2>2
      <4>2. \A j \in I : j \in 1..73 /\ Matches(Patterns[j], hw)
        BY <2>2
      <4> HIDE DEF I, hw
      <4>3. \A j \in I : j = k
        BY <2>1, <4>1, <4>2, OneMatch
      <4>4. I = {k}
        BY <4>1, <4>3
      <4> QED BY <4>4, FS_Singleton
    <3> QED BY <3>1, <3>2
  <2>4. /\ Kind(last.pair) \in OfTwoHalfwords => Size(last.pair) = 4
        /\ Size(last.pair) = 4 => Kind(last.pair) \in OfTwoHalfwords \cup {"invalid"}
    BY <2>1, LengthIs
  <2> QED BY <2>3, <2>4 DEF EveryEncodingIsOneInstruction
<1>2. Init => ImageInv /\ StepInv
  BY ImageInit DEF Init, StepInv
<1> QED BY <1>1, <1>2, ImageStep, StepStep, PTL DEF Spec

-----------------------------------------------------------------------------
(* What an instruction leaves alone *)

\* Of m, x has everything but what the fields hold.
OnlyChanges(x, m, fields) ==
  DOMAIN x = DOMAIN m /\ \A f \in DOMAIN m \ fields : x[f] = m[f]

LEMMA ChangesAdd ==
  ASSUME NEW x, NEW y, NEW m, NEW S, NEW T, NEW U, OnlyChanges(x, y, S), OnlyChanges(y, m, T),
         S \subseteq U, T \subseteq U
  PROVE  OnlyChanges(x, m, U)
BY DEF OnlyChanges

LEMMA ChangesMore ==
  ASSUME NEW x, NEW m, NEW S, NEW U, OnlyChanges(x, m, S), S \subseteq U
  PROVE  OnlyChanges(x, m, U)
BY DEF OnlyChanges

LEMMA HardFaultChanges ==
  ASSUME NEW m
  PROVE  OnlyChanges(HardFault(m), m, {"pending"})
BY DEF OnlyChanges, HardFault

\* Where results go.
Results == {"r", "main", "process", "lr"}

LEMMA PutChanges ==
  ASSUME NEW m, NEW i \in 0..16, i # 15, NEW v
  PROVE  /\ OnlyChanges(Put(m, i, v), m, Results)
         /\ i < 13 => OnlyChanges(Put(m, i, v), m, {"r"})
<1>1. CASE i < 13
  <2>1. Put(m, i, v) = [m EXCEPT !.r[i] = Wrap(v)]
    BY <1>1 DEF Put, SP, LR, PC, Discarded
  <2>2. OnlyChanges(Put(m, i, v), m, {"r"})
    BY <2>1 DEF OnlyChanges
  <2> QED BY <2>2, ChangesMore DEF Results
<1>2. CASE i = 13
  <2>1. Put(m, i, v) \in {[m EXCEPT !.main = Wrap(v)], [m EXCEPT !.process = Wrap(v)]}
    BY <1>2 DEF Put, SP, LR, PC, Discarded, WithSp
  <2>2. /\ OnlyChanges([m EXCEPT !.main = Wrap(v)], m, Results)
        /\ OnlyChanges([m EXCEPT !.process = Wrap(v)], m, Results)
    BY DEF OnlyChanges, Results
  <2> QED BY <1>2, <2>1, <2>2
<1>3. CASE i = 14
  <2>1. Put(m, i, v) = [m EXCEPT !.lr = Wrap(v)]
    BY <1>3 DEF Put, SP, LR, PC, Discarded
  <2>2. OnlyChanges(Put(m, i, v), m, Results)
    BY <2>1 DEF OnlyChanges, Results
  <2> QED BY <1>3, <2>2
<1>4. CASE i = 16
  BY <1>4 DEF OnlyChanges, Put, SP, LR, PC, Discarded, Results
<1> QED BY <1>1, <1>2, <1>3, <1>4

LEMMA StoredChanges ==
  ASSUME NEW m, NEW a, NEW size, NEW v
  PROVE  OnlyChanges(Stored(m, a, size, v), m, {"mem", "pending"})
BY DEF OnlyChanges, Stored, HardFault

LEMMA StoredWordsChanges ==
  ASSUME NEW m, NEW a, NEW words, Len(words) \in Nat
  PROVE  OnlyChanges(StoredWords(m, a, words), m, {"mem", "pending"})
<1>1. PICK after :
        /\ after[0] = m /\ after[Len(words)] = StoredWords(m, a, words)
        /\ \A k \in 1..Len(words) :
             after[k] = Stored(after[k - 1], Wrap(a + 4 * (k - 1)), 4, words[k])
  <2>1. Len(words) \in Nat
    OBVIOUS
  <2> QED BY <2>1, EachStored
<1> DEFINE T == {k \in 0..Len(words) : OnlyChanges(after[k], m, {"mem", "pending"})}
<1>2. 0 \in T
  BY <1>1 DEF OnlyChanges
<1>3. ASSUME NEW k \in 1..Len(words), k - 1 \in T PROVE k \in T
  <2>1. after[k] = Stored(after[k - 1], Wrap(a + 4 * (k - 1)), 4, words[k])
    BY <1>1
  <2>2. OnlyChanges(after[k], after[k - 1], {"mem", "pending"})
    BY <2>1, StoredChanges
  <2> QED BY <1>3, <2>2, ChangesAdd
<1> HIDE DEF T
<1>4. \A k \in 0..Len(words) : k \in T
  <2>1. \A k \in 1..Len(words) : k - 1 \in T => k \in T
    BY <1>3
  <2> QED BY <1>2, <2>1, Climbing
<1> QED BY <1>1, <1>4 DEF T

LEMMA LoadedChanges ==
  ASSUME NEW m, NEW got, NEW i \in 0..7, NEW asks
  PROVE  OnlyChanges(Loaded(m, got, i, asks), m, {"r", "pending"})
<1> DEFINE asked == IF got.ok THEN m ELSE HardFault(m)
<1>1. OnlyChanges(asked, m, {"r", "pending"})
  BY DEF OnlyChanges, HardFault
<1>2. OnlyChanges(Put(asked, i, got.value), asked, {"r"})
  BY PutChanges
<1>3. Loaded(m, got, i, asks) \in {asked, Put(asked, i, got.value)}
  BY DEF Loaded
<1> HIDE DEF asked
<1>4. OnlyChanges(Put(asked, i, got.value), m, {"r", "pending"})
  BY <1>1, <1>2, ChangesAdd
<1> QED BY <1>1, <1>3, <1>4

\* The machine after each of the registers that a transfer loads.
LEMMA EachLoaded ==
  ASSUME NEW m, NEW a, NEW list, NEW asks, Len(list) \in Nat
  PROVE  \E after :
           /\ after[0] = m /\ after[Len(list)] = LoadedWords(m, a, list, asks)
           /\ \A k \in 1..Len(list) :
                after[k] = Loaded(after[k - 1], Read(m.mem, Wrap(a + 4 * (k - 1)), 4), list[k],
                                  asks)
<1> DEFINE next(x, k) == Loaded(x, Read(m.mem, Wrap(a + 4 * (k - 1)), 4), list[k], asks)
           Solves(f, n) == f = [k \in 0..n |-> IF k = 0 THEN m ELSE next(f[k - 1], k)]
           after == CHOOSE f : Solves(f, Len(list))
           T == {n \in 0..Len(list) : \E f : Solves(f, n)}
<1>1. LoadedWords(m, a, list, asks) = after[Len(list)]
  BY DEF LoadedWords
<1> HIDE DEF next
<1>2. 0 \in T
  <2> DEFINE g == [k \in 0..0 |-> m]
  <2>1. g = [k \in 0..0 |-> g[k]] /\ \A k \in 0..0 : k = 0 /\ g[k] = m
    OBVIOUS
  <2> HIDE DEF g
  <2>2. Solves(g, 0)
    BY <2>1
  <2> QED BY <2>2
<1>3. ASSUME NEW n \in 1..Len(list), n - 1 \in T PROVE n \in T
  <2>1. PICK f : Solves(f, n - 1)
    BY <1>3
  <2> DEFINE g == [k \in 0..n |-> IF k = n THEN next(f[n - 1], n) ELSE f[k]]
  <2>2. \A k \in 0..(n - 1) : f[k] = IF k = 0 THEN m ELSE next(f[k - 1], k)
    BY <2>1
  <2>3. \A k \in 0..n : g[k] = IF k = 0 THEN m ELSE next(g[k - 1], k)
    <3> SUFFICES ASSUME NEW k \in 0..n PROVE g[k] = IF k = 0 THEN m ELSE next(g[k - 1], k)
      OBVIOUS
    <3>1. CASE k = n
      BY <3>1
    <3>2. CASE k # n
      <4>1. k \in 0..(n - 1) /\ (k # 0 => k - 1 \in 0..(n - 1))
        BY <3>2
      <4> QED BY <2>2, <3>2, <4>1
    <3> QED BY <3>1, <3>2
  <2>4. g = [k \in 0..n |-> g[k]]
    OBVIOUS
  <2> HIDE DEF g
  <2>5. Solves(g, n)
    BY <2>3, <2>4
  <2> QED BY <2>5
<1> HIDE DEF T
<1>4. Len(list) \in T
  <2>1. \A k \in 1..Len(list) : k - 1 \in T => k \in T
    BY <1>3
  <2>2. \A k \in 0..Len(list) : k \in T
    BY <1>2, <2>1, Climbing
  <2> QED BY <2>2
<1>5. Solves(after, Len(list))
  <2> HIDE DEF Solves
  <2> QED BY <1>4 DEF after, T
<1> HIDE DEF after
<1>6. after[0] = m /\ \A k \in 1..Len(list) : after[k] = next(after[k - 1], k)
  BY <1>5
<1> QED BY <1>1, <1>6 DEF next

LEMMA LoadedWordsChanges ==
  ASSUME NEW m, NEW a, NEW list \in Seq(0..7), NEW asks
  PROVE  OnlyChanges(LoadedWords(m, a, list, asks), m, {"r", "pending"})
<1> Len(list) \in Nat
  OBVIOUS
<1>1. PICK after :
        /\ after[0] = m /\ after[Len(list)] = LoadedWords(m, a, list, asks)
        /\ \A k \in 1..Len(list) :
             after[k] = Loaded(after[k - 1], Read(m.mem, Wrap(a + 4 * (k - 1)), 4), list[k], asks)
  BY EachLoaded
<1> DEFINE T == {k \in 0..Len(list) : OnlyChanges(after[k], m, {"r", "pending"})}
<1>2. 0 \in T
  BY <1>1 DEF OnlyChanges
<1>3. ASSUME NEW k \in 1..Len(list), k - 1 \in T PROVE k \in T
  <2>1. after[k] = Loaded(after[k - 1], Read(m.mem, Wrap(a + 4 * (k - 1)), 4), list[k], asks)
    BY <1>1
  <2>2. list[k] \in 0..7
    OBVIOUS
  <2>3. OnlyChanges(after[k], after[k - 1], {"r", "pending"})
    BY <2>1, <2>2, LoadedChanges
  <2> QED BY <1>3, <2>3, ChangesAdd
<1> HIDE DEF T
<1>4. \A k \in 0..Len(list) : k \in T
  <2>1. \A k \in 1..Len(list) : k - 1 \in T => k \in T
    BY <1>3
  <2> QED BY <1>2, <2>1, Climbing
<1> QED BY <1>1, <1>4 DEF T

\* The list after each of the bits that it is made of.
LEMMA EachListed ==
  ASSUME NEW hw
  PROVE  \E below :
           /\ below[0] = <<>> /\ below[8] = LowRegisters(hw)
           /\ \A r \in 1..8 :
                below[r] = IF BitOf(hw, r - 1) THEN Append(below[r - 1], r - 1) ELSE below[r - 1]
<1> DEFINE next(s, r) == IF BitOf(hw, r - 1) THEN Append(s, r - 1) ELSE s
           Solves(f, n) == f = [k \in 0..n |-> IF k = 0 THEN <<>> ELSE next(f[k - 1], k)]
           below == CHOOSE f : Solves(f, 8)
           T == {n \in 0..8 : \E f : Solves(f, n)}
<1>1. LowRegisters(hw) = below[8]
  BY DEF LowRegisters
<1> HIDE DEF next
<1>2. 0 \in T
  <2> DEFINE g == [k \in 0..0 |-> <<>>]
  <2>1. g = [k \in 0..0 |-> g[k]] /\ \A k \in 0..0 : k = 0 /\ g[k] = <<>>
    OBVIOUS
  <2> HIDE DEF g
  <2>2. Solves(g, 0)
    BY <2>1
  <2> QED BY <2>2
<1>3. ASSUME NEW n \in 1..8, n - 1 \in T PROVE n \in T
  <2>1. PICK f : Solves(f, n - 1)
    BY <1>3
  <2> DEFINE g == [k \in 0..n |-> IF k = n THEN next(f[n - 1], n) ELSE f[k]]
  <2>2. \A k \in 0..(n - 1) : f[k] = IF k = 0 THEN <<>> ELSE next(f[k - 1], k)
    BY <2>1
  <2>3. \A k \in 0..n : g[k] = IF k = 0 THEN <<>> ELSE next(g[k - 1], k)
    <3> SUFFICES ASSUME NEW k \in 0..n PROVE g[k] = IF k = 0 THEN <<>> ELSE next(g[k - 1], k)
      OBVIOUS
    <3>1. CASE k = n
      BY <3>1
    <3>2. CASE k # n
      <4>1. k \in 0..(n - 1) /\ (k # 0 => k - 1 \in 0..(n - 1))
        BY <3>2
      <4> QED BY <2>2, <3>2, <4>1
    <3> QED BY <3>1, <3>2
  <2>4. g = [k \in 0..n |-> g[k]]
    OBVIOUS
  <2> HIDE DEF g
  <2>5. Solves(g, n)
    BY <2>3, <2>4
  <2> QED BY <2>5
<1> HIDE DEF T
<1>4. 8 \in T
  <2>1. \A k \in 1..8 : k - 1 \in T => k \in T
    BY <1>3
  <2>2. \A k \in 0..8 : k \in T
    BY <1>2, <2>1, Climbing
  <2> QED BY <2>2
<1>5. Solves(below, 8)
  <2> HIDE DEF Solves
  <2> QED BY <1>4 DEF below, T
<1> HIDE DEF below
<1>6. below[0] = <<>> /\ \A k \in 1..8 : below[k] = next(below[k - 1], k)
  BY <1>5
<1> QED BY <1>1, <1>6 DEF next

\* Different registers below r, whose bits are set.
IsList(s, r, hw) ==
  /\ s \in Seq(0..7) /\ Len(s) <= r
  /\ \A k \in 1..Len(s) : s[k] < r /\ BitOf(hw, s[k])
  /\ \A j, k \in 1..Len(s) : j < k => s[j] < s[k]

LEMMA ListIs ==
  ASSUME NEW hw
  PROVE  IsList(LowRegisters(hw), 8, hw)
<1>1. PICK below :
        /\ below[0] = <<>> /\ below[8] = LowRegisters(hw)
        /\ \A r \in 1..8 :
             below[r] = IF BitOf(hw, r - 1) THEN Append(below[r - 1], r - 1) ELSE below[r - 1]
  BY EachListed
<1> DEFINE T == {r \in 0..8 : IsList(below[r], r, hw)}
<1>2. 0 \in T
  <2>1. Len(<<>>) = 0 /\ <<>> \in Seq(0..7) /\ 1..0 = {}
    OBVIOUS
  <2>2. IsList(<<>>, 0, hw)
    <3>1. Len(<<>>) <= 0 /\ \A k \in 1..Len(<<>>) : FALSE
      BY <2>1
    <3> QED BY <2>1, <3>1, Zenon DEF IsList
  <2> QED BY <1>1, <2>2
<1>3. ASSUME NEW r \in 1..8, r - 1 \in T PROVE r \in T
  <2> DEFINE s == below[r - 1]
             t == below[r]
  <2>1. /\ s \in Seq(0..7) /\ Len(s) \in Nat /\ Len(s) <= r - 1
        /\ \A k \in 1..Len(s) : s[k] \in 0..7 /\ s[k] < r - 1 /\ BitOf(hw, s[k])
        /\ \A j, k \in 1..Len(s) : j < k => s[j] < s[k]
    BY <1>3 DEF IsList
  <2>2. t = IF BitOf(hw, r - 1) THEN Append(s, r - 1) ELSE s
    BY <1>1
  <2> HIDE DEF s, t
  <2>3. CASE BitOf(hw, r - 1)
    <3>1. r - 1 \in 0..7 /\ t = Append(s, r - 1)
      BY <2>2, <2>3
    <3>2. /\ t \in Seq(0..7) /\ Len(t) = Len(s) + 1 /\ t[Len(s) + 1] = r - 1
          /\ \A k \in 1..Len(s) : t[k] = s[k]
      BY <2>1, <3>1
    <3>3. \A k \in 1..Len(t) : k \in 1..Len(s) \/ k = Len(s) + 1
      BY <2>1, <3>2
    <3>4. \A k \in 1..Len(t) : t[k] < r /\ BitOf(hw, t[k])
      BY <2>1, <2>3, <3>2, <3>3
    <3>5. \A j, k \in 1..Len(t) : j < k => t[j] < t[k]
      <4> SUFFICES ASSUME NEW j \in 1..Len(t), NEW k \in 1..Len(t), j < k PROVE t[j] < t[k]
        OBVIOUS
      <4>1. j \in 1..Len(s)
        BY <2>1, <3>2
      <4> QED BY <2>1, <3>2, <3>3, <4>1
    <3>6. Len(t) <= r
      BY <2>1, <3>2
    <3> QED BY <3>2, <3>4, <3>5, <3>6 DEF IsList, t
  <2>4. CASE ~BitOf(hw, r - 1)
    <3>1. t = s
      BY <2>2, <2>4
    <3>2. IsList(t, r, hw)
      BY <2>1, <3>1 DEF IsList
    <3> QED BY <3>2 DEF t
  <2> QED BY <2>3, <2>4
<1> HIDE DEF T
<1>4. \A r \in 0..8 : r \in T
  <2>1. \A r \in 1..8 : r - 1 \in T => r \in T
    BY <1>3
  <2> QED BY <1>2, <2>1, Climbing
<1>5. IsList(below[8], 8, hw)
  BY <1>4 DEF T
<1> QED BY <1>1, <1>5

-----------------------------------------------------------------------------
(* Instructions that are no branches *)

\* Their fields.
LEMMA FieldIs ==
  ASSUME NEW hw \in Nat, NEW o \in 0..16, NEW n \in 0..16
  PROVE  Field(hw, o, n) \in Nat /\ Field(hw, o, n) < 2^n
<1>1. 2^o \in Nat \ {0} /\ 2^n \in Nat \ {0}
  <2>1. WordBits \in Nat /\ WordBits >= 16
    BY SmallPowers
  <2>2. \A k \in 0..16 : 2^k \in Nat \ {0}
    <3> SUFFICES ASSUME NEW k \in 0..16 PROVE 2^k \in Nat \ {0}
      OBVIOUS
    <3>1. k \in 0..WordBits /\ 0 \in 0..WordBits /\ k + 0 <= WordBits
      BY <2>1
    <3> QED BY <3>1, PowersAssumption
  <2> QED BY <2>2
<1> DEFINE a == 2^o
           b == 2^n
<1> HIDE DEF a, b
<1>2. a \in Nat \ {0} /\ b \in Nat \ {0}
  BY <1>1 DEF a, b
<1>3. (hw \div a) % b \in Nat /\ (hw \div a) % b < b
  BY <1>2
<1> QED BY <1>3 DEF Field, a, b

LEMMA RegisterFields ==
  ASSUME NEW hw \in Nat
  PROVE  Rd(hw) \in 0..7 /\ Rn(hw) \in 0..7 /\ Rm(hw) \in 0..7 /\ Rd8(hw) \in 0..7
<1>1. \A o \in 0..16 : Field(hw, o, 3) \in Nat /\ Field(hw, o, 3) < 8
  <2>1. \A o \in 0..16 : Field(hw, o, 3) \in Nat /\ Field(hw, o, 3) < 2^3
    <3>1. 3 \in 0..16
      OBVIOUS
    <3> QED BY <3>1, FieldIs
  <2> QED BY <2>1, SmallPowers
<1>2. /\ Field(hw, 0, 3) \in 0..7 /\ Field(hw, 3, 3) \in 0..7 /\ Field(hw, 6, 3) \in 0..7
      /\ Field(hw, 8, 3) \in 0..7
  BY <1>1
<1> QED BY <1>2 DEF Rd, Rn, Rm, Rd8

\* Fields of the machine that say where it goes on.
Way == {"pc", "branched"}

\* x goes on where m would.
GoesOn(x, m) == OnlyChanges(x, m, DOMAIN Blank \ Way)

LEMMA GoingOn ==
  ASSUME NEW x, NEW y, NEW m, NEW S, OnlyChanges(x, y, S), GoesOn(y, m),
         S \subseteq DOMAIN Blank \ Way
  PROVE  GoesOn(x, m)
BY ChangesAdd DEF GoesOn

LEMMA Results2 ==
  /\ Results \subseteq DOMAIN Blank \ Way /\ {"r"} \subseteq DOMAIN Blank \ Way
  /\ {"mem", "pending"} \subseteq DOMAIN Blank \ Way /\ {"flags"} \subseteq DOMAIN Blank \ Way
  /\ {"r", "pending"} \subseteq DOMAIN Blank \ Way
BY DEF Results, Blank, Way

LEMMA PutGoesOn ==
  ASSUME NEW y, NEW m, GoesOn(y, m), NEW i \in 0..16, i # 15, NEW v
  PROVE  GoesOn(Put(y, i, v), m)
<1>1. OnlyChanges(Put(y, i, v), y, Results)
  BY PutChanges
<1> QED BY <1>1, GoingOn, Results2

LEMMA StaysItself ==
  ASSUME NEW m
  PROVE  GoesOn(m, m)
BY DEF GoesOn, OnlyChanges

LEMMA AddGoesOn ==
  ASSUME NEW kind \in Arithmetic, NEW hw \in Nat, NEW m
  PROVE  GoesOn(Add(Sums(kind, hw, m), m), m)
<1> DEFINE s == Sums(kind, hw, m)
           sum == A(m)!AddWithCarry(s.a, s.b, s.carry)
           y == [m EXCEPT !.flags = [n |-> A(m)!SignBit(sum.result), z |-> sum.result = 0,
                                     c |-> sum.carry, v |-> sum.overflow]]
<1>1. s.rd \in 0..16 /\ s.rd # 15
  <2>1. s.rd \in {Rd(hw), Rd8(hw), Discarded}
    BY SMT DEF Sums, Sum, Arithmetic
  <2> HIDE DEF s
  <2> QED BY <2>1, RegisterFields DEF Discarded
<1>2. Add(s, m) = Put(y, s.rd, sum.result)
  BY DEF Add
<1>3. GoesOn(y, m)
  BY DEF GoesOn, OnlyChanges, Way, Blank
<1> QED BY <1>1, <1>2, <1>3, PutGoesOn

LEMMA LogicalGoesOn ==
  ASSUME NEW kind, NEW hw \in Nat, NEW m
  PROVE  GoesOn(Logical(kind, hw, m), m)
<1> DEFINE Done(value) == NegZero(m, value)
           Places == {Rd(hw), Rd8(hw), Discarded}
<1>1. \E value, rd : rd \in Places /\ Logical(kind, hw, m) = Put(NegZero(m, value), rd, value)
  <2> DEFINE rd == CASE kind = "tst_reg" -> Discarded
                     [] kind = "mov_imm" -> Rd8(hw)
                     [] OTHER            -> Rd(hw)
  <2>1. rd \in Places
    OBVIOUS
  <2> HIDE DEF rd, Places
  <2>2. \E value : Logical(kind, hw, m) = Put(NegZero(m, value), rd, value)
    BY DEF Logical, rd
  <2> QED BY <2>1, <2>2
<1>2. PICK value, rd : rd \in Places /\ Logical(kind, hw, m) = Put(NegZero(m, value), rd, value)
  BY <1>1
<1>3. GoesOn(NegZero(m, value), m)
  BY DEF GoesOn, OnlyChanges, NegZero, Way, Blank
<1>4. rd \in 0..16 /\ rd # 15
  BY <1>2, RegisterFields DEF Discarded
<1> QED BY <1>2, <1>3, <1>4, PutGoesOn

LEMMA ShiftsGoOn ==
  ASSUME NEW kind, NEW hw \in Nat, NEW m, NEW x \in Shifts(kind, hw, m)
  PROVE  GoesOn(x, m)
<1>1. PICK s : x = Put([NegZero(m, s.result) EXCEPT !.flags.c = s.carry], Rd(hw), s.result)
  BY DEF Shifts
<1> DEFINE y == [NegZero(m, s.result) EXCEPT !.flags.c = s.carry]
<1>2. GoesOn(y, m)
  BY DEF GoesOn, OnlyChanges, NegZero, Way, Blank
<1>3. Rd(hw) \in 0..16 /\ Rd(hw) # 15
  BY RegisterFields
<1> QED BY <1>1, <1>2, <1>3, PutGoesOn

LEMMA ExtendedGoesOn ==
  ASSUME NEW kind, NEW hw \in Nat, NEW m
  PROVE  GoesOn(Extended(kind, hw, m), m)
<1>1. \E value : Extended(kind, hw, m) = Put(m, Rd(hw), value)
  BY DEF Extended
<1>2. Rd(hw) \in 0..16 /\ Rd(hw) # 15
  BY RegisterFields
<1> QED BY <1>1, <1>2, PutGoesOn, StaysItself

LEMMA WithSpIs == \A m, v : WithSp(m, v) = Put(m, 13, v)
BY DEF Put, SP, LR, PC, Discarded

LEMMA AddressingGoesOn ==
  ASSUME NEW kind \in {"adr", "add_sp_imm", "add_sp_imm_t2", "sub_sp_imm"}, NEW hw \in Nat, NEW m
  PROVE  GoesOn(Addressing(kind, hw, m), m)
<1>1. \E i, v : i \in {Rd8(hw), 13} /\ Addressing(kind, hw, m) = Put(m, i, v)
  <2>1. CASE kind = "adr"
    BY <2>1 DEF Addressing
  <2>2. CASE kind = "add_sp_imm"
    BY <2>2 DEF Addressing
  <2>3. CASE kind = "add_sp_imm_t2"
    BY <2>3, WithSpIs DEF Addressing
  <2>4. CASE kind = "sub_sp_imm"
    BY <2>4, WithSpIs DEF Addressing
  <2> QED BY <2>1, <2>2, <2>3, <2>4
<1>2. Rd8(hw) \in 0..16 /\ Rd8(hw) # 15
  BY RegisterFields
<1> QED BY <1>1, <1>2, PutGoesOn, StaysItself

LEMMA StoreGoesOn ==
  ASSUME NEW kind, NEW hw, NEW m
  PROVE  GoesOn(Store(kind, hw, m), m)
<1>1. OnlyChanges(Store(kind, hw, m), m, {"mem", "pending"})
  BY StoredChanges DEF Store
<1> QED BY <1>1, ChangesMore, Results2 DEF GoesOn

LEMMA LoadGoesOn ==
  ASSUME NEW kind, NEW hw \in Nat, NEW m
  PROVE  GoesOn(Load(kind, hw, m), m)
<1>1. Rt(kind, hw) \in 0..7
  BY RegisterFields DEF Rt
<1>2. OnlyChanges(Load(kind, hw, m), m, {"r", "pending"})
  BY <1>1, LoadedChanges DEF Load
<1> QED BY <1>2, ChangesMore, Results2 DEF GoesOn

LEMMA PushGoesOn ==
  ASSUME NEW hw \in Nat, NEW m
  PROVE  GoesOn(Push(hw, m), m)
<1> DEFINE list == LowRegisters(hw) \o (IF BitOf(hw, 8) THEN <<LR>> ELSE <<>>)
           start == Wrap(Sp(m) - 4 * Len(list))
           words == [k \in DOMAIN list |-> Get(m, list[k])]
           y == StoredWords(m, start, words)
<1>1. list \in Seq(Nat)
  <2>1. LowRegisters(hw) \in Seq(0..7)
    BY ListIs DEF IsList
  <2>2. LowRegisters(hw) \in Seq(Nat)
    BY <2>1
  <2>3. <<LR>> \in Seq(Nat) /\ <<>> \in Seq(Nat)
    BY DEF LR
  <2> QED BY <2>2, <2>3
<1> HIDE DEF list
<1>2. Len(words) = Len(list) /\ Len(list) \in Nat
  BY <1>1
<1> HIDE DEF words, start
<1>3. OnlyChanges(y, m, {"mem", "pending"})
  BY <1>2, StoredWordsChanges
<1>4. GoesOn(y, m)
  BY <1>3, ChangesMore, Results2 DEF GoesOn
<1>5. Push(hw, m) = WithSp(y, start)
  BY DEF Push, list, start, words
<1>6. GoesOn(WithSp(y, start), m)
  BY <1>4, WithSpIs, PutGoesOn
<1> QED BY <1>5, <1>6

\* The least of some numbers.
LEMMA LeastIs ==
  ASSUME NEW S, S \subseteq Nat, S # {}
  PROVE  Min(S) \in S /\ \A y \in S : Min(S) <= y
<1>1. PICK x \in S : \A y \in S : ~(<<y, x>> \in OpToRel(<, Nat))
  BY NatLessThanWellFounded, WFMin, Zenon
<1>2. \A y \in S : ~(y < x)
  BY <1>1 DEF OpToRel
<1>3. \A y \in S : x <= y
  BY <1>2
<1> QED BY <1>3 DEF Min

\* Where the words of STM go, and which is the first that fails, if any.
StmWords(hw, m)   == [k \in DOMAIN LowRegisters(hw) |-> m.r[LowRegisters(hw)[k]]]
StmFails(hw, m, k) == ~Write(m.mem, Wrap(m.r[Rd8(hw)] + 4 * (k - 1)), 4, 0).ok

LEMMA StmIs ==
  ASSUME NEW hw, NEW m
  PROVE  LET list   == LowRegisters(hw)
             base   == m.r[Rd8(hw)]
             values == StmWords(hw, m)
         IN \/ /\ \A k \in 1..Len(list) : ~StmFails(hw, m, k)
               /\ Stm(hw, m) = Put(StoredWords(m, base, values), Rd8(hw), base + 4 * Len(list))
            \/ \E n \in 1..Len(list) :
                 /\ StmFails(hw, m, n)
                 /\ Stm(hw, m) = HardFault(StoredWords(m, base, SubSeq(values, 1, n - 1)))
<1> DEFINE list == LowRegisters(hw)
           base == m.r[Rd8(hw)]
           at == [k \in DOMAIN list |-> Wrap(base + 4 * (k - 1))]
           I == {i \in 1..Len(at) : ~Write(m.mem, at[i], 4, 0).ok}
           failing == SelectInSeq(at, LAMBDA a : ~Write(m.mem, a, 4, 0).ok)
           values == [k \in DOMAIN list |-> m.r[list[k]]]
<1>1. list \in Seq(0..7) /\ DOMAIN list = 1..Len(list) /\ Len(list) \in Nat
  BY ListIs DEF IsList
<1>2. failing = IF I # {} THEN Min(I) ELSE 0
  BY DEF SelectInSeq
<1>3. I \subseteq 1..Len(list) /\ \A k \in 1..Len(list) : k \in I <=> StmFails(hw, m, k)
  <2> HIDE DEF list
  <2>1. Len(at) = Len(list) /\ \A k \in 1..Len(list) : at[k] = Wrap(base + 4 * (k - 1))
    BY <1>1
  <2> HIDE DEF at
  <2> QED BY <2>1 DEF StmFails
<1>4. I # {} => Min(I) \in I
  <2> HIDE DEF I
  <2>1. I \subseteq Nat
    BY <1>1, <1>3
  <2> QED BY <2>1, LeastIs
<1>5. Stm(hw, m) = IF failing = 0
                   THEN Put(StoredWords(m, base, values), Rd8(hw), base + 4 * Len(list))
                   ELSE HardFault(StoredWords(m, base, SubSeq(values, 1, failing - 1)))
  BY DEF Stm
<1>6. values = StmWords(hw, m)
  BY DEF StmWords
<1> HIDE DEF list, base, at, I, failing, values
<1>7. CASE I = {}
  BY <1>2, <1>3, <1>5, <1>6, <1>7 DEF list, base
<1>8. CASE I # {}
  <2>1. failing \in I
    BY <1>2, <1>4, <1>8
  <2>2. failing \in 1..Len(list) /\ failing # 0 /\ StmFails(hw, m, failing)
    BY <1>1, <1>3, <2>1
  <2> QED BY <1>5, <1>6, <2>2 DEF list, base
<1> QED BY <1>7, <1>8

LEMMA StmGoesOn ==
  ASSUME NEW hw \in Nat, NEW m
  PROVE  GoesOn(Stm(hw, m), m)
<1> DEFINE list == LowRegisters(hw)
           base == m.r[Rd8(hw)]
           values == StmWords(hw, m)
<1>1. list \in Seq(0..7) /\ Len(list) \in Nat /\ Len(values) = Len(list) /\ values \in Seq({m.r[k] : k \in 0..7})
  BY ListIs DEF IsList, StmWords
<1> HIDE DEF values
<1>2. ASSUME NEW words, Len(words) \in Nat PROVE GoesOn(StoredWords(m, base, words), m)
  <2>1. OnlyChanges(StoredWords(m, base, words), m, {"mem", "pending"})
    BY <1>2, StoredWordsChanges
  <2> QED BY <2>1, ChangesMore, Results2 DEF GoesOn
<1>3. CASE Stm(hw, m) = Put(StoredWords(m, base, values), Rd8(hw), base + 4 * Len(list))
  <2>1. GoesOn(StoredWords(m, base, values), m)
    BY <1>1, <1>2
  <2>2. Rd8(hw) \in 0..16 /\ Rd8(hw) # 15
    BY RegisterFields
  <2> QED BY <1>3, <2>1, <2>2, PutGoesOn
<1>4. ASSUME NEW n \in 1..Len(list),
             Stm(hw, m) = HardFault(StoredWords(m, base, SubSeq(values, 1, n - 1)))
      PROVE  GoesOn(Stm(hw, m), m)
  <2>1. Len(SubSeq(values, 1, n - 1)) \in Nat
    BY <1>1, <1>4
  <2>2. GoesOn(StoredWords(m, base, SubSeq(values, 1, n - 1)), m)
    BY <1>2, <2>1
  <2>3. \A y : GoesOn(y, m) => GoesOn(HardFault(y), m)
    BY HardFaultChanges, GoingOn DEF Blank, Way
  <2> QED BY <1>4, <2>2, <2>3
<1> HIDE DEF base, list
<1> QED BY <1>3, <1>4, StmIs DEF base, list, values

LEMMA LdmGoesOn ==
  ASSUME NEW hw \in Nat, NEW m
  PROVE  GoesOn(Ldm(hw, m), m)
<1> DEFINE list == LowRegisters(hw)
           base == m.r[Rd8(hw)]
           loaded == LoadedWords(m, base, list, TRUE)
<1>1. list \in Seq(0..7)
  BY ListIs DEF IsList
<1>2. OnlyChanges(loaded, m, {"r", "pending"})
  BY <1>1, LoadedWordsChanges
<1>3. GoesOn(loaded, m)
  BY <1>2, ChangesMore, Results2 DEF GoesOn
<1>4. Ldm(hw, m) \in {loaded, Put(loaded, Rd8(hw), base + 4 * Len(list))}
  BY DEF Ldm
<1>5. Rd8(hw) \in 0..16 /\ Rd8(hw) # 15
  BY RegisterFields
<1> HIDE DEF loaded
<1> QED BY <1>3, <1>4, <1>5, PutGoesOn

LEMMA MsrGoesOn ==
  ASSUME NEW pair, NEW m
  PROVE  GoesOn(Msr(pair, m), m)
<1> DEFINE value == Get(m, Field(pair[1], 0, 4))
           sysn == Field(pair[2], 0, 8)
<1>1. /\ GoesOn([m EXCEPT !.flags = FlagsOf(value)], m)
      /\ GoesOn([m EXCEPT !.main = Aligned(value)], m)
      /\ GoesOn([m EXCEPT !.process = Aligned(value)], m)
      /\ GoesOn([m EXCEPT !.primask = BitOf(value, 0)], m)
      /\ GoesOn([m EXCEPT !.npriv = BitOf(value, 0), !.spsel = BitOf(value, 1)], m)
      /\ GoesOn(m, m)
  BY DEF GoesOn, OnlyChanges, Way, Blank
<1>2. Msr(pair, m) \in {[m EXCEPT !.flags = FlagsOf(value)],
                        [m EXCEPT !.main = Aligned(value)],
                        [m EXCEPT !.process = Aligned(value)],
                        [m EXCEPT !.primask = BitOf(value, 0)],
                        [m EXCEPT !.npriv = BitOf(value, 0), !.spsel = BitOf(value, 1)],
                        m}
  <2> HIDE DEF value, sysn
  <2> QED BY DEF Msr, value, sysn
<1> HIDE DEF value
<1> QED BY <1>1, <1>2

\* Those that may write PC.
Branching == {"branch", "unconditional_branch", "bl_imm", "bx", "blx", "pop", "mov_highreg",
              "add_highreg", "mrs"}

LEMMA OthersGoOn ==
  ASSUME NEW pair, pair[1] \in Nat, NEW m, Kind(pair) \notin Branching, NEW x \in Execute(pair, m)
  PROVE  GoesOn(x, m)
<1> DEFINE kind == Kind(pair)
           hw == pair[1]
           Logic == {"and_reg", "tst_reg", "eor_reg", "orr_reg", "bic_reg", "mul_reg", "mvn",
                     "movs", "mov_imm"}
           Shift == {"lsl_imm", "lsr_imm", "asr_imm", "lsl_reg", "lsr_reg", "asr_reg", "ror_reg"}
           Extend == {"sxth", "sxtb", "uxth", "uxtb", "rev_word", "rev16", "revsh"}
           Address == {"adr", "add_sp_imm", "add_sp_imm_t2", "sub_sp_imm"}
<1>1. \/ kind \in Arithmetic /\ x = Add(Sums(kind, hw, m), m)
      \/ x = Logical(kind, hw, m)
      \/ x \in Shifts(kind, hw, m)
      \/ x = Extended(kind, hw, m)
      \/ kind \in Address /\ x = Addressing(kind, hw, m)
      \/ x = Store(kind, hw, m) \/ x = Load(kind, hw, m)
      \/ x = Push(hw, m) \/ x = Stm(hw, m) \/ x = Ldm(hw, m) \/ x = Msr(pair, m)
      \/ x \in {[m EXCEPT !.primask = BitOf(hw, 4)], [m EXCEPT !.pending = @ \cup {SVCALL}],
                [m EXCEPT !.halt = TRUE], Wfe(m), HardFault(m), m}
  <2> DEFINE moves == kind \in {"add_highreg", "mov_highreg"}
             branches == kind \in {"branch", "unconditional_branch", "bl_imm", "bx", "blx"}
  <2>1. ~moves /\ ~branches /\ kind # "pop" /\ kind # "mrs"
    BY DEF Branching
  <2> HIDE DEF kind, hw, Logic, Shift, Extend, Address
  <2>2. x \in CASE kind \in Arithmetic -> {Add(Sums(kind, hw, m), m)}
                [] kind \in Logic -> {Logical(kind, hw, m)}
                [] kind \in Shift -> Shifts(kind, hw, m)
                [] kind \in Extend -> {Extended(kind, hw, m)}
                [] kind \in Address -> {Addressing(kind, hw, m)}
                [] moves -> {MoveHigh(kind, hw, m)}
                [] kind \in Stores -> {Store(kind, hw, m)}
                [] kind \in Loads -> {Load(kind, hw, m)}
                [] kind = "push" -> {Push(hw, m)}
                [] kind = "pop" -> {Pop(hw, m)}
                [] kind = "stm" -> {Stm(hw, m)}
                [] kind = "ldm" -> {Ldm(hw, m)}
                [] branches -> {Branch(kind, pair, m)}
                [] kind = "mrs" -> {Mrs(pair, m)}
                [] kind = "msr" -> {Msr(pair, m)}
                [] kind = "cps" -> {[m EXCEPT !.primask = BitOf(hw, 4)]}
                [] kind = "svc" -> {[m EXCEPT !.pending = @ \cup {SVCALL}]}
                [] kind = "bkpt" -> {[m EXCEPT !.halt = TRUE]}
                [] kind = "wfe" -> {Wfe(m)}
                [] kind \in Undefined -> {HardFault(m)}
                [] OTHER -> {m}
    BY DEF Execute, kind, hw, Logic, Shift, Extend, Address
  <2> HIDE DEF moves, branches
  <2> QED BY <2>1, <2>2
<1>2. /\ GoesOn([m EXCEPT !.primask = BitOf(hw, 4)], m)
      /\ GoesOn([m EXCEPT !.pending = @ \cup {SVCALL}], m)
      /\ GoesOn([m EXCEPT !.halt = TRUE], m)
      /\ GoesOn(Wfe(m), m) /\ GoesOn(HardFault(m), m) /\ GoesOn(m, m)
  BY DEF GoesOn, OnlyChanges, Way, Blank, Wfe, HardFault
<1>3. hw \in Nat
  OBVIOUS
<1> HIDE DEF kind, hw, Logic, Shift, Extend
<1>4. CASE kind \in Arithmetic /\ x = Add(Sums(kind, hw, m), m)
  BY <1>3, <1>4, AddGoesOn
<1>5. CASE \/ x = Logical(kind, hw, m) \/ x \in Shifts(kind, hw, m) \/ x = Extended(kind, hw, m)
  BY <1>3, <1>5, LogicalGoesOn, ShiftsGoOn, ExtendedGoesOn
<1>6. CASE kind \in Address /\ x = Addressing(kind, hw, m)
  BY <1>3, <1>6, AddressingGoesOn
<1>7. CASE x = Store(kind, hw, m) \/ x = Load(kind, hw, m)
  BY <1>3, <1>7, StoreGoesOn, LoadGoesOn
<1>8. CASE x = Push(hw, m) \/ x = Stm(hw, m) \/ x = Ldm(hw, m) \/ x = Msr(pair, m)
  BY <1>3, <1>8, PushGoesOn, StmGoesOn, LdmGoesOn, MsrGoesOn
<1> QED BY <1>1, <1>2, <1>4, <1>5, <1>6, <1>7, <1>8

-----------------------------------------------------------------------------
(* Branches *)

\* The powers that offsets are cut with.
LEMMA OffsetPowers ==
  /\ 2^10 = 1024 /\ 2^21 = 2097152 /\ 2^22 = 4194304 /\ 2^23 = 8388608 /\ 2^24 = 16777216
  /\ 2^25 = 33554432
<1>1. \A m, n \in 0..25 : m + n <= 25 => 2^(m + n) = 2^m * 2^n
  BY OffsetPowersAssumption
<1>2. 2^10 = 1024
  <2>1. 2^(2 + 8) = 2^2 * 2^8
    BY <1>1
  <2>2. 2 + 8 = 10
    OBVIOUS
  <2> QED BY <2>1, <2>2, SmallPowers
<1>3. 2^21 = 2097152
  <2>1. 2^(10 + 11) = 2^10 * 2^11
    BY <1>1
  <2>2. 10 + 11 = 21
    OBVIOUS
  <2> QED BY <1>2, <2>1, <2>2, DecoderPowers, SMT
<1>4. ASSUME NEW p \in Nat, NEW n \in 21..24, 2^n = p PROVE 2^(n + 1) = 2 * p
  <2>1. 2^(1 + n) = 2^1 * 2^n
    <3>1. 1 \in 0..25 /\ n \in 0..25 /\ 1 + n <= 25
      OBVIOUS
    <3> QED BY <1>1, <3>1
  <2>2. 1 + n = n + 1
    OBVIOUS
  <2> QED BY <1>4, <2>1, <2>2, SmallPowers
<1>5. 2^22 = 4194304
  BY <1>3, <1>4, SMT
<1>6. 2^23 = 8388608
  BY <1>5, <1>4, SMT
<1>7. 2^24 = 16777216
  BY <1>6, <1>4, SMT
<1>8. 2^25 = 33554432
  BY <1>7, <1>4, SMT
<1> QED BY ONLY <1>2, <1>3, <1>5, <1>6, <1>7, <1>8

TwoTo(n) == 2^n

\* What SignedField makes of a number of n + 1 bits: the offset that they stand
\* for, which is even if the number is.
LEMMA OffsetIs ==
  ASSUME NEW v \in Nat, NEW n \in Nat, NEW next, next = n + 1,
         TwoTo(n) \in Nat \ {0}, TwoTo(next) = 2 * TwoTo(n), v < TwoTo(next), v % 2 = 0
  PROVE  IsOffset(SignedField(v, next), n, v) /\ SignedField(v, next) % 2 = 0
<1> DEFINE d == SignedField(v, next)
           p == TwoTo(n)
           q == TwoTo(next)
<1>1. d = IF v % TwoTo(next) >= TwoTo(next - 1) THEN (v % TwoTo(next)) - TwoTo(next)
          ELSE v % TwoTo(next)
  BY DEF SignedField, TwoTo
<1>2. next - 1 = n
  OBVIOUS
<1>3. d = IF v % q >= p THEN (v % q) - q ELSE v % q
  BY <1>1, <1>2
<1>4. IsOffset(d, n, v) <=> d \in (-p)..(p - 1) /\ (d - v) % TwoTo(n + 1) = 0
  BY DEF IsOffset, TwoTo
<1>5. IsOffset(d, n, v) <=> d \in (-p)..(p - 1) /\ (d - v) % q = 0
  BY <1>4
<1>6. p \in Nat \ {0} /\ q = 2 * p /\ v < q
  OBVIOUS
<1> HIDE DEF d, p, q
<1>7. v % q = v
  BY <1>6
<1>8. CASE v >= p
  <2>1. d = v - q
    BY <1>3, <1>7, <1>8
  <2>2. d \in (-p)..(p - 1)
    BY <1>6, <1>8, <2>1
  <2>3. d - v = -q /\ (-q) % q = 0
    BY <1>6, <2>1
  <2>4. d % 2 = 0
    <3>1. PICK h \in Nat : v = 2 * h
      <4>1. v = 2 * (v \div 2)
        OBVIOUS
      <4> QED BY <4>1
    <3>2. d = 2 * (h - p)
      BY <1>6, <2>1, <3>1
    <3> QED BY <1>6, <3>2
  <2> QED BY <1>5, <2>2, <2>3, <2>4 DEF d
<1>9. CASE v < p
  <2>1. d = v
    BY <1>3, <1>6, <1>7, <1>9
  <2>2. d \in (-p)..(p - 1) /\ (d - v) % q = 0
    BY <1>6, <1>9, <2>1
  <2> QED BY <1>5, <2>1, <2>2 DEF d
<1> QED BY <1>6, <1>8, <1>9

LEMMA FieldBelow ==
  ASSUME NEW hw \in Nat
  PROVE  /\ Field(hw, 0, 8) \in Nat /\ Field(hw, 0, 8) < 256
         /\ Field(hw, 0, 10) \in Nat /\ Field(hw, 0, 10) < 1024
         /\ Field(hw, 0, 11) \in Nat /\ Field(hw, 0, 11) < 2048
         /\ Field(hw, 10, 1) \in Nat /\ Field(hw, 10, 1) < 2
<1>1. \A o, n \in 0..16 : Field(hw, o, n) \in Nat /\ Field(hw, o, n) < 2^n
  BY FieldIs
<1>2. 0 \in 0..16 /\ 8 \in 0..16 /\ 10 \in 0..16 /\ 11 \in 0..16 /\ 1 \in 0..16
  OBVIOUS
<1>3. /\ Field(hw, 0, 8) \in Nat /\ Field(hw, 0, 8) < 2^8
      /\ Field(hw, 0, 10) \in Nat /\ Field(hw, 0, 10) < 2^10
      /\ Field(hw, 0, 11) \in Nat /\ Field(hw, 0, 11) < 2^11
      /\ Field(hw, 10, 1) \in Nat /\ Field(hw, 10, 1) < 2^1
  BY ONLY <1>1, <1>2
<1>4. 2^8 = 256 /\ 2^10 = 1024 /\ 2^11 = 2048 /\ 2^1 = 2
  BY SmallPowers, DecoderPowers, OffsetPowers
<1> QED BY ONLY <1>3, <1>4

\* The bits of the offset of BL.
LongField(pair) ==
  LET s == Field(pair[1], 10, 1)
      i(n) == IF Field(pair[2], n, 1) = s THEN 1 ELSE 0
  IN 2 * Field(pair[2], 0, 11) + 2^12 * Field(pair[1], 0, 10)
       + 2^22 * i(11) + 2^23 * i(13) + 2^24 * s

\* offset() of the three relative branches: the number that their fields stand
\* for.
LEMMA BranchOffsets ==
  ASSUME NEW pair \in Halfword \X Halfword
  PROVE  LET d(kind) == BranchOffset(kind, pair)
         IN /\ IsOffset(d("branch"), 8, 2 * Field(pair[1], 0, 8)) /\ d("branch") % 2 = 0
            /\ IsOffset(d("unconditional_branch"), 11, 2 * Field(pair[1], 0, 11))
            /\ d("unconditional_branch") % 2 = 0
            /\ IsOffset(d("bl_imm"), 24, LongField(pair)) /\ d("bl_imm") % 2 = 0
<1>1. pair[1] \in Nat /\ pair[2] \in Nat
  BY HalfwordIs
<1>3. /\ IsOffset(BranchOffset("branch", pair), 8, 2 * Field(pair[1], 0, 8))
      /\ BranchOffset("branch", pair) % 2 = 0
  <2> DEFINE v == 2 * Field(pair[1], 0, 8)
  <2>1. Field(pair[1], 0, 8) \in Nat /\ Field(pair[1], 0, 8) < 256
    BY <1>1, FieldBelow
  <2>2. v \in Nat /\ v < 512 /\ v % 2 = 0
    BY <2>1
  <2>3. BranchOffset("branch", pair) = SignedField(v, 9)
    BY DEF BranchOffset
  <2> HIDE DEF v
  <2>4. TwoTo(8) = 256 /\ TwoTo(9) = 512
    BY SmallPowers DEF TwoTo
  <2>5. IsOffset(SignedField(v, 9), 8, v) /\ SignedField(v, 9) % 2 = 0
    <3>1. /\ 8 \in Nat /\ 9 = 8 + 1 /\ 256 \in Nat \ {0} /\ 512 = 2 * 256
      BY SMT
    <3> QED BY ONLY <2>2, <2>4, <3>1, OffsetIs, SMT
  <2> QED BY <2>3, <2>5 DEF v
<1>4. /\ IsOffset(BranchOffset("unconditional_branch", pair), 11, 2 * Field(pair[1], 0, 11))
      /\ BranchOffset("unconditional_branch", pair) % 2 = 0
  <2> DEFINE v == 2 * Field(pair[1], 0, 11)
  <2>1. Field(pair[1], 0, 11) \in Nat /\ Field(pair[1], 0, 11) < 2048
    BY <1>1, FieldBelow
  <2>2. v \in Nat /\ v < 4096 /\ v % 2 = 0
    BY <2>1, SMT
  <2>3. BranchOffset("unconditional_branch", pair) = SignedField(v, 12)
    BY DEF BranchOffset
  <2> HIDE DEF v
  <2>4. TwoTo(11) = 2048 /\ TwoTo(12) = 4096
    BY SmallPowers, DecoderPowers, SMT DEF TwoTo
  <2>5. IsOffset(SignedField(v, 12), 11, v) /\ SignedField(v, 12) % 2 = 0
    <3>1. /\ 11 \in Nat /\ 12 = 11 + 1 /\ 2048 \in Nat \ {0} /\ 4096 = 2 * 2048
      BY SMT
    <3> QED BY ONLY <2>2, <2>4, <3>1, OffsetIs, SMT
  <2> QED BY <2>3, <2>5 DEF v
<1>5. /\ IsOffset(BranchOffset("bl_imm", pair), 24, LongField(pair))
      /\ BranchOffset("bl_imm", pair) % 2 = 0
  <2> DEFINE f == Field(pair[2], 0, 11)
             g == Field(pair[1], 0, 10)
             s == Field(pair[1], 10, 1)
             i1 == IF Field(pair[2], 13, 1) = s THEN 1 ELSE 0
             i2 == IF Field(pair[2], 11, 1) = s THEN 1 ELSE 0
             v == LongField(pair)
  <2>1. f \in Nat /\ f < 2048 /\ g \in Nat /\ g < 1024 /\ s \in Nat /\ s < 2
    BY <1>1, FieldBelow
  <2>2. i1 \in {0, 1} /\ i2 \in {0, 1}
    OBVIOUS
  <2>3. v = 2 * f + 4096 * g + 4194304 * i2 + 8388608 * i1 + 16777216 * s
    BY SmallPowers, OffsetPowers, SMT DEF LongField
  <2>4. BranchOffset("bl_imm", pair)
          = SignedField(2 * (f + 2048 * g + 2097152 * i2 + 4194304 * i1 + 8388608 * s), 25)
    BY DecoderPowers, OffsetPowers, SMT DEF BranchOffset, LongOffset
  <2> HIDE DEF f, g, s, i1, i2, v
  <2>5. 2 * (f + 2048 * g + 2097152 * i2 + 4194304 * i1 + 8388608 * s) = v
    BY <2>1, <2>2, <2>3, SMT
  <2>6. v \in Nat /\ v < 33554432 /\ v % 2 = 0
    BY <2>1, <2>2, <2>3, SMT
  <2>7. BranchOffset("bl_imm", pair) = SignedField(v, 25)
    BY <2>4, <2>5, SMT
  <2>8. TwoTo(24) = 16777216 /\ TwoTo(25) = 33554432
    BY OffsetPowers, SMT DEF TwoTo
  <2>9. IsOffset(SignedField(v, 25), 24, v) /\ SignedField(v, 25) % 2 = 0
    <3>1. /\ 24 \in Nat /\ 25 = 24 + 1 /\ 16777216 \in Nat \ {0} /\ 33554432 = 2 * 16777216
      BY SMT
    <3> QED BY ONLY <2>6, <2>8, <3>1, OffsetIs, SMT
  <2> QED BY <2>7, <2>9, SMT DEF v
<1> QED BY <1>3, <1>4, <1>5

\* A machine that is about to execute the instruction at CodeStart.
IsReady(m) ==
  DOMAIN m = DOMAIN Blank /\ m.pc = CodeStart /\ m.thumb = TRUE /\ m.pending = {}

\* What the instruction finds.
Begun(m) == [m EXCEPT !.count = @ + 1, !.pc = CodeStart + 4, !.branched = FALSE]

\* Where the code goes on after it.
NextPc(x, pair) == IF x.branched THEN Pc(x) ELSE CodeStart + Size(pair)

LEMMA CodeIs ==
  /\ CodeStart \in Nat /\ CodeStart % 2 = 0 /\ Modulus \in Nat \ {0} /\ CodeStart + 4 < Modulus
  /\ Modulus % 2 = 0
  /\ \A n \in 0..4 : Wrap(CodeStart + n) = CodeStart + n
<1>1. Modulus \in Nat \ {0} /\ Modulus % 2 = 0
  <2>1. Modulus = 256 * 2^ThumbBit /\ 2^ThumbBit \in Nat \ {0}
    BY UpperPowers
  <2> QED BY <2>1
<1>2. CodeStart \in Nat /\ CodeStart % 2 = 0 /\ CodeStart + 4 < Modulus
  BY <1>1, CodeAssumption DEF Word
<1>3. \A n \in 0..4 : Wrap(CodeStart + n) = CodeStart + n
  BY <1>1, <1>2 DEF Wrap
<1> QED BY <1>1, <1>2, <1>3

\* A step of a ready machine executes the instruction, or takes what is pending.
LEMMA StepIs ==
  ASSUME NEW m, IsReady(m), NEW pair, NEW o \in Step(m, pair)
  PROVE  \/ o.taken # 0 /\ NextExceptionToTake([m EXCEPT !.count = @ + 1]) # 0
         \/ \E x \in Execute(pair, Begun(m)) : o = Ending(x, CodeStart, NextPc(x, pair))
<1> DEFINE counted == [m EXCEPT !.count = @ + 1]
<1>1. Pc(m) = CodeStart
  BY CodeIs DEF Pc, IsReady
<1>2. m.thumb
  BY DEF IsReady
<1>3. Step(m, pair) =
        IF NextExceptionToTake(counted) # 0 THEN {Ending(counted, CodeStart, CodeStart)}
        ELSE {Ending(x, CodeStart, IF x.branched THEN Pc(x) ELSE Wrap(CodeStart + Size(pair)))
                : x \in Execute(pair, [counted EXCEPT !.pc = Wrap(CodeStart + 4), !.branched = FALSE])}
  BY <1>1, <1>2 DEF Step
<1>4. [counted EXCEPT !.pc = Wrap(CodeStart + 4), !.branched = FALSE] = Begun(m)
  <2>1. Wrap(CodeStart + 4) = CodeStart + 4
    BY CodeIs
  <2> QED BY <2>1 DEF Begun
<1>5. Wrap(CodeStart + Size(pair)) = CodeStart + Size(pair)
  <2>1. Size(pair) \in 0..4
    BY DEF Size
  <2> QED BY <2>1, CodeIs
<1> HIDE DEF counted
<1>6. CASE NextExceptionToTake(counted) # 0
  <2>1. o = Ending(counted, CodeStart, CodeStart)
    BY <1>3, <1>6
  <2>2. o.taken = NextExceptionToTake(counted)
    BY <2>1 DEF Ending
  <2> QED BY <1>6, <2>2 DEF counted
<1>7. CASE NextExceptionToTake(counted) = 0
  BY <1>3, <1>4, <1>5, <1>7 DEF NextPc
<1> QED BY <1>6, <1>7

LEMMA BegunIs ==
  ASSUME NEW m, IsReady(m)
  PROVE  /\ DOMAIN Begun(m) = DOMAIN Blank /\ Begun(m).pc = CodeStart + 4 /\ Pc(Begun(m)) = CodeStart + 4
         /\ Begun(m).branched = FALSE
<1>1. DOMAIN Begun(m) = DOMAIN Blank /\ Begun(m).pc = CodeStart + 4 /\ Begun(m).branched = FALSE
  BY DEF Begun, IsReady, Blank
<1>2. (CodeStart + 4) % 2 = 0
  BY CodeIs
<1> QED BY <1>1, <1>2, CodeIs DEF Pc

LEMMA Parity ==
  ASSUME NEW v \in Int, v % 2 = 0, NEW M \in Nat \ {0}, M % 2 = 0
  PROVE  v % M \in Nat /\ (v % M) % 2 = 0
<1> DEFINE q == v \div M
           r == v % M
           h == v \div 2
           k == M \div 2
<1>1. q \in Int /\ r \in Nat /\ v = M * q + r
  OBVIOUS
<1>2. h \in Int /\ v = 2 * h /\ k \in Nat /\ M = 2 * k
  OBVIOUS
<1> HIDE DEF q, r, h, k
<1> DEFINE p == h - k * q
<1>3. k * q \in Int /\ M * q = 2 * (k * q)
  BY <1>1, <1>2
<1>4. p \in Int /\ r = 2 * p
  BY <1>1, <1>2, <1>3
<1> HIDE DEF p
<1>5. r % 2 = 0
  BY <1>4
<1> QED BY <1>1, <1>5 DEF r

LEMMA BranchExecutes ==
  ASSUME NEW pair, NEW m, Kind(pair) \in {"branch", "unconditional_branch", "bl_imm"},
         NEW x \in Execute(pair, m)
  PROVE  x = Branch(Kind(pair), pair, m)
<1> DEFINE kind == Kind(pair)
           hw == pair[1]
           Logic == {"and_reg", "tst_reg", "eor_reg", "orr_reg", "bic_reg", "mul_reg", "mvn",
                     "movs", "mov_imm"}
           Shift == {"lsl_imm", "lsr_imm", "asr_imm", "lsl_reg", "lsr_reg", "asr_reg", "ror_reg"}
           Extend == {"sxth", "sxtb", "uxth", "uxtb", "rev_word", "rev16", "revsh"}
           Address == {"adr", "add_sp_imm", "add_sp_imm_t2", "sub_sp_imm"}
           moves == kind \in {"add_highreg", "mov_highreg"}
           branches == kind \in {"branch", "unconditional_branch", "bl_imm", "bx", "blx"}
<1>1. /\ kind \notin Arithmetic /\ kind \notin Logic /\ kind \notin Shift /\ kind \notin Extend
      /\ kind \notin Address /\ ~moves /\ kind \notin Stores /\ kind \notin Loads /\ branches
  <2>1. kind \notin Arithmetic
    BY DEF Arithmetic
  <2>2. kind \notin Logic /\ kind \notin Shift /\ kind \notin Extend
    OBVIOUS
  <2>3. kind \notin Stores /\ kind \notin Loads
    BY DEF Stores, Loads
  <2>4. kind \notin Address /\ ~moves /\ branches
    OBVIOUS
  <2> QED BY <2>1, <2>2, <2>3, <2>4
<1>2. /\ kind # "push" /\ kind # "pop" /\ kind # "stm" /\ kind # "ldm"
      /\ kind # "mrs" /\ kind # "msr" /\ kind # "cps" /\ kind # "svc" /\ kind # "bkpt"
      /\ kind # "wfe" /\ kind \notin Undefined
  BY <1>1 DEF Undefined
<1> HIDE DEF kind, hw, Logic, Shift, Extend, Address
<1>3. x \in CASE kind \in Arithmetic -> {Add(Sums(kind, hw, m), m)}
              [] kind \in Logic -> {Logical(kind, hw, m)}
              [] kind \in Shift -> Shifts(kind, hw, m)
              [] kind \in Extend -> {Extended(kind, hw, m)}
              [] kind \in Address -> {Addressing(kind, hw, m)}
              [] moves -> {MoveHigh(kind, hw, m)}
              [] kind \in Stores -> {Store(kind, hw, m)}
              [] kind \in Loads -> {Load(kind, hw, m)}
              [] kind = "push" -> {Push(hw, m)}
              [] kind = "pop" -> {Pop(hw, m)}
              [] kind = "stm" -> {Stm(hw, m)}
              [] kind = "ldm" -> {Ldm(hw, m)}
              [] branches -> {Branch(kind, pair, m)}
              [] kind = "mrs" -> {Mrs(pair, m)}
              [] kind = "msr" -> {Msr(pair, m)}
              [] kind = "cps" -> {[m EXCEPT !.primask = BitOf(hw, 4)]}
              [] kind = "svc" -> {[m EXCEPT !.pending = @ \cup {SVCALL}]}
              [] kind = "bkpt" -> {[m EXCEPT !.halt = TRUE]}
              [] kind = "wfe" -> {Wfe(m)}
              [] kind \in Undefined -> {HardFault(m)}
              [] OTHER -> {m}
  BY DEF Execute, kind, hw, Logic, Shift, Extend, Address
<1> HIDE DEF moves, branches
<1>4. x = Branch(kind, pair, m)
  BY <1>1, <1>2, <1>3
<1> QED BY <1>4 DEF kind

Relative == {"branch", "unconditional_branch", "bl_imm"}

\* Taken or not, the three branches relative to PC leave the address of the next
\* instruction, or that address and the offset; others leave the way alone.
LEMMA NextPcIs ==
  ASSUME NEW m, IsReady(m), NEW pair \in Halfword \X Halfword, NEW x \in Execute(pair, Begun(m))
  PROVE  LET d == BranchOffset(Kind(pair), pair)
             target == Wrap(CodeStart + 4 + d)
         IN /\ Kind(pair) = "branch" => NextPc(x, pair) \in {CodeStart + Size(pair), target}
            /\ Kind(pair) = "unconditional_branch" => NextPc(x, pair) = target
            /\ Kind(pair) = "bl_imm" =>
                 NextPc(x, pair) = target /\ x.lr = CodeStart + Size(pair) + 1
            /\ Kind(pair) \notin Branching => NextPc(x, pair) = CodeStart + Size(pair)
            /\ Kind(pair) \in Relative \/ Kind(pair) \notin Branching => DOMAIN x = DOMAIN Blank
<1> DEFINE kind == Kind(pair)
           d == BranchOffset(kind, pair)
           target == Wrap(CodeStart + 4 + d)
           y == Begun(m)
<1>1. /\ DOMAIN y = DOMAIN Blank /\ y.pc = CodeStart + 4 /\ Pc(y) = CodeStart + 4
      /\ y.branched = FALSE
  BY BegunIs
<1>2. CASE kind \notin Branching
  <2>1. pair[1] \in Nat
    BY HalfwordIs
  <2>2. GoesOn(x, y)
    BY <1>2, <2>1, OthersGoOn
  <2>3. x.branched = FALSE
    BY <1>1, <2>2 DEF GoesOn, OnlyChanges, Way, Blank
  <2>4. DOMAIN x = DOMAIN Blank
    BY <1>1, <2>2 DEF GoesOn, OnlyChanges
  <2> QED BY <1>2, <2>3, <2>4 DEF NextPc, Branching
<1>3. CASE kind \in Relative
  <2>1. x = Branch(kind, pair, y)
    BY <1>3, BranchExecutes DEF Relative
  <2>2. d \in Int /\ d % 2 = 0
    BY <1>3, BranchOffsets DEF IsOffset, Relative
  <2>3. target \in Nat /\ target % 2 = 0 /\ CodeStart + 4 + d \in Int
    <3> DEFINE v == CodeStart + 4 + d
    <3>1. v \in Int /\ v % 2 = 0
      BY <2>2, CodeIs
    <3> HIDE DEF v
    <3>2. Modulus \in Nat \ {0} /\ Modulus % 2 = 0
      BY CodeIs
    <3>3. v % Modulus \in Nat /\ (v % Modulus) % 2 = 0
      BY <3>1, <3>2, Parity
    <3> QED BY <3>1, <3>3 DEF Wrap, v
  <2> DEFINE linked == [y EXCEPT !.lr = CodeStart + 5]
  <2>4. DOMAIN linked = DOMAIN Blank /\ linked.lr = CodeStart + 5 /\ "lr" \in DOMAIN linked
    BY <1>1, CodeIs DEF Blank
  <2>5. ASSUME NEW z, DOMAIN z = DOMAIN Blank, x = WithPc(z, CodeStart + 4 + d)
        PROVE  NextPc(x, pair) = target /\ x.lr = z.lr /\ DOMAIN x = DOMAIN z
    <3>1. x.pc = target /\ x.branched = TRUE /\ x.lr = z.lr /\ DOMAIN x = DOMAIN z
      BY <2>5 DEF WithPc, Blank
    <3> HIDE DEF target
    <3> QED BY <2>3, <3>1 DEF NextPc, Pc
  <2>6. CASE kind = "branch"
    <3>1. x \in {WithPc(y, CodeStart + 4 + d), y}
      BY <1>1, <2>1, <2>6 DEF Branch
    <3>2. CASE x = y
      BY <1>1, <2>6, <3>2 DEF NextPc, Branching, Relative
    <3>3. CASE x = WithPc(y, CodeStart + 4 + d)
      <4>1. NextPc(x, pair) = target /\ DOMAIN x = DOMAIN Blank
        BY <1>1, <2>5, <3>3
      <4> HIDE DEF target
      <4>2. NextPc(x, pair) \in {CodeStart + Size(pair), target}
        BY <4>1
      <4> QED BY <2>6, <4>1, <4>2 DEF target, Branching, Relative
    <3> QED BY <3>1, <3>2, <3>3
  <2>7. CASE kind = "unconditional_branch"
    <3>1. x = WithPc(y, CodeStart + 4 + d)
      BY <1>1, <2>1, <2>7 DEF Branch
    <3> QED BY <1>1, <2>5, <2>7, <3>1 DEF Branching, Relative
  <2>8. CASE kind = "bl_imm"
    <3>1. x = WithPc(linked, CodeStart + 4 + d)
      <4>1. CodeStart + 4 + 1 = CodeStart + 5
        BY CodeIs
      <4> QED BY <1>1, <2>1, <2>8, <4>1 DEF Branch
    <3>2. Size(pair) = 4
      BY <2>8, LengthIs DEF OfTwoHalfwords
    <3>3. CodeStart + 5 = CodeStart + 4 + 1
      BY CodeIs
    <3> QED BY <2>4, <2>5, <2>8, <3>1, <3>2, <3>3 DEF Branching, Relative
  <2> QED BY <1>3, <2>6, <2>7, <2>8 DEF Relative
<1>4. CASE kind \in Branching \ Relative
  BY <1>4 DEF Branching, Relative
<1> QED BY <1>2, <1>3, <1>4

\* From reset to the instruction: T is set, nothing is pending, PC is at the code.
ReadyInv ==
  /\ stage \in {"reset", "main"} =>
       /\ DOMAIN machine = DOMAIN Blank /\ machine.thumb = TRUE /\ machine.pending = {}
  /\ stage = "main" => machine.pc = CodeStart
  /\ stage = "stepped" => IsReady(before)

LEMMA ReadyStep == ReadyInv /\ [Next]_vars => ReadyInv'
<1> SUFFICES ASSUME ReadyInv, [Next]_vars PROVE ReadyInv'
  OBVIOUS
<1>1. CASE Reset
  <2> DEFINE start == WithSp([Blank EXCEPT !.mem = machine.mem],
                             Aligned(Read(machine.mem, 0, 4).value))
  <2>1. DOMAIN start = DOMAIN Blank /\ start.pending = {}
    BY DEF WithSp, Blank
  <2> HIDE DEF start
  <2>2. machine' = [start EXCEPT !.pc = image.entry, !.branched = TRUE, !.thumb = TRUE]
    BY <1>1 DEF Reset, start
  <2>3. DOMAIN machine' = DOMAIN Blank /\ machine'.thumb = TRUE /\ machine'.pending = {}
    BY <2>1, <2>2 DEF Blank
  <2>4. stage' = "reset"
    BY <1>1 DEF Reset
  <2> QED BY <2>3, <2>4 DEF ReadyInv
<1>2. CASE Startup
  <2>1. stage = "reset" /\ stage' = "main"
    BY <1>2 DEF Startup
  <2>2. machine' = [machine EXCEPT !.mem.words = InitMemory(machine.mem.words, image),
                                   !.pc = CodeStart]
    BY <1>2 DEF Startup
  <2>3. DOMAIN machine = DOMAIN Blank /\ machine.thumb = TRUE /\ machine.pending = {}
    BY <2>1 DEF ReadyInv
  <2>4. /\ DOMAIN machine' = DOMAIN Blank /\ machine'.thumb = TRUE /\ machine'.pending = {}
        /\ machine'.pc = CodeStart
    BY <2>2, <2>3 DEF Blank
  <2> QED BY <2>1, <2>4 DEF ReadyInv
<1>3. ASSUME NEW s, NEW pair, stage = "main", TryInstruction(s, pair) PROVE ReadyInv'
  <2>1. before' = Prepared(s) /\ stage' = "stepped"
    BY <1>3 DEF TryInstruction
  <2>2. DOMAIN machine = DOMAIN Blank /\ machine.thumb = TRUE /\ machine.pending = {}
        /\ machine.pc = CodeStart
    BY <1>3 DEF ReadyInv
  <2>3. IsReady(Prepared(s))
    BY <2>2 DEF IsReady, Prepared, Blank
  <2> QED BY <2>1, <2>3 DEF ReadyInv
<1>4. CASE stage' \notin {"reset", "main", "stepped"}
  BY <1>4 DEF ReadyInv
<1>5. CASE UNCHANGED vars
  BY <1>5 DEF vars, ReadyInv, IsReady
<1> QED
  BY <1>1, <1>2, <1>3, <1>4, <1>5 DEF Next, LoadImage, StartProgram, Raise, RunStep

(***************************************************************************)
(* cpu::step and the offsets of the decoder: a relative branch that is     *)
(* taken goes on at the address that its bits stand for, four bytes after  *)
(* it, BL also leaves the address of the next instruction in LR, and every *)
(* other instruction goes on over its own length; for every pair of        *)
(* halfwords, every word size and wherever the code is.                    *)
(***************************************************************************)
THEOREM BranchesAreExact == Spec => []BranchesReachTheirTarget
<1>1. StepInv /\ ReadyInv => BranchesReachTheirTarget
  <2> SUFFICES ASSUME StepInv, ReadyInv, stage = "stepped", last.taken = 0
               PROVE  BranchesReachTheirTarget
    BY DEF BranchesReachTheirTarget
  <2> DEFINE pair == last.pair
             kind == Kind(pair)
             d == BranchOffset(kind, pair)
             next == CodeStart + Size(pair)
             target == Wrap(CodeStart + 4 + d)
  <2>1. pair \in Halfword \X Halfword /\ IsReady(before)
    BY DEF StepInv, ReadyInv
  <2>2. PICK o \in Step(before, pair) : machine = o.machine /\ last.taken = o.taken
    BY DEF StepInv
  <2>3. PICK x \in Execute(pair, Begun(before)) : o = Ending(x, CodeStart, NextPc(x, pair))
    BY <2>1, <2>2, StepIs
  <2>4. machine = [x EXCEPT !.pc = NextPc(x, pair), !.branched = TRUE]
    BY <2>2, <2>3 DEF Ending
  <2>5. /\ kind = "branch" => NextPc(x, pair) \in {next, target}
        /\ kind = "unconditional_branch" => NextPc(x, pair) = target
        /\ kind = "bl_imm" => NextPc(x, pair) = target /\ x.lr = next + 1
        /\ kind \notin Branching => NextPc(x, pair) = next
        /\ kind \in Relative \/ kind \notin Branching => DOMAIN x = DOMAIN Blank
    BY <2>1, <2>3, NextPcIs
  <2>6. /\ kind = "branch" => IsOffset(d, 8, 2 * Field(pair[1], 0, 8))
        /\ kind = "unconditional_branch" => IsOffset(d, 11, 2 * Field(pair[1], 0, 11))
        /\ kind = "bl_imm" => IsOffset(d, 24, LongField(pair))
    BY <2>1, BranchOffsets
  <2>7. kind \in Relative \/ kind \notin Branching =>
          machine.pc = NextPc(x, pair) /\ machine.lr = x.lr
    BY <2>4, <2>5 DEF Blank
  <2>8. BranchesReachTheirTarget =
          CASE kind = "branch" ->
                 /\ IsOffset(d, 8, 2 * Field(pair[1], 0, 8))
                 /\ machine.pc \in {next, target}
            [] kind = "unconditional_branch" ->
                 /\ IsOffset(d, 11, 2 * Field(pair[1], 0, 11))
                 /\ machine.pc = target
            [] kind = "bl_imm" ->
                 /\ IsOffset(d, 24, LongField(pair))
                 /\ machine.pc = target /\ machine.lr = next + 1
            [] kind \in {"bx", "blx", "pop", "mov_highreg", "add_highreg", "mrs"} -> TRUE
            [] OTHER -> machine.pc = next
    BY DEF BranchesReachTheirTarget, LongField
  <2> HIDE DEF d, next, target, pair
  <2>9. CASE kind = "branch"
    BY <2>5, <2>6, <2>7, <2>8, <2>9 DEF Relative
  <2>10. CASE kind = "unconditional_branch"
    BY <2>5, <2>6, <2>7, <2>8, <2>10 DEF Relative
  <2>11. CASE kind = "bl_imm"
    BY <2>5, <2>6, <2>7, <2>8, <2>11 DEF Relative
  <2>12. CASE kind \in Branching \ Relative
    <3>1. kind \in {"bx", "blx", "pop", "mov_highreg", "add_highreg", "mrs"}
      BY <2>12 DEF Branching, Relative
    <3>2. kind # "branch" /\ kind # "unconditional_branch" /\ kind # "bl_imm"
      BY <3>1
    <3> QED BY <2>8, <3>1, <3>2
  <2>13. CASE kind \notin Branching
    <3>1. kind \notin {"bx", "blx", "pop", "mov_highreg", "add_highreg", "mrs"}
      BY <2>13 DEF Branching
    <3>2. kind # "branch" /\ kind # "unconditional_branch" /\ kind # "bl_imm"
      BY <2>13 DEF Branching
    <3>3. machine.pc = next
      BY <2>5, <2>7, <2>13
    <3> HIDE DEF kind
    <3> QED BY <2>8, <3>1, <3>2, <3>3
  <2> QED BY <2>9, <2>10, <2>11, <2>12, <2>13 DEF Branching, Relative
<1>2. Init => ImageInv /\ StepInv /\ ReadyInv
  BY ImageInit DEF Init, StepInv, ReadyInv
<1> QED BY <1>1, <1>2, ImageInit, ImageStep, StepStep, ReadyStep, PTL DEF Spec

-----------------------------------------------------------------------------
(* Transfers that fault *)

\* Nothing is taken when nothing is pending.
LEMMA NothingPending ==
  ASSUME NEW m, m.pending = {}
  PROVE  NextExceptionToTake(m) = 0
<1>1. V(m)!Candidates = {}
  BY DEF V!Candidates
<1>2. V(m)!TopPending = 0 /\ V(m)!NoException = 0
  BY <1>1 DEF V!TopPending, V!NoException
<1> QED BY <1>2 DEF NextExceptionToTake

\* The words and the registers that memory has stay the same.
SameMap(new, old) ==
  DOMAIN new.words = DOMAIN old.words /\ DOMAIN new.registers = DOMAIN old.registers

LEMMA SameReach ==
  ASSUME NEW new, NEW old, SameMap(new, old), NEW a, NEW size
  PROVE  Reaches(new, a, size) <=> Reaches(old, a, size)
BY DEF SameMap, Reaches

\* A store succeeds if and only if it reaches memory.
LEMMA StoreKeepsMap ==
  ASSUME NEW m, "mem" \in DOMAIN m, "pending" \in DOMAIN m, MemoryOK(m.mem), NEW a \in Nat,
         NEW size \in {1, 2, 4}, NEW v \in Word
  PROVE  LET x == Stored(m, a, size, v)
         IN /\ MemoryOK(x.mem) /\ SameMap(x.mem, m.mem)
            /\ Reaches(m.mem, a, size) => x.pending = m.pending
            /\ ~Reaches(m.mem, a, size) => x = HardFault(m)
<1> DEFINE w == Write(m.mem, a, size, v)
           x == Stored(m, a, size, v)
<1>1. x = IF w.ok THEN [m EXCEPT !.mem = w.mem] ELSE HardFault(m)
  BY DEF Stored
<1>2. CASE Reaches(m.mem, a, size)
  <2>1. w.ok /\ MemoryOK(w.mem)
    BY <1>2, WriteIs
  <2>2. SameMap(w.mem, m.mem)
    BY DEF Write, SameMap, MemoryOK
  <2> HIDE DEF w, x
  <2>3. x.mem = w.mem /\ x.pending = m.pending
    BY <1>1, <2>1
  <2> QED BY <1>2, <2>1, <2>2, <2>3 DEF x
<1>3. CASE ~Reaches(m.mem, a, size)
  <2>1. ~w.ok
    BY <1>3, OthersFail
  <2> HIDE DEF w, x
  <2>2. x = HardFault(m)
    BY <1>1, <2>1
  <2>3. x.mem = m.mem
    BY <2>2 DEF HardFault
  <2> QED BY <1>3, <2>2, <2>3 DEF x, SameMap
<1> QED BY <1>2, <1>3

\* A word of a transfer is stored at an address.
LEMMA WrapIs ==
  ASSUME NEW v \in Int
  PROVE  Wrap(v) \in Word /\ Wrap(v) \in Nat
<1>1. Modulus \in Nat \ {0}
  BY CodeIs
<1> QED BY <1>1 DEF Wrap, Word

\* So do many, and none of them faults if all reach memory.
LEMMA StoredWordsKeepMap ==
  ASSUME NEW m, "mem" \in DOMAIN m, "pending" \in DOMAIN m, MemoryOK(m.mem), NEW a \in Int,
         NEW words, Len(words) \in Nat, \A k \in 1..Len(words) : words[k] \in Word
  PROVE  LET x == StoredWords(m, a, words)
         IN /\ MemoryOK(x.mem) /\ SameMap(x.mem, m.mem)
            /\ (\A k \in 1..Len(words) : Reaches(m.mem, Wrap(a + 4 * (k - 1)), 4)) =>
                 x.pending = m.pending
<1> DEFINE at(k) == Wrap(a + 4 * (k - 1))
           all == \A k \in 1..Len(words) : Reaches(m.mem, at(k), 4)
           Kept(x) == /\ "mem" \in DOMAIN x /\ "pending" \in DOMAIN x
                      /\ MemoryOK(x.mem) /\ SameMap(x.mem, m.mem)
                      /\ all => x.pending = m.pending
<1>1. PICK after :
        /\ after[0] = m /\ after[Len(words)] = StoredWords(m, a, words)
        /\ \A k \in 1..Len(words) : after[k] = Stored(after[k - 1], at(k), 4, words[k])
  <2>1. Len(words) \in Nat
    OBVIOUS
  <2> QED BY <2>1, EachStored
<1> DEFINE T == {k \in 0..Len(words) : Kept(after[k])}
<1>2. 0 \in T
  BY <1>1 DEF SameMap
<1>3. ASSUME NEW k \in 1..Len(words), k - 1 \in T PROVE k \in T
  <2> DEFINE y == after[k - 1]
  <2>1. Kept(y)
    BY <1>3
  <2>2. after[k] = Stored(y, at(k), 4, words[k])
    BY <1>1
  <2>3. at(k) \in Nat /\ words[k] \in Word
    BY WrapIs
  <2> HIDE DEF y, at
  <2>4. DOMAIN after[k] = DOMAIN y
    <3>1. OnlyChanges(after[k], y, {"mem", "pending"})
      BY <2>2, StoredChanges
    <3> QED BY <3>1 DEF OnlyChanges
  <2>5. /\ MemoryOK(after[k].mem) /\ SameMap(after[k].mem, y.mem)
        /\ Reaches(y.mem, at(k), 4) => after[k].pending = y.pending
    BY <2>1, <2>2, <2>3, StoreKeepsMap
  <2>6. SameMap(after[k].mem, m.mem)
    BY <2>1, <2>5 DEF SameMap
  <2>7. all => after[k].pending = m.pending
    <3>1. all => Reaches(y.mem, at(k), 4)
      BY <2>1, SameReach
    <3> QED BY <2>1, <2>5, <3>1
  <2> QED BY <2>1, <2>4, <2>5, <2>6, <2>7
<1> HIDE DEF T
<1>4. \A k \in 0..Len(words) : k \in T
  <2>1. \A k \in 1..Len(words) : k - 1 \in T => k \in T
    BY <1>3
  <2> QED BY <1>2, <2>1, Climbing
<1>5. Kept(StoredWords(m, a, words))
  BY <1>1, <1>4 DEF T
<1> QED BY <1>5

\* A read that fails gives no value but 0.
LEMMA ReadTyped ==
  ASSUME NEW mem, MemoryOK(mem), NEW a \in Nat, NEW size \in {1, 2, 4}
  PROVE  LET got == Read(mem, a, size)
         IN /\ got.ok <=> Reaches(mem, a, size)
            /\ got.value \in Nat /\ DOMAIN got = {"ok", "value"}
            /\ ~got.ok => got.value = 0
<1>1. CASE Reaches(mem, a, size)
  <2>1. Read(mem, a, size).ok /\ Read(mem, a, size).value \in 0..(Power(size) - 1)
    BY <1>1, LoadReadsItsBytes
  <2>2. DOMAIN Read(mem, a, size) = {"ok", "value"}
    BY DEF Read
  <2> QED BY <1>1, <2>1, <2>2
<1>2. CASE ~Reaches(mem, a, size)
  BY <1>2, OthersFail
<1> QED BY <1>1, <1>2

\* What a transfer leaves of machine m.
Transfers(x, m) ==
  /\ OnlyChanges(x, m, {"r", "mem", "pending"})
  /\ x.r \in [0..12 -> Word]
  /\ MemoryOK(x.mem) /\ SameMap(x.mem, m.mem)

LEMMA TransfersItself ==
  ASSUME NEW m, IsMachine(m)
  PROVE  Transfers(m, m) /\ Transfers(HardFault(m), m)
BY DEF Transfers, OnlyChanges, SameMap, HardFault, IsMachine, HasRegisters

LEMMA PutTransfers ==
  ASSUME NEW m, "r" \in DOMAIN m, NEW x, Transfers(x, m), NEW i \in 0..7, NEW v \in Int
  PROVE  /\ Transfers(Put(x, i, v), m)
         /\ Put(x, i, v).pending = x.pending
         /\ \A j \in 0..12 : j # i => Put(x, i, v).r[j] = x.r[j]
<1> DEFINE y == Put(x, i, v)
<1>1. y = [x EXCEPT !.r[i] = Wrap(v)]
  <2>1. i < 13
    OBVIOUS
  <2> QED BY <2>1 DEF Put, SP, LR, PC, Discarded
<1>2. "r" \in DOMAIN x
  BY DEF Transfers, OnlyChanges
<1>3. Wrap(v) \in Word /\ i \in 0..12
  BY WrapIs
<1>4. y.r = [x.r EXCEPT ![i] = Wrap(v)] /\ y.mem = x.mem /\ y.pending = x.pending
  BY <1>1, <1>2
<1>5. OnlyChanges(y, m, {"r", "mem", "pending"})
  BY <1>1 DEF Transfers, OnlyChanges
<1> HIDE DEF y
<1>6. Transfers(y, m)
  BY <1>3, <1>4, <1>5 DEF Transfers
<1>7. \A j \in 0..12 : j # i => y.r[j] = x.r[j]
  BY <1>4 DEF Transfers
<1> QED BY <1>4, <1>6, <1>7 DEF y

\* One register is loaded, or a fault is pending.
LEMMA LoadedTransfers ==
  ASSUME NEW m, IsMachine(m), NEW x, Transfers(x, m), NEW got, got.value \in Int,
         NEW i \in 0..7, NEW asks
  PROVE  LET y == Loaded(x, got, i, asks)
         IN /\ Transfers(y, m)
            /\ got.ok => y.pending = x.pending
            /\ \A j \in 0..12 : j # i => y.r[j] = x.r[j]
<1> DEFINE asked == IF got.ok THEN x ELSE HardFault(x)
           y == Loaded(x, got, i, asks)
<1>1. "r" \in DOMAIN m
  BY DEF IsMachine, HasRegisters, Blank
<1>2. Transfers(asked, m) /\ asked.r = x.r /\ (got.ok => asked.pending = x.pending)
  BY DEF Transfers, OnlyChanges, HardFault
<1>3. y = IF got.ok \/ ~asks THEN Put(asked, i, got.value) ELSE asked
  BY DEF Loaded
<1> HIDE DEF asked, y
<1>4. /\ Transfers(Put(asked, i, got.value), m)
      /\ Put(asked, i, got.value).pending = asked.pending
      /\ \A j \in 0..12 : j # i => Put(asked, i, got.value).r[j] = asked.r[j]
  BY <1>1, <1>2, PutTransfers
<1>5. /\ Transfers(y, m)
      /\ got.ok => y.pending = x.pending
      /\ \A j \in 0..12 : j # i => y.r[j] = x.r[j]
  BY <1>2, <1>3, <1>4
<1> QED BY <1>5 DEF y

LEMMA OneLoaded ==
  ASSUME NEW m, IsMachine(m), NEW x, Transfers(x, m), NEW a \in Nat, NEW i \in 0..7
  PROVE  LET got == Read(m.mem, a, 4)
             y == Loaded(x, got, i, TRUE)
         IN /\ Transfers(y, m)
            /\ \A j \in 0..12 : j # i => y.r[j] = x.r[j]
            /\ ~got.ok => y.r = x.r
<1> DEFINE mem == m.mem
           got == Read(mem, a, 4)
           y == Loaded(x, got, i, TRUE)
<1>1. got.value \in Int
  <2>1. MemoryOK(mem) /\ 4 \in {1, 2, 4}
    BY DEF IsMachine
  <2> HIDE DEF mem
  <2>2. Read(mem, a, 4).value \in Nat
    BY <2>1, ReadTyped
  <2> QED BY <2>2
<1>2. y = IF got.ok THEN Put(x, i, got.value) ELSE HardFault(x)
  BY DEF Loaded
<1>3. "r" \in DOMAIN m
  BY DEF IsMachine, HasRegisters, Blank
<1>4. Transfers(HardFault(x), m) /\ HardFault(x).r = x.r
  BY <1>3 DEF Transfers, OnlyChanges, HardFault
<1> HIDE DEF got, y
<1> DEFINE v == got.value
<1> HIDE DEF v
<1>5. Transfers(Put(x, i, v), m) /\ \A j \in 0..12 : j # i => Put(x, i, v).r[j] = x.r[j]
  <2>1. v \in Int
    BY <1>1 DEF v
  <2> QED BY <1>3, <2>1, PutTransfers
<1>6. /\ Transfers(y, m)
      /\ \A j \in 0..12 : j # i => y.r[j] = x.r[j]
      /\ ~got.ok => y.r = x.r
  BY <1>2, <1>4, <1>5 DEF v
<1> QED BY <1>6 DEF y, got

\* Of what is loaded, only a register whose read succeeded changes.
LEMMA LoadedWordsTransfer ==
  ASSUME NEW m, IsMachine(m), NEW a \in Int, NEW list \in Seq(0..7),
         \A j, k \in 1..Len(list) : j < k => list[j] < list[k]
  PROVE  LET x == LoadedWords(m, a, list, TRUE)
         IN /\ Transfers(x, m)
            /\ \A k \in 1..Len(list) :
                 ~Read(m.mem, Wrap(a + 4 * (k - 1)), 4).ok => x.r[list[k]] = m.r[list[k]]
<1> DEFINE at(k) == Wrap(a + 4 * (k - 1))
           got(k) == Read(m.mem, at(k), 4)
           asks == TRUE
<1> Len(list) \in Nat
  OBVIOUS
<1>1. PICK after :
        /\ after[0] = m /\ after[Len(list)] = LoadedWords(m, a, list, TRUE)
        /\ \A k \in 1..Len(list) : after[k] = Loaded(after[k - 1], got(k), list[k], TRUE)
  <2> HIDE DEF asks
  <2>1. \E after :
          /\ after[0] = m /\ after[Len(list)] = LoadedWords(m, a, list, asks)
          /\ \A k \in 1..Len(list) : after[k] = Loaded(after[k - 1], got(k), list[k], asks)
    BY EachLoaded
  <2> QED BY <2>1 DEF asks
<1>2. \A j, k \in 1..Len(list) : list[j] \in 0..7 /\ list[j] \in 0..12 /\ (j # k => list[j] # list[k])
  OBVIOUS
<1>3. \A k \in 1..Len(list) : at(k) \in Nat
  BY WrapIs
<1> DEFINE Kept(x) == /\ Transfers(x, m)
                      /\ \A k \in 1..Len(list) : ~got(k).ok => x.r[list[k]] = m.r[list[k]]
           T == {k \in 0..Len(list) : Kept(after[k])}
<1>4. 0 \in T
  BY <1>1, TransfersItself
<1>5. ASSUME NEW k \in 1..Len(list), k - 1 \in T PROVE k \in T
  <2> DEFINE y == after[k - 1]
             z == after[k]
             b == at(k)
             i == list[k]
  <2>1. Kept(y) /\ z = Loaded(y, Read(m.mem, b, 4), i, TRUE) /\ b \in Nat /\ i \in 0..7
    BY <1>1, <1>2, <1>3, <1>5
  <2> HIDE DEF y, z, b, i, at
  <2>2. /\ Transfers(z, m)
        /\ \A j \in 0..12 : j # i => z.r[j] = y.r[j]
        /\ ~Read(m.mem, b, 4).ok => z.r = y.r
    <3> HIDE DEF Kept
    <3>1. Transfers(y, m) /\ IsMachine(m) /\ b \in Nat /\ i \in 0..7
      BY <2>1 DEF Kept
    <3> DEFINE w == Loaded(y, Read(m.mem, b, 4), i, TRUE)
    <3>2. /\ Transfers(w, m)
          /\ \A j \in 0..12 : j # i => w.r[j] = y.r[j]
          /\ ~Read(m.mem, b, 4).ok => w.r = y.r
      BY ONLY <3>1, OneLoaded
    <3> QED BY <2>1, <3>2
  <2>3. ASSUME NEW j \in 1..Len(list), ~got(j).ok PROVE z.r[list[j]] = m.r[list[j]]
    <3>1. y.r[list[j]] = m.r[list[j]] /\ list[j] \in 0..12
      BY <1>2, <2>1, <2>3
    <3>2. list[j] # i \/ ~Read(m.mem, b, 4).ok
      <4>1. j = k => ~Read(m.mem, b, 4).ok
        BY <2>3 DEF b
      <4> QED BY <1>2, <4>1 DEF i
    <3> QED BY <2>2, <3>1, <3>2
  <2>4. Kept(z)
    BY <2>2, <2>3
  <2> QED BY <2>4 DEF z
<1> HIDE DEF T
<1>6. \A k \in 0..Len(list) : k \in T
  <2>1. \A k \in 1..Len(list) : k - 1 \in T => k \in T
    BY <1>5
  <2> QED BY <1>4, <2>1, Climbing
<1>7. Kept(after[Len(list)])
  <2> HIDE DEF Kept
  <2>1. Len(list) \in T
    BY <1>6
  <2> QED BY <2>1 DEF T
<1> QED BY <1>1, <1>7

LEMMA TransferExecutes ==
  ASSUME NEW pair, NEW m, Kind(pair) \in Loads \cup Stores \cup {"stm", "ldm"},
         NEW x \in Execute(pair, m)
  PROVE  LET kind == Kind(pair)
             hw == pair[1]
         IN /\ kind \in Stores => x = Store(kind, hw, m)
            /\ kind \in Loads => x = Load(kind, hw, m)
            /\ kind = "stm" => x = Stm(hw, m)
            /\ kind = "ldm" => x = Ldm(hw, m)
<1> DEFINE kind == Kind(pair)
           hw == pair[1]
           Logic == {"and_reg", "tst_reg", "eor_reg", "orr_reg", "bic_reg", "mul_reg", "mvn",
                     "movs", "mov_imm"}
           Shift == {"lsl_imm", "lsr_imm", "asr_imm", "lsl_reg", "lsr_reg", "asr_reg", "ror_reg"}
           Extend == {"sxth", "sxtb", "uxth", "uxtb", "rev_word", "rev16", "revsh"}
           Address == {"adr", "add_sp_imm", "add_sp_imm_t2", "sub_sp_imm"}
           moves == kind \in {"add_highreg", "mov_highreg"}
           stores == kind \in Stores
           loads == kind \in Loads
<1>1. /\ kind \notin Arithmetic /\ kind \notin Logic /\ kind \notin Shift /\ kind \notin Extend
      /\ kind \notin Address /\ ~moves
  <2> HIDE DEF kind
  <2>1. kind \in {"str_reg", "strh_reg", "strb_reg", "str_imm", "strh_imm", "strb_imm", "str_sp_imm",
                  "ldr_reg", "ldrh_reg", "ldrb_reg", "ldrsh_reg", "ldrsb_reg", "ldr_imm", "ldrh_imm",
                  "ldrb_imm", "ldr_sp_imm", "ldr_literal", "stm", "ldm"}
    BY DEF kind, Stores, Loads
  <2>2. kind \notin Arithmetic
    BY <2>1 DEF Arithmetic
  <2> QED BY <2>1, <2>2
<1>2. /\ loads => ~stores
      /\ kind = "stm" => ~loads /\ ~stores
      /\ kind = "ldm" => ~loads /\ ~stores
  BY DEF Stores, Loads
<1>3. /\ loads \/ stores \/ kind = "stm" \/ kind = "ldm"
      /\ loads \/ stores => kind # "push" /\ kind # "pop" /\ kind # "stm" /\ kind # "ldm"
  BY DEF Stores, Loads
<1> DEFINE branches == kind \in {"branch", "unconditional_branch", "bl_imm", "bx", "blx"}
<1>4. ~branches /\ kind \notin {"mrs", "msr", "cps", "svc", "bkpt", "wfe"} /\ kind \notin Undefined
  BY DEF Stores, Loads, Undefined
<1> HIDE DEF kind, hw, Logic, Shift, Extend, Address
<1>5. x \in CASE kind \in Arithmetic -> {Add(Sums(kind, hw, m), m)}
              [] kind \in Logic -> {Logical(kind, hw, m)}
              [] kind \in Shift -> Shifts(kind, hw, m)
              [] kind \in Extend -> {Extended(kind, hw, m)}
              [] kind \in Address -> {Addressing(kind, hw, m)}
              [] moves -> {MoveHigh(kind, hw, m)}
              [] stores -> {Store(kind, hw, m)}
              [] loads -> {Load(kind, hw, m)}
              [] kind = "push" -> {Push(hw, m)}
              [] kind = "pop" -> {Pop(hw, m)}
              [] kind = "stm" -> {Stm(hw, m)}
              [] kind = "ldm" -> {Ldm(hw, m)}
              [] branches -> {Branch(kind, pair, m)}
              [] kind = "mrs" -> {Mrs(pair, m)}
              [] kind = "msr" -> {Msr(pair, m)}
              [] kind = "cps" -> {[m EXCEPT !.primask = BitOf(hw, 4)]}
              [] kind = "svc" -> {[m EXCEPT !.pending = @ \cup {SVCALL}]}
              [] kind = "bkpt" -> {[m EXCEPT !.halt = TRUE]}
              [] kind = "wfe" -> {Wfe(m)}
              [] kind \in Undefined -> {HardFault(m)}
              [] OTHER -> {m}
  BY DEF Execute, kind, hw, Logic, Shift, Extend, Address
<1> HIDE DEF moves, branches, stores, loads
<1>6. /\ stores => x = Store(kind, hw, m)
      /\ loads => x = Load(kind, hw, m)
      /\ kind = "stm" => x = Stm(hw, m)
      /\ kind = "ldm" => x = Ldm(hw, m)
  <2>1. kind # "mrs" /\ kind # "msr" /\ kind # "cps" /\ kind # "svc" /\ kind # "bkpt" /\ kind # "wfe"
    BY <1>4
  <2>2. CASE stores
    BY <1>1, <1>2, <1>3, <1>4, <1>5, <2>1, <2>2
  <2>3. CASE loads
    BY <1>1, <1>2, <1>3, <1>4, <1>5, <2>1, <2>3
  <2>4. CASE kind = "stm"
    BY <1>1, <1>2, <1>3, <1>4, <1>5, <2>1, <2>4
  <2>5. CASE kind = "ldm"
    BY <1>1, <1>2, <1>3, <1>4, <1>5, <2>1, <2>5
  <2> QED BY <1>3, <2>2, <2>3, <2>4, <2>5
<1> QED BY <1>6 DEF kind, hw, stores, loads

\* The low registers are words.
LEMMA LowRegisterIs ==
  ASSUME NEW m, IsMachine(m), NEW hw \in Nat
  PROVE  /\ \A k \in 0..7 : m.r[k] \in Word /\ m.r[k] \in Int
         /\ m.r[Rd(hw)] \in Int /\ m.r[Rn(hw)] \in Int /\ m.r[Rm(hw)] \in Int /\ m.r[Rd8(hw)] \in Int
<1>1. \A k \in 0..7 : m.r[k] \in Word
  BY DEF IsMachine, HasRegisters
<1>2. Word \subseteq Int
  BY DEF Word
<1> QED BY <1>1, <1>2, RegisterFields

\* Loads and stores are aimed at an address.
LEMMA AddressIs ==
  ASSUME NEW kind \in Loads \cup Stores, NEW hw \in Nat, NEW m, IsMachine(m), m.pc \in Nat
  PROVE  AddressOf(kind, hw, m) \in Nat /\ Bytes(kind) \in {1, 2, 4}
<1>1. Bytes(kind) \in {1, 2, 4}
  BY DEF Bytes, Loads, Stores
<1>2. m.r[Rn(hw)] \in Int /\ m.r[Rm(hw)] \in Int
  BY LowRegisterIs
<1>3. Sp(m) \in Int
  BY SpIs DEF Word
<1>4. Aligned(Pc(m)) \in Int
  BY DEF Aligned, Pc
<1>5. Imm8(hw) \in Int /\ Imm5(hw) \in Int
  <2>1. \A o, n \in 0..16 : Field(hw, o, n) \in Nat
    BY FieldIs
  <2>2. 0 \in 0..16 /\ 8 \in 0..16 /\ 6 \in 0..16 /\ 5 \in 0..16
    OBVIOUS
  <2> QED BY <2>1, <2>2 DEF Imm8, Imm5
<1> DEFINE ofStack == kind \in OfStack
           literal == kind = "ldr_literal"
           immediate == kind \in Immediate
           v == CASE ofStack -> Sp(m) + 4 * Imm8(hw)
                  [] literal -> Aligned(Pc(m)) + 4 * Imm8(hw)
                  [] immediate -> m.r[Rn(hw)] + Bytes(kind) * Imm5(hw)
                  [] OTHER -> m.r[Rn(hw)] + m.r[Rm(hw)]
<1>6. Bytes(kind) * Imm5(hw) \in Int
  BY <1>1, <1>5
<1>7. ~(ofStack /\ literal) /\ ~(ofStack /\ immediate) /\ ~(literal /\ immediate)
  BY DEF OfStack, Immediate
<1>8. AddressOf(kind, hw, m) = Wrap(v)
  BY DEF AddressOf
<1> HIDE DEF ofStack, literal, immediate
<1>9. v \in Int
  BY <1>2, <1>3, <1>4, <1>5, <1>6, <1>7
<1> HIDE DEF v
<1> QED BY <1>1, <1>8, <1>9, WrapIs

LEMMA StoreTransfers ==
  ASSUME NEW kind \in Stores, NEW hw \in Nat, NEW m, IsMachine(m), m.pc \in Nat
  PROVE  Transfers(Store(kind, hw, m), m) /\ Store(kind, hw, m).r = m.r
<1> DEFINE a == AddressOf(kind, hw, m)
           size == Bytes(kind)
           v == m.r[Rt(kind, hw)]
           x == Stored(m, a, size, v)
<1>1. a \in Nat /\ size \in {1, 2, 4}
  BY AddressIs
<1>2. v \in Word
  BY LowRegisterIs, RegisterFields DEF Rt
<1>3. x = Store(kind, hw, m)
  BY DEF Store
<1>4. "mem" \in DOMAIN m /\ "pending" \in DOMAIN m /\ "r" \in DOMAIN m
  BY DEF IsMachine, HasRegisters, Blank
<1> HIDE DEF a, size, v
<1>5. MemoryOK(x.mem) /\ SameMap(x.mem, m.mem)
  BY <1>1, <1>2, <1>4, StoreKeepsMap DEF IsMachine
<1>6. OnlyChanges(x, m, {"mem", "pending"})
  BY StoredChanges
<1> HIDE DEF x
<1>7. x.r = m.r
  BY <1>4, <1>6 DEF OnlyChanges
<1>8. Transfers(x, m)
  BY <1>5, <1>6, <1>7, ChangesMore DEF Transfers, IsMachine, HasRegisters
<1> QED BY <1>3, <1>7, <1>8

LEMMA SignedIs ==
  ASSUME NEW v \in Nat, NEW n, TwoTo(n) \in Nat \ {0}
  PROVE  SignedField(v, n) \in Int
<1>1. SignedField(v, n) \in {v % TwoTo(n), (v % TwoTo(n)) - TwoTo(n)}
  BY DEF SignedField, TwoTo
<1> DEFINE p == TwoTo(n)
<1>2. v % p \in Int /\ (v % p) - p \in Int
  BY DEF TwoTo
<1> QED BY <1>1, <1>2

LEMMA LoadTransfers ==
  ASSUME NEW kind \in Loads, NEW hw \in Nat, NEW m, IsMachine(m), m.pc \in Nat
  PROVE  LET x == Load(kind, hw, m)
         IN /\ Transfers(x, m)
            /\ kind \notin Unchecked /\ x.pending # m.pending => x.r = m.r
<1> DEFINE a == AddressOf(kind, hw, m)
           size == Bytes(kind)
           got == Read(m.mem, a, size)
           value == IF kind \in {"ldrsb_reg", "ldrsh_reg"}
                    THEN SignedField(got.value, ByteBits * size) ELSE got.value
           read == [got EXCEPT !.value = value]
           i == Rt(kind, hw)
           asks == kind \notin Unchecked
           x == Load(kind, hw, m)
<1>1. a \in Nat /\ size \in {1, 2, 4}
  BY AddressIs
<1>2. i \in 0..7
  BY RegisterFields DEF Rt
<1>3. x = Loaded(m, read, i, asks)
  BY DEF Load
<1> HIDE DEF a, size
<1>4. got.value \in Nat /\ DOMAIN got = {"ok", "value"}
  <2> DEFINE mem == m.mem
  <2>1. MemoryOK(mem)
    BY DEF IsMachine
  <2> HIDE DEF mem
  <2>2. Read(mem, a, size).value \in Nat
    BY ONLY <1>1, <2>1, ReadTyped
  <2>3. DOMAIN Read(mem, a, size) = {"ok", "value"}
    BY DEF Read
  <2> QED BY <2>2, <2>3 DEF mem
<1>5. SignedField(got.value, ByteBits * size) \in Int
  <2>1. size \in 0..4
    BY <1>1
  <2>2. TwoTo(ByteBits * size) \in Nat \ {0}
    BY <2>1, BytePowers DEF TwoTo
  <2> DEFINE v == got.value
             n == ByteBits * size
  <2> HIDE DEF v, n
  <2> QED BY <1>4, <2>2, SignedIs DEF v, n
<1>6. value \in Int
  BY <1>4, <1>5
<1> HIDE DEF got, value
<1>7. read.ok = got.ok /\ read.value = value
  BY <1>4
<1> HIDE DEF read, i, x
<1>8. /\ Transfers(x, m)
      /\ read.ok => x.pending = m.pending
  <2>1. Transfers(m, m) /\ read.value \in Int
    BY <1>6, <1>7, TransfersItself
  <2> HIDE DEF asks
  <2>2. LET y == Loaded(m, read, i, asks)
        IN Transfers(y, m) /\ (read.ok => y.pending = m.pending)
    BY <1>2, <2>1, LoadedTransfers
  <2> QED BY <1>3, <2>2
<1>9. asks /\ x.pending # m.pending => x.r = m.r
  <2> SUFFICES ASSUME asks, x.pending # m.pending PROVE x.r = m.r
    OBVIOUS
  <2>1. ~read.ok
    BY <1>8
  <2>2. x = HardFault(m)
    BY <1>3, <2>1 DEF Loaded
  <2> QED BY <2>2 DEF HardFault
<1> QED BY <1>8, <1>9 DEF x

LEMMA LdmTransfers ==
  ASSUME NEW hw \in Nat, NEW m, IsMachine(m)
  PROVE  LET x == Ldm(hw, m)
             list == LowRegisters(hw)
         IN /\ Transfers(x, m)
            /\ \A k \in DOMAIN list :
                 ~Read(m.mem, Wrap(m.r[Rd8(hw)] + 4 * (k - 1)), 4).ok /\ list[k] # Rd8(hw) =>
                   x.r[list[k]] = m.r[list[k]]
<1> DEFINE list == LowRegisters(hw)
           base == m.r[Rd8(hw)]
           loaded == LoadedWords(m, base, list, TRUE)
           failed(k) == ~Read(m.mem, Wrap(base + 4 * (k - 1)), 4).ok
           x == Ldm(hw, m)
           rd == Rd8(hw)
<1>1. /\ list \in Seq(0..7) /\ DOMAIN list = 1..Len(list) /\ Len(list) \in Nat
      /\ \A j, k \in 1..Len(list) : j < k => list[j] < list[k]
  BY ListIs DEF IsList
<1>2. base \in Int
  BY LowRegisterIs
<1>3. x \in {loaded, Put(loaded, rd, base + 4 * Len(list))}
  BY DEF Ldm
<1>4. rd \in 0..7
  BY RegisterFields
<1> HIDE DEF list, base, x, rd
<1>5. /\ Transfers(loaded, m)
      /\ \A k \in 1..Len(list) : failed(k) => loaded.r[list[k]] = m.r[list[k]]
  BY <1>1, <1>2, LoadedWordsTransfer
<1> DEFINE v == base + 4 * Len(list)
<1>6. /\ Transfers(Put(loaded, rd, v), m)
      /\ \A j \in 0..12 : j # rd => Put(loaded, rd, v).r[j] = loaded.r[j]
  <2>1. v \in Int
    BY <1>1, <1>2
  <2>2. "r" \in DOMAIN m
    BY DEF IsMachine, HasRegisters, Blank
  <2>3. Transfers(loaded, m)
    BY <1>5
  <2> HIDE DEF v, loaded
  <2> QED BY ONLY <1>4, <2>1, <2>2, <2>3, PutTransfers
<1> HIDE DEF loaded, v
<1>7. Transfers(x, m)
  BY <1>3, <1>5, <1>6 DEF v
<1>8. ASSUME NEW k \in 1..Len(list), failed(k), list[k] # rd PROVE x.r[list[k]] = m.r[list[k]]
  <2>1. list[k] \in 0..12
    BY <1>1
  <2>2. loaded.r[list[k]] = m.r[list[k]]
    BY <1>5, <1>8
  <2>3. Put(loaded, rd, v).r[list[k]] = m.r[list[k]]
    BY <1>6, <1>8, <2>1, <2>2
  <2> QED BY <1>3, <2>2, <2>3 DEF v
<1> QED BY <1>1, <1>7, <1>8 DEF list, base, x, rd

LEMMA StmTransfers ==
  ASSUME NEW hw \in Nat, NEW m, IsMachine(m)
  PROVE  LET x == Stm(hw, m)
         IN Transfers(x, m) /\ (x.pending # m.pending => x.r = m.r)
<1> DEFINE list == LowRegisters(hw)
           base == m.r[Rd8(hw)]
           values == StmWords(hw, m)
           at(k) == Wrap(base + 4 * (k - 1))
           x == Stm(hw, m)
           rd == Rd8(hw)
           v == base + 4 * Len(list)
<1>1. /\ list \in Seq(0..7) /\ DOMAIN list = 1..Len(list) /\ Len(list) \in Nat
  BY ListIs DEF IsList
<1>2. base \in Int /\ rd \in 0..7
  BY LowRegisterIs, RegisterFields
<1>3. values \in Seq(Word) /\ Len(values) = Len(list)
  <2>1. \A k \in 1..Len(list) : m.r[list[k]] \in Word
    <3>1. \A k \in 1..Len(list) : list[k] \in 0..7
      BY <1>1
    <3>2. \A j \in 0..7 : m.r[j] \in Word
      BY LowRegisterIs
    <3> QED BY <3>1, <3>2
  <2>2. values = [k \in 1..Len(list) |-> m.r[list[k]]]
    BY <1>1 DEF StmWords
  <2> HIDE DEF values, list
  <2> QED BY <1>1, <2>1, <2>2
<1>4. ASSUME NEW k \in 1..Len(list) PROVE StmFails(hw, m, k) <=> ~Reaches(m.mem, at(k), 4)
  <2> DEFINE mem == m.mem
             a == at(k)
  <2>1. MemoryOK(mem) /\ a \in Nat /\ 0 \in Word /\ 4 \in {1, 2, 4}
    <3>1. 0 \in Word
      BY CodeIs DEF Word
    <3>2. a \in Nat
      <4>1. base + 4 * (k - 1) \in Int
        BY <1>1, <1>2
      <4> QED BY <4>1, WrapIs
    <3> QED BY <3>1, <3>2 DEF IsMachine
  <2>2. StmFails(hw, m, k) <=> ~Write(mem, a, 4, 0).ok
    BY DEF StmFails
  <2> HIDE DEF mem, a
  <2>3. Reaches(mem, a, 4) => Write(mem, a, 4, 0).ok
    BY <2>1, WriteIs
  <2>4. ~Reaches(mem, a, 4) => ~Write(mem, a, 4, 0).ok
    BY <2>1, OthersFail
  <2> QED BY <2>2, <2>3, <2>4 DEF mem, a
<1>5. "mem" \in DOMAIN m /\ "pending" \in DOMAIN m /\ "r" \in DOMAIN m /\ MemoryOK(m.mem)
      /\ m.r \in [0..12 -> Word]
  BY DEF IsMachine, HasRegisters, Blank
<1> HIDE DEF list, base, values, x, rd
<1>6. ASSUME NEW words \in Seq(Word)
      PROVE  LET y == StoredWords(m, base, words)
             IN /\ Transfers(y, m) /\ y.r = m.r
                /\ (\A k \in 1..Len(words) : Reaches(m.mem, at(k), 4)) => y.pending = m.pending
  <2> DEFINE y == StoredWords(m, base, words)
  <2>1. Len(words) \in Nat /\ \A k \in 1..Len(words) : words[k] \in Word
    OBVIOUS
  <2>2. /\ MemoryOK(y.mem) /\ SameMap(y.mem, m.mem)
        /\ (\A k \in 1..Len(words) : Reaches(m.mem, at(k), 4)) => y.pending = m.pending
    BY <1>2, <1>5, <2>1, StoredWordsKeepMap
  <2>3. OnlyChanges(y, m, {"mem", "pending"})
    BY <2>1, StoredWordsChanges
  <2> HIDE DEF y
  <2>4. y.r = m.r
    BY <1>5, <2>3 DEF OnlyChanges
  <2>5. Transfers(y, m)
    BY <1>5, <2>2, <2>3, <2>4, ChangesMore DEF Transfers
  <2> QED BY <2>2, <2>4, <2>5 DEF y
<1>7. CASE /\ \A k \in 1..Len(list) : ~StmFails(hw, m, k)
           /\ x = Put(StoredWords(m, base, values), rd, v)
  <2> DEFINE y == StoredWords(m, base, values)
  <2>1. Transfers(y, m) /\ y.pending = m.pending
    BY <1>3, <1>4, <1>6, <1>7
  <2>2. v \in Int
    BY <1>1, <1>2
  <2> HIDE DEF y, v
  <2>3. Transfers(Put(y, rd, v), m) /\ Put(y, rd, v).pending = y.pending
    BY <1>2, <1>5, <2>1, <2>2, PutTransfers
  <2> QED BY <1>7, <2>1, <2>3 DEF x, y
<1>8. ASSUME NEW n \in 1..Len(list), x = HardFault(StoredWords(m, base, SubSeq(values, 1, n - 1)))
      PROVE  Transfers(x, m) /\ x.r = m.r
  <2> DEFINE y == StoredWords(m, base, SubSeq(values, 1, n - 1))
  <2>1. SubSeq(values, 1, n - 1) \in Seq(Word)
    BY <1>1, <1>3
  <2>2. Transfers(y, m) /\ y.r = m.r
    BY <1>6, <2>1
  <2> HIDE DEF y
  <2>3. Transfers(HardFault(y), m) /\ HardFault(y).r = y.r
    BY <1>5, <2>2 DEF Transfers, OnlyChanges, HardFault
  <2> QED BY <1>8, <2>2, <2>3 DEF y
<1>9. \/ /\ \A k \in 1..Len(list) : ~StmFails(hw, m, k)
         /\ x = Put(StoredWords(m, base, values), rd, v)
      \/ \E n \in 1..Len(list) : x = HardFault(StoredWords(m, base, SubSeq(values, 1, n - 1)))
  BY StmIs DEF x, list, base, values, rd
<1> QED BY <1>7, <1>8, <1>9 DEF x

\* The stack of m has room for a frame.
HasRoom(m) == \A k \in 1..9 : Sp(m) - 4 * k \in DOMAIN m.mem.words

\* Then the frame is below the stack pointer, in memory, and does not wrap.
LEMMA RoomIs ==
  ASSUME NEW m, IsMachine(m), HasRoom(m)
  PROVE  /\ HasFrame(m) /\ Frame(m) \in Nat /\ Wrap(Frame(m)) = Frame(m)
         /\ \A k \in 0..7 : FrameWord(m, k) = Frame(m) + 4 * k /\ FrameWord(m, k) \in DOMAIN m.mem.words
<1> DEFINE s == Sp(m)
           f == Field(s - 32, 2, 1)
<1>1. s \in Nat /\ s < Modulus /\ Modulus \in Nat \ {0}
  BY SpIs, CodeIs DEF Word
<1>2. \A k \in 1..9 : s - 4 * k \in DOMAIN m.mem.words /\ s - 4 * k \in Nat
  BY DEF HasRoom, IsMachine, MemoryOK
<1>3. s >= 36
  BY <1>1, <1>2
<1>4. f \in 0..1
  <2> DEFINE b == s - 32
  <2>1. b \in Nat /\ 2 \in 0..16 /\ 1 \in 0..16
    BY <1>1, <1>3
  <2> HIDE DEF b
  <2>2. Field(b, 2, 1) \in Nat /\ Field(b, 2, 1) < 2^1
    BY <2>1, FieldIs
  <2>3. Field(b, 2, 1) \in Nat /\ Field(b, 2, 1) < 2
    BY <2>2, SmallPowers
  <2> QED BY <2>3 DEF b
<1>5. Frame(m) = s - 32 - 4 * f
  <2>1. Wrap(s - 32) = s - 32
    BY <1>1, <1>3 DEF Wrap
  <2> QED BY <2>1 DEF Frame, FrameBelow
<1> HIDE DEF s, f
<1>6. ASSUME NEW k \in 0..7
      PROVE  /\ FrameWord(m, k) = Frame(m) + 4 * k
             /\ FrameWord(m, k) \in DOMAIN m.mem.words /\ FrameWord(m, k) \in Nat
  <2> DEFINE a == Frame(m) + 4 * k
             n == 8 + f - k
  <2>1. n \in 1..9 /\ a = s - 4 * n
    BY <1>1, <1>4, <1>5
  <2> HIDE DEF a, n
  <2>2. a \in Nat /\ a < Modulus /\ a \in DOMAIN m.mem.words
    BY <1>1, <1>2, <2>1
  <2>3. Wrap(a) = a
    BY <1>1, <2>2 DEF Wrap
  <2> QED BY <2>2, <2>3 DEF FrameWord, a
<1>7. Frame(m) \in Nat /\ Frame(m) < Modulus
  BY <1>1, <1>3, <1>4, <1>5
<1>8. HasFrame(m)
  <2>1. \A k \in 0..7 : Aligned(FrameWord(m, k)) = FrameWord(m, k) /\ FrameWord(m, k) % 4 = 0
    BY <1>6 DEF IsMachine, MemoryOK, Aligned
  <2> QED BY <1>6, <2>1 DEF HasFrame, Reaches
<1> QED BY <1>1, <1>6, <1>7, <1>8 DEF Wrap

LEMMA PushKeepsMap ==
  ASSUME NEW m, IsMachine(m), NEW ra \in Word
  PROVE  SameMap(PushStack(ra, m).mem, m.mem)
<1> DEFINE words == Stacked(m, ra)
           x == WithSp(m, Frame(m))
           frame == Frame(m)
<1>1. Sp(m) \in Word /\ Sp(m) % 4 = 0
  BY SpIs
<1>2. Field(Sp(m), 2, 1) \in 0..1 /\ frame \in Int
  BY <1>1, FrameFits DEF Frame, Word
<1>3. /\ DOMAIN x = DOMAIN Blank /\ x.mem = m.mem /\ MemoryOK(x.mem)
  BY DEF WithSp, IsMachine, HasRegisters, Blank
<1>4. Len(words) = 8 /\ \A i \in 1..8 : words[i] \in Word
  <2>1. Xpsr(m) + Field(Sp(m), 2, 1) * 2^AlignBit \in Word
    BY <1>2, XpsrIs
  <2>2. /\ m.r[0] \in Word /\ m.r[1] \in Word /\ m.r[2] \in Word /\ m.r[3] \in Word
        /\ m.r[12] \in Word /\ m.lr \in Word
    BY DEF IsMachine, HasRegisters
  <2> QED BY <2>1, <2>2 DEF Stacked
<1> DEFINE y == StoredWords(x, frame, words)
<1>5. PushStack(ra, m) = [y EXCEPT !.lr = Link(m)]
  BY DEF PushStack, Frame, FrameBelow, Link, Stacked
<1>6. "mem" \in DOMAIN x /\ "pending" \in DOMAIN x
  BY <1>3 DEF Blank
<1> HIDE DEF words, x, frame
<1>7. SameMap(y.mem, x.mem)
  BY <1>2, <1>3, <1>4, <1>6, StoredWordsKeepMap
<1>8. PushStack(ra, m).mem = y.mem
  BY <1>5
<1> QED BY <1>3, <1>7, <1>8

\* The frame has the address to return to.
LEMMA FrameReturns ==
  ASSUME NEW m, IsMachine(m), HasRoom(m), NEW ra \in Word, NEW e
  PROVE  LET entered == ExceptionEntry(e, ra, m)
             frame == IF entered.lr = ToThreadProcess THEN entered.process ELSE entered.main
         IN entered.r = m.r /\ entered.mem.words[frame + 24] = ra
<1> DEFINE x == WithSp(m, Frame(m))
           entered == ExceptionEntry(e, ra, m)
           mem == entered.mem
           frame == IF entered.lr = ToThreadProcess THEN entered.process ELSE entered.main
           a == FrameWord(m, 6)
<1>1. HasFrame(m) /\ Wrap(Frame(m)) = Frame(m) /\ a = Frame(m) + 24 /\ a \in DOMAIN m.mem.words
  <2>1. 6 \in 0..7 /\ 4 * 6 = 24
    OBVIOUS
  <2> QED BY <2>1, RoomIs
<1>2. /\ entered.r = m.r /\ entered.lr = Link(m) /\ entered.main = x.main /\ entered.process = x.process
      /\ HoldsFrame(mem, m, ra) /\ mem = PushStack(ra, m).mem
  BY <1>1, EnteredIs
<1>3. SameMap(mem, m.mem) /\ MemoryOK(mem)
  <2>1. MemoryOK(PushStack(ra, m).mem)
    <3>1. PICK new : PushStack(ra, m) = [WithSp(m, Frame(m)) EXCEPT !.mem = new, !.lr = Link(m)]
                     /\ MemoryOK(new)
      BY <1>1, PushedIs
    <3>2. "mem" \in DOMAIN WithSp(m, Frame(m))
      BY DEF WithSp, IsMachine, HasRegisters, Blank
    <3> QED BY <3>1, <3>2
  <2> QED BY <1>2, <2>1, PushKeepsMap
<1>4. frame = Frame(m)
  <2>1. Link(m) = ToThreadProcess <=> OnProcessStack(m)
    <3>1. m.mode \in {"thread", "handler"} /\ m.spsel \in BOOLEAN /\ (m.mode = "handler" => ~m.spsel)
      BY DEF IsMachine, HasRegisters
    <3>2. ToHandler # ToThreadProcess /\ ToThreadMain # ToThreadProcess
      BY CodeIs DEF ToHandler, ToThreadMain, ToThreadProcess, ExcReturn
    <3> QED BY <3>1, <3>2 DEF Link, OnProcessStack
  <2>2. /\ OnProcessStack(m) => x.process = Frame(m)
        /\ ~OnProcessStack(m) => x.main = Frame(m)
    BY <1>1 DEF WithSp, IsMachine, HasRegisters, Blank
  <2> HIDE DEF x, entered
  <2> QED BY <1>2, <2>1, <2>2
<1> HIDE DEF x, entered, mem, a, frame
<1>5. Read(mem, a, 4) = [ok |-> TRUE, value |-> ra]
  <2>1. 6 \in 0..7
    OBVIOUS
  <2>2. Stacked(m, ra)[6 + 1] = ra
    BY DEF Stacked
  <2> QED BY <1>2, <2>1, <2>2 DEF HoldsFrame, a
<1>6. a \in DOMAIN mem.words /\ a \notin DOMAIN mem.registers /\ a \in Nat /\ a % 4 = 0
  BY <1>1, <1>3 DEF SameMap, MemoryOK
<1>7. Reaches(mem, a, 4) /\ WordsOf(mem)[a] = mem.words[a]
  <2>1. Aligned(a) = a
    BY <1>6 DEF Aligned
  <2> QED BY <1>3, <1>6, <2>1, WordsIs DEF Reaches
<1>8. mem.words[a] = ra
  BY <1>3, <1>5, <1>6, <1>7, ReadIs
<1> QED BY <1>1, <1>2, <1>4, <1>8 DEF entered, mem, frame

\* From reset on the code runs on the main stack, and an instruction that is
\* tried finds a machine that an exception can interrupt.
FrameInv ==
  /\ stage \in {"reset", "main"} =>
       machine.mode = "thread" /\ machine.ipsr = 0 /\ machine.active = {}
  /\ stage = "stepped" => IsMachine(before) /\ HasRoom(before)

LEMMA PreparedIs ==
  ASSUME ImageInv, BootInv, FrameInv, stage = "main", NEW s \in Setups(image)
  PROVE  IsMachine(Prepared(s)) /\ HasRoom(Prepared(s))
<1> DEFINE x == Prepared(s)
           sp == IF s.spsel THEN s.process ELSE s.main
<1>1. /\ HasRegisters(machine) /\ MemoryOK(machine.mem) /\ machine.mode = "thread"
      /\ machine.ipsr = 0 /\ machine.active = {} /\ image \in Images
  BY ImageMemory DEF BootInv, FrameInv, ImageInv
<1>2. /\ s.r \in [0..12 -> Word] /\ s.lr \in Word /\ s.main \in Word /\ s.process \in Word
      /\ s.spsel \in BOOLEAN
      /\ \A k \in 1..9 : Aligned(sp) - 4 * k \in UNION {Areas(segment) : segment \in ToSet(image.segments)}
  BY <1>1, SetupsAssumption
<1>3. /\ DOMAIN x = DOMAIN Blank /\ x.r = s.r /\ x.lr = s.lr /\ x.main = s.main
      /\ x.process = s.process /\ x.spsel = s.spsel /\ x.flags = FlagsOf(s.flags)
      /\ x.mem = machine.mem /\ x.mode = "thread" /\ x.ipsr = 0 /\ x.active = {}
      /\ x.thumb = machine.thumb
  BY <1>1 DEF Prepared, HasRegisters, Blank
<1>4. FlagsOf(s.flags) \in Flags
  BY DEF FlagsOf, Flags, BitOf
<1> HIDE DEF x
<1>5. HasRegisters(x)
  <2>1. x.thumb \in BOOLEAN /\ IsFiniteSet(x.active)
    BY <1>1, <1>3 DEF HasRegisters
  <2>2. x.r \in [0..12 -> Word] /\ x.lr \in Word /\ x.main \in Word /\ x.process \in Word
    BY <1>2, <1>3
  <2>3. x.flags \in Flags /\ x.spsel \in BOOLEAN
    BY <1>2, <1>3, <1>4, Zenon
  <2>4. x.ipsr \in 0..63
    BY <1>3
  <2> QED BY ONLY <1>3, <2>1, <2>2, <2>3, <2>4, Zenon DEF HasRegisters
<1>6. HasRoom(x)
  <2>1. Sp(x) = Aligned(sp)
    BY <1>3 DEF Sp, BankedSp, OnProcessStack
  <2> HIDE DEF sp
  <2>2. ASSUME NEW a, a \in UNION {Areas(segment) : segment \in ToSet(image.segments)}
        PROVE  a \in DOMAIN machine.mem.words
    <3>1. PICK k \in DOMAIN image.segments : a \in Areas(image.segments[k])
      BY <2>2 DEF ToSet
    <3>2. WellLinked(image) /\ image.fill \in Word
      BY <1>1, ImagesAssumption
    <3>3. a \in DOMAIN LoadElf(image, image.fill)
      BY <3>1, <3>2, LoadedIs
    <3>4. machine.mem.words = InitMemory(LoadElf(image, image.fill), image)
      BY DEF ImageInv
    <3>5. DOMAIN InitMemory(LoadElf(image, image.fill), image) = DOMAIN LoadElf(image, image.fill)
      BY DEF InitMemory
    <3> QED BY <3>3, <3>4, <3>5
  <2>3. \A k \in 1..9 : Aligned(sp) - 4 * k \in DOMAIN machine.mem.words
    BY <1>2, <2>2
  <2> QED BY <1>3, <2>1, <2>3 DEF HasRoom
<1> QED BY <1>1, <1>3, <1>5, <1>6 DEF IsMachine, x

LEMMA FrameStep == ImageInv /\ BootInv /\ FrameInv /\ [Next]_vars => FrameInv'
<1> SUFFICES ASSUME ImageInv, BootInv, FrameInv, [Next]_vars PROVE FrameInv'
  OBVIOUS
<1>1. CASE Reset
  <2> DEFINE start == WithSp([Blank EXCEPT !.mem = machine.mem],
                             Aligned(Read(machine.mem, 0, 4).value))
  <2>1. /\ DOMAIN start = DOMAIN Blank /\ start.mode = "thread" /\ start.ipsr = 0
        /\ start.active = {}
    BY DEF WithSp, Blank
  <2> HIDE DEF start
  <2>2. machine' = [start EXCEPT !.pc = image.entry, !.branched = TRUE, !.thumb = TRUE]
    BY <1>1 DEF Reset, start
  <2>3. machine'.mode = "thread" /\ machine'.ipsr = 0 /\ machine'.active = {}
    BY <2>1, <2>2 DEF Blank
  <2>4. stage' = "reset"
    BY <1>1 DEF Reset
  <2> QED BY <2>3, <2>4 DEF FrameInv
<1>2. CASE Startup
  <2>1. stage = "reset" /\ stage' = "main"
    BY <1>2 DEF Startup
  <2>2. machine' = [machine EXCEPT !.mem.words = InitMemory(machine.mem.words, image),
                                   !.pc = CodeStart]
    BY <1>2 DEF Startup
  <2>3. /\ DOMAIN machine = DOMAIN Blank
        /\ machine.mode = "thread" /\ machine.ipsr = 0 /\ machine.active = {}
    BY <2>1 DEF FrameInv, BootInv, HasRegisters
  <2>4. machine'.mode = "thread" /\ machine'.ipsr = 0 /\ machine'.active = {}
    BY <2>2, <2>3 DEF Blank
  <2> QED BY <2>1, <2>4 DEF FrameInv
<1>3. ASSUME NEW s \in Setups(image), NEW pair, stage = "main", TryInstruction(s, pair)
      PROVE  FrameInv'
  <2>1. before' = Prepared(s) /\ stage' = "stepped"
    BY <1>3 DEF TryInstruction
  <2>2. IsMachine(Prepared(s)) /\ HasRoom(Prepared(s))
    BY <1>3, PreparedIs
  <2> QED BY <2>1, <2>2 DEF FrameInv
<1>4. CASE stage' \notin {"reset", "main", "stepped"}
  BY <1>4 DEF FrameInv
<1>5. CASE UNCHANGED vars
  BY <1>5 DEF vars, FrameInv
<1> QED
  BY <1>1, <1>2, <1>3, <1>4, <1>5 DEF Next, LoadImage, StartProgram, Raise, RunStep

\* What a transfer that faults leaves: the operands, and a frame to return by.
LEMMA FaultKeeps ==
  ASSUME NEW m, IsReady(m), IsMachine(m), HasRoom(m), NEW pair \in Halfword \X Halfword,
         Kind(pair) \in Loads \cup Stores \cup {"stm", "ldm"},
         NEW o \in Step(m, pair), o.taken = HARDFAULT
  PROVE  \E x :
           /\ x \in Execute(pair, Begun(m)) /\ Transfers(x, Begun(m)) /\ x.pending # {}
           /\ LET frame == IF o.machine.lr = ToThreadProcess THEN o.machine.process
                           ELSE o.machine.main
              IN o.machine.r = x.r /\ o.machine.mem.words[frame + 24] = CodeStart
<1> DEFINE y == Begun(m)
           kind == Kind(pair)
           hw == pair[1]
<1>1. HARDFAULT # 0 /\ CodeStart \in Word
  BY CodeAssumption DEF HARDFAULT
<1>2. PICK x \in Execute(pair, y) : o = Ending(x, CodeStart, NextPc(x, pair))
  <2> DEFINE counted == [m EXCEPT !.count = @ + 1]
  <2>1. counted.pending = {}
    BY DEF IsReady, Blank
  <2>2. NextExceptionToTake(counted) = 0
    BY <2>1, NothingPending
  <2> QED BY <2>2, StepIs
<1>3. /\ DOMAIN y = DOMAIN Blank /\ y.pending = {} /\ y.pc \in Nat /\ y.mem = m.mem
      /\ y.r = m.r /\ y.main = m.main /\ y.process = m.process /\ y.spsel = m.spsel
      /\ y.mode = m.mode /\ y.lr = m.lr /\ y.flags = m.flags /\ y.thumb = m.thumb
      /\ y.ipsr = m.ipsr /\ y.active = m.active
  BY CodeIs DEF IsReady, Begun, Blank
<1> HIDE DEF y
<1>4. IsMachine(y)
  BY <1>3 DEF IsMachine, HasRegisters
<1>5. Transfers(x, y)
  <2>1. hw \in Nat
    BY HalfwordIs
  <2>2. /\ kind \in Stores => x = Store(kind, hw, y)
        /\ kind \in Loads => x = Load(kind, hw, y)
        /\ kind = "stm" => x = Stm(hw, y)
        /\ kind = "ldm" => x = Ldm(hw, y)
    BY TransferExecutes
  <2> HIDE DEF kind, hw
  <2>3. kind \in Stores => Transfers(x, y)
    BY <1>3, <1>4, <2>1, <2>2, StoreTransfers
  <2>4. kind \in Loads => Transfers(x, y)
    BY <1>3, <1>4, <2>1, <2>2, LoadTransfers
  <2>5. kind = "stm" => Transfers(x, y)
    BY <1>4, <2>1, <2>2, StmTransfers
  <2>6. kind = "ldm" => Transfers(x, y)
    BY <1>4, <2>1, <2>2, LdmTransfers
  <2> QED BY <2>3, <2>4, <2>5, <2>6 DEF kind
<1> DEFINE left == [x EXCEPT !.pc = CodeStart, !.branched = TRUE]
<1>6. NextExceptionToTake(x) = HARDFAULT /\ o.machine = ExceptionEntry(HARDFAULT, CodeStart, left)
  <2>1. o.taken = NextExceptionToTake(x)
    BY <1>2 DEF Ending
  <2> QED BY <1>1, <1>2, <2>1 DEF Ending
<1>7. x.pending # {}
  BY <1>1, <1>6, NothingPending
<1>8. /\ DOMAIN left = DOMAIN Blank /\ left.r = x.r /\ left.mem = x.mem
      /\ left.main = m.main /\ left.process = m.process /\ left.spsel = m.spsel
      /\ left.mode = m.mode /\ left.lr = m.lr /\ left.flags = m.flags /\ left.thumb = m.thumb
      /\ left.ipsr = m.ipsr /\ left.active = m.active
  BY <1>3, <1>5 DEF Transfers, OnlyChanges, Blank
<1>9. left.r \in [0..12 -> Word] /\ MemoryOK(left.mem) /\ SameMap(left.mem, m.mem)
  BY <1>3, <1>5, <1>8 DEF Transfers
<1> HIDE DEF left
<1>10. IsMachine(left)
  BY <1>8, <1>9 DEF IsMachine, HasRegisters
<1>11. HasRoom(left)
  <2>1. Sp(left) = Sp(m)
    BY <1>8 DEF Sp, BankedSp, OnProcessStack
  <2> QED BY <1>9, <2>1 DEF HasRoom, SameMap
<1>12. LET frame == IF o.machine.lr = ToThreadProcess THEN o.machine.process ELSE o.machine.main
       IN o.machine.r = left.r /\ o.machine.mem.words[frame + 24] = CodeStart
  BY <1>1, <1>6, <1>10, <1>11, FrameReturns
<1> QED BY <1>2, <1>5, <1>7, <1>8, <1>12 DEF y

(***************************************************************************)
(* exec(ldr_...), exec(str_...), exec(stm), exec(ldm) and the hard fault   *)
(* that ends the step: for every operand and every state of memory, an     *)
(* access that fails has changed no register that an execution of the same *)
(* instruction, after the handler, would start from, and the handler       *)
(* returns to that instruction.                                            *)
(***************************************************************************)
THEOREM FaultsAreRestartable == Spec => []FaultLeavesOperands
<1>1. StepInv /\ ReadyInv /\ FrameInv => FaultLeavesOperands
  <2> DEFINE pair == last.pair
             kind == Kind(pair)
             hw == pair[1]
             list == LowRegisters(hw)
             failed(k) == ~Read(before.mem, Wrap(before.r[Rd8(hw)] + 4 * (k - 1)), 4).ok
             frame == IF machine.lr = ToThreadProcess THEN machine.process ELSE machine.main
             y == Begun(before)
  <2> SUFFICES ASSUME StepInv, ReadyInv, FrameInv, stage = "stepped", last.taken = HARDFAULT,
                      kind \in Loads \cup Stores \cup {"stm", "ldm"}
               PROVE  /\ kind \in (Loads \ Unchecked) \cup Stores \cup {"stm"} => machine.r = before.r
                      /\ kind = "ldm" => \A k \in DOMAIN list :
                            failed(k) /\ list[k] # Rd8(hw) => machine.r[list[k]] = before.r[list[k]]
                      /\ machine.mem.words[frame + 24] = CodeStart
    BY DEF FaultLeavesOperands
  <2>1. /\ pair \in Halfword \X Halfword /\ IsReady(before) /\ IsMachine(before) /\ HasRoom(before)
        /\ hw \in Nat
    BY HalfwordIs DEF StepInv, ReadyInv, FrameInv
  <2>2. PICK o \in Step(before, pair) : machine = o.machine /\ last.taken = o.taken
    BY DEF StepInv
  <2>3. PICK x : /\ x \in Execute(pair, y) /\ Transfers(x, y) /\ x.pending # {}
                 /\ machine.r = x.r /\ machine.mem.words[frame + 24] = CodeStart
    BY <2>1, <2>2, FaultKeeps
  <2>4. /\ DOMAIN y = DOMAIN Blank /\ y.pending = {} /\ y.pc \in Nat /\ y.mem = before.mem
        /\ y.r = before.r
    BY <2>1, CodeIs DEF IsReady, Begun, Blank
  <2>5. IsMachine(y)
    BY <2>1, <2>4 DEF IsMachine, HasRegisters, IsReady, Begun, Blank
  <2>6. /\ kind \in Stores => x = Store(kind, hw, y)
        /\ kind \in Loads => x = Load(kind, hw, y)
        /\ kind = "stm" => x = Stm(hw, y)
        /\ kind = "ldm" => x = Ldm(hw, y)
    BY <2>3, TransferExecutes
  <2> HIDE DEF y, hw, kind, frame
  <2>7. kind \in Stores => x.r = y.r
    BY <2>1, <2>4, <2>5, <2>6, StoreTransfers
  <2>8. kind \in Loads \ Unchecked => x.r = y.r
    <3> SUFFICES ASSUME kind \in Loads, kind \notin Unchecked PROVE x.r = y.r
      OBVIOUS
    <3>1. x = Load(kind, hw, y) /\ x.pending # y.pending
      BY <2>3, <2>4, <2>6
    <3> QED BY <2>1, <2>4, <2>5, <3>1, LoadTransfers
  <2>9. kind = "stm" => x.r = y.r
    <3> SUFFICES ASSUME kind = "stm" PROVE x.r = y.r
      OBVIOUS
    <3>1. x = Stm(hw, y) /\ x.pending # y.pending
      BY <2>3, <2>4, <2>6
    <3> QED BY <2>1, <2>5, <3>1, StmTransfers
  <2>10. kind = "ldm" => \A k \in DOMAIN list :
           failed(k) /\ list[k] # Rd8(hw) => x.r[list[k]] = y.r[list[k]]
    <3> SUFFICES ASSUME kind = "ldm"
                 PROVE  \A k \in DOMAIN list :
                          failed(k) /\ list[k] # Rd8(hw) => x.r[list[k]] = y.r[list[k]]
      OBVIOUS
    <3>1. \A k \in DOMAIN list :
            ~Read(y.mem, Wrap(y.r[Rd8(hw)] + 4 * (k - 1)), 4).ok /\ list[k] # Rd8(hw) =>
              x.r[list[k]] = y.r[list[k]]
      BY <2>1, <2>5, <2>6, LdmTransfers
    <3> QED BY <2>4, <3>1
  <2> QED BY <2>3, <2>4, <2>7, <2>8, <2>9, <2>10
<1>2. Init => StepInv /\ ReadyInv /\ FrameInv /\ BootInv
  BY DEF Init, StepInv, ReadyInv, FrameInv, BootInv
<1> QED BY <1>1, <1>2, ImageInit, ImageStep, BootStep, StepStep, ReadyStep, FrameStep, PTL DEF Spec

-----------------------------------------------------------------------------
(* Transfers of several words *)

\* The address of one of the words of a transfer.
WordAt(a, k) == Wrap(a + 4 * (k - 1))

\* Memory has n words from address a upwards.
HasWords(mem, a, n) == \A k \in 1..n : Reaches(mem, WordAt(a, k), 4)

\* A transfer is too short to come back to where it started.
LEMMA WordsApart ==
  ASSUME NEW a \in Word, NEW n \in 0..9
  PROVE  \A k \in 1..n : /\ WordAt(a, k) \in Nat
                         /\ \A j \in 1..n : j # k => WordAt(a, j) # WordAt(a, k)
<1> DEFINE M == Modulus
<1>1. M \in Nat /\ M >= 256
  <2> DEFINE t == 2^ThumbBit
  <2>1. t \in Nat \ {0} /\ M = 256 * t
    BY UpperPowers
  <2> HIDE DEF t, M
  <2> QED BY <2>1
<1>2. \A v \in 0..(2 * M - 1) : Wrap(v) = IF v < M THEN v ELSE v - M
  BY <1>1 DEF Wrap
<1> HIDE DEF M
<1>3. a \in 0..(M - 1)
  BY DEF Word, M
<1>4. \A k \in 1..n : /\ a + 4 * (k - 1) \in 0..(2 * M - 1)
                      /\ WordAt(a, k) = IF a + 4 * (k - 1) < M THEN a + 4 * (k - 1)
                                        ELSE a + 4 * (k - 1) - M
  BY <1>1, <1>2, <1>3 DEF WordAt
<1> QED BY <1>1, <1>3, <1>4

\* What is in memory when the first k words were stored.
StoredTo(new, mem, a, words, k) ==
  /\ MemoryOK(new) /\ DOMAIN WordsOf(new) = DOMAIN WordsOf(mem)
  /\ \A i \in 1..k : WordsOf(new)[WordAt(a, i)] = words[i]
  /\ \A b \in DOMAIN WordsOf(mem) :
       (\A i \in 1..k : b # WordAt(a, i)) => WordsOf(new)[b] = WordsOf(mem)[b]

\* The memory after a store does not depend on the rest of the machine.
LEMMA StoredMemory ==
  ASSUME NEW m, "mem" \in DOMAIN m, NEW a, NEW v, Write(m.mem, a, 4, v).ok
  PROVE  /\ Stored(m, a, 4, v).mem = Write(m.mem, a, 4, v).mem
         /\ DOMAIN Stored(m, a, 4, v) = DOMAIN m
BY DEF Stored

\* One more.
LEMMA StoreOneMore ==
  ASSUME NEW mem, MemoryOK(mem), NEW a \in Word, NEW words, NEW n \in 0..9,
         HasWords(mem, a, n), \A i \in 1..n : words[i] \in Word,
         NEW k \in 1..n, NEW old, StoredTo(old, mem, a, words, k - 1)
  PROVE  LET written == Write(old, WordAt(a, k), 4, words[k])
         IN written.ok /\ StoredTo(written.mem, mem, a, words, k)
<1> DEFINE at(i) == WordAt(a, i)
           b == at(k)
           v == words[k]
           new == Write(old, b, 4, v).mem
<1>1. \A i \in 1..n : /\ at(i) \in Nat /\ at(i) % 4 = 0 /\ at(i) \in DOMAIN WordsOf(mem)
                      /\ \A j \in 1..n : j # i => at(j) # at(i)
  <2>1. \A i \in 1..n : at(i) \in Nat /\ \A j \in 1..n : j # i => at(j) # at(i)
    BY WordsApart
  <2>2. \A i \in 1..n : Reaches(mem, at(i), 4)
    BY DEF HasWords
  <2> HIDE DEF at
  <2> QED BY <2>1, <2>2, ReachIs
<1>2. MemoryOK(old) /\ DOMAIN WordsOf(old) = DOMAIN WordsOf(mem)
  BY DEF StoredTo
<1>3. b \in Nat /\ v \in Word /\ b \in DOMAIN WordsOf(old)
  BY <1>1, <1>2
<1>4. Reaches(old, b, 4)
  <2>1. b % 4 = 0
    BY <1>1
  <2> HIDE DEF b
  <2> QED BY <1>2, <1>3, <2>1, ReachIs
<1> HIDE DEF b, v
<1>5. /\ Write(old, b, 4, v).ok /\ MemoryOK(new)
      /\ WordsOf(new) = [WordsOf(old) EXCEPT ![b] = v]
  BY <1>2, <1>3, <1>4, WriteWord
<1> HIDE DEF new, at
<1>6. \A i \in 1..k : WordsOf(new)[at(i)] = words[i]
  <2> SUFFICES ASSUME NEW i \in 1..k PROVE WordsOf(new)[at(i)] = words[i]
    OBVIOUS
  <2>1. CASE i = k
    BY <1>3, <1>5, <2>1 DEF b, v
  <2>2. CASE i # k
    <3>1. i \in 1..(k - 1) /\ i \in 1..n /\ k \in 1..n
      BY <2>2
    <3>2. at(i) # b /\ at(i) \in DOMAIN WordsOf(old)
      BY <1>1, <1>2, <2>2, <3>1 DEF b
    <3>3. WordsOf(old)[at(i)] = words[i]
      BY <3>1 DEF StoredTo, at
    <3> QED BY <1>5, <3>2, <3>3
  <2> QED BY <2>1, <2>2
<1>7. \A c \in DOMAIN WordsOf(mem) :
        (\A i \in 1..k : c # at(i)) => WordsOf(new)[c] = WordsOf(mem)[c]
  <2> SUFFICES ASSUME NEW c \in DOMAIN WordsOf(mem), \A i \in 1..k : c # at(i)
               PROVE  WordsOf(new)[c] = WordsOf(mem)[c]
    OBVIOUS
  <2>1. c # b /\ \A i \in 1..(k - 1) : c # at(i)
    BY DEF b
  <2>2. WordsOf(old)[c] = WordsOf(mem)[c]
    BY <2>1 DEF StoredTo, at
  <2> QED BY <1>2, <1>5, <2>1, <2>2
<1>8. DOMAIN WordsOf(new) = DOMAIN WordsOf(mem)
  BY <1>2, <1>5
<1> QED BY <1>5, <1>6, <1>7, <1>8 DEF StoredTo, new, at, b, v

\* Words that have memory are stored at their addresses, and nothing else is.
LEMMA StoredInOrder ==
  ASSUME NEW m, "mem" \in DOMAIN m, MemoryOK(m.mem), NEW a \in Word, NEW words,
         NEW n \in 0..9, Len(words) = n, \A i \in 1..n : words[i] \in Word,
         HasWords(m.mem, a, n)
  PROVE  StoredTo(StoredWords(m, a, words).mem, m.mem, a, words, n)
<1>1. PICK after :
        /\ after[0] = m /\ after[n] = StoredWords(m, a, words)
        /\ \A k \in 1..n : after[k] = Stored(after[k - 1], WordAt(a, k), 4, words[k])
  <2>1. Len(words) \in Nat
    OBVIOUS
  <2> QED BY <2>1, EachStored DEF WordAt
<1> DEFINE Done(x, k) == "mem" \in DOMAIN x /\ StoredTo(x.mem, m.mem, a, words, k)
           T == {k \in 0..n : Done(after[k], k)}
<1>2. 0 \in T
  BY <1>1 DEF StoredTo
<1>3. ASSUME NEW k \in 1..n, k - 1 \in T PROVE k \in T
  <2> DEFINE x == after[k - 1]
             old == x.mem
             mem == m.mem
  <2>1. "mem" \in DOMAIN x /\ StoredTo(old, mem, a, words, k - 1)
    BY <1>3
  <2>2. after[k] = Stored(x, WordAt(a, k), 4, words[k])
    BY <1>1
  <2> HIDE DEF x
  <2>3. LET written == Write(old, WordAt(a, k), 4, words[k])
        IN written.ok /\ StoredTo(written.mem, mem, a, words, k)
    <3> HIDE DEF old
    <3>1. MemoryOK(mem) /\ HasWords(mem, a, n)
      OBVIOUS
    <3> HIDE DEF mem
    <3> QED BY <2>1, <3>1, StoreOneMore
  <2>4. Done(Stored(x, WordAt(a, k), 4, words[k]), k)
    BY <2>1, <2>3, StoredMemory
  <2> QED BY <2>2, <2>4
<1> HIDE DEF T
<1>4. n \in T
  <2>1. \A k \in 1..n : k - 1 \in T => k \in T
    BY <1>3
  <2>2. n \in Nat
    OBVIOUS
  <2>3. \A k \in 0..n : k \in T
    BY <1>2, <2>1, <2>2, Climbing
  <2> QED BY <2>2, <2>3
<1> QED BY <1>1, <1>4 DEF T

\* What is read where they were stored.
LEMMA ReadsStored ==
  ASSUME NEW mem, MemoryOK(mem), NEW a \in Word, NEW n \in 0..9, HasWords(mem, a, n),
         NEW words, NEW new, StoredTo(new, mem, a, words, n)
  PROVE  \A k \in 1..n : Read(new, WordAt(a, k), 4) = [ok |-> TRUE, value |-> words[k]]
<1> SUFFICES ASSUME NEW k \in 1..n
             PROVE  Read(new, WordAt(a, k), 4) = [ok |-> TRUE, value |-> words[k]]
  OBVIOUS
<1> DEFINE b == WordAt(a, k)
<1>1. b \in Nat /\ Reaches(mem, b, 4)
  BY WordsApart DEF HasWords
<1>2. MemoryOK(new) /\ DOMAIN WordsOf(new) = DOMAIN WordsOf(mem) /\ WordsOf(new)[b] = words[k]
  BY DEF StoredTo
<1> HIDE DEF b
<1>3. Reaches(new, b, 4)
  BY <1>1, <1>2, ReachIs
<1> QED BY <1>1, <1>2, <1>3, ReadIs DEF b

\* A word that is read.
LEMMA WordIsRead ==
  ASSUME NEW mem, MemoryOK(mem), NEW a \in Nat, Reaches(mem, a, 4)
  PROVE  LET got == Read(mem, a, 4) IN got.ok /\ got.value \in Word /\ Wrap(got.value) = got.value
<1>1. Read(mem, a, 4) = [ok |-> TRUE, value |-> WordsOf(mem)[a]]
  BY ReadIs
<1>2. a \in DOMAIN WordsOf(mem)
  BY ReachIs
<1>3. WordsOf(mem)[a] \in Word
  BY <1>2, WordsIs DEF MemoryOK
<1>4. \A v \in Word : Wrap(v) = v
  BY CodeIs DEF Word, Wrap
<1> QED BY <1>1, <1>3, <1>4

\* The machine when the first k registers of a list were loaded.
LoadedTo(x, m, a, list, k) ==
  /\ OnlyChanges(x, m, {"r"}) /\ x.r \in [0..12 -> Word]
  /\ \A i \in 1..k : x.r[list[i]] = Read(m.mem, WordAt(a, i), 4).value
  /\ \A j \in 0..12 : (\A i \in 1..k : list[i] # j) => x.r[j] = m.r[j]

\* The registers of a list, all different.
IsListing(list, n) ==
  /\ n \in 0..8 /\ Len(list) = n
  /\ \A k \in 1..n : list[k] \in 0..7 /\ \A j \in 1..n : j # k => list[j] # list[k]

LEMMA LoadOneMore ==
  ASSUME NEW m, IsMachine(m), NEW a \in Word, NEW list, NEW n, IsListing(list, n),
         HasWords(m.mem, a, n),
         NEW k \in 1..n, NEW x, LoadedTo(x, m, a, list, k - 1), NEW asks
  PROVE  LoadedTo(Loaded(x, Read(m.mem, WordAt(a, k), 4), list[k], asks), m, a, list, k)
<1> DEFINE b == WordAt(a, k)
           got == Read(m.mem, b, 4)
           i == list[k]
           y == Loaded(x, got, i, asks)
<1>1. MemoryOK(m.mem) /\ "r" \in DOMAIN m /\ n \in 0..8 /\ n \in 0..9
  BY DEF IsMachine, HasRegisters, Blank, IsListing
<1>2. b \in Nat /\ Reaches(m.mem, b, 4)
  BY <1>1, WordsApart DEF HasWords
<1>3. got.ok /\ got.value \in Word /\ Wrap(got.value) = got.value
  <2> HIDE DEF b
  <2> QED BY <1>1, <1>2, WordIsRead
<1>4. i \in 0..7 /\ \A j \in 1..n : j # k => list[j] # i
  BY DEF IsListing
<1>5. y = Put(x, i, got.value)
  BY <1>3 DEF Loaded
<1> HIDE DEF b, got, i, y
<1>6. y = [x EXCEPT !.r[i] = got.value]
  BY <1>3, <1>4, <1>5 DEF Put, SP, LR, PC, Discarded
<1>7. /\ DOMAIN x = DOMAIN m /\ "r" \in DOMAIN x /\ x.r \in [0..12 -> Word]
      /\ \A f \in DOMAIN m \ {"r"} : x[f] = m[f]
  BY <1>1 DEF LoadedTo, OnlyChanges
<1>8. /\ OnlyChanges(y, m, {"r"}) /\ y.r = [x.r EXCEPT ![i] = got.value]
  BY <1>6, <1>7 DEF OnlyChanges
<1>9. /\ y.r \in [0..12 -> Word] /\ y.r[i] = got.value
      /\ \A j \in 0..12 : j # i => y.r[j] = x.r[j]
  BY <1>3, <1>4, <1>7, <1>8
<1>10. \A j \in 1..k : y.r[list[j]] = Read(m.mem, WordAt(a, j), 4).value
  <2> SUFFICES ASSUME NEW j \in 1..k PROVE y.r[list[j]] = Read(m.mem, WordAt(a, j), 4).value
    OBVIOUS
  <2>1. CASE j = k
    BY <1>9, <2>1 DEF i, got, b
  <2>2. CASE j # k
    <3>1. j \in 1..(k - 1) /\ j \in 1..n
      BY <1>1, <2>2
    <3>2. list[j] \in 0..12 /\ list[j] # i
      BY <1>4, <2>2, <3>1 DEF IsListing
    <3>3. x.r[list[j]] = Read(m.mem, WordAt(a, j), 4).value
      BY <3>1 DEF LoadedTo
    <3> QED BY <1>9, <3>2, <3>3
  <2> QED BY <2>1, <2>2
<1>11. \A j \in 0..12 : (\A c \in 1..k : list[c] # j) => y.r[j] = m.r[j]
  <2> SUFFICES ASSUME NEW j \in 0..12, \A c \in 1..k : list[c] # j PROVE y.r[j] = m.r[j]
    OBVIOUS
  <2>1. j # i /\ \A c \in 1..(k - 1) : list[c] # j
    BY <1>1 DEF i
  <2>2. x.r[j] = m.r[j]
    BY <2>1 DEF LoadedTo
  <2> QED BY <1>9, <2>1, <2>2
<1> QED BY <1>8, <1>9, <1>10, <1>11 DEF LoadedTo, y, i, got, b

\* Registers are loaded in order from words that memory has, and no other register is.
LEMMA LoadedInOrder ==
  ASSUME NEW m, IsMachine(m), NEW a \in Word, NEW list, NEW n, IsListing(list, n),
         HasWords(m.mem, a, n), NEW asks
  PROVE  LoadedTo(LoadedWords(m, a, list, asks), m, a, list, n)
<1>1. n \in Nat /\ Len(list) = n
  BY DEF IsListing
<1>2. PICK after :
        /\ after[0] = m /\ after[n] = LoadedWords(m, a, list, asks)
        /\ \A k \in 1..n : after[k] = Loaded(after[k - 1], Read(m.mem, WordAt(a, k), 4), list[k], asks)
  <2>1. \E after :
          /\ after[0] = m /\ after[Len(list)] = LoadedWords(m, a, list, asks)
          /\ \A k \in 1..Len(list) :
               after[k] = Loaded(after[k - 1], Read(m.mem, Wrap(a + 4 * (k - 1)), 4), list[k], asks)
    BY <1>1, EachLoaded
  <2> QED BY <1>1, <2>1 DEF WordAt
<1> DEFINE T == {k \in 0..n : LoadedTo(after[k], m, a, list, k)}
<1>3. 0 \in T
  <2>1. m.r \in [0..12 -> Word]
    BY DEF IsMachine, HasRegisters
  <2>2. LoadedTo(m, m, a, list, 0)
    BY <2>1 DEF LoadedTo, OnlyChanges
  <2> QED BY <1>1, <1>2, <2>2
<1>4. ASSUME NEW k \in 1..n, k - 1 \in T PROVE k \in T
  <2> DEFINE x == after[k - 1]
  <2>1. LoadedTo(x, m, a, list, k - 1)
    BY <1>4
  <2>2. after[k] = Loaded(x, Read(m.mem, WordAt(a, k), 4), list[k], asks)
    BY <1>2
  <2> HIDE DEF x
  <2>3. LoadedTo(Loaded(x, Read(m.mem, WordAt(a, k), 4), list[k], asks), m, a, list, k)
    BY <2>1, LoadOneMore
  <2>4. k \in 0..n
    BY <1>1
  <2> QED BY <2>2, <2>3, <2>4
<1> HIDE DEF T
<1>5. n \in T
  <2>1. \A k \in 1..n : k - 1 \in T => k \in T
    BY <1>4
  <2>2. \A k \in 0..n : k \in T
    BY <1>1, <1>3, <2>1, Climbing
  <2> QED BY <1>1, <2>2
<1> QED BY <1>2, <1>5 DEF T

\* The lists of instructions are such.
LEMMA ListingIs ==
  ASSUME NEW hw
  PROVE  IsListing(LowRegisters(hw), Len(LowRegisters(hw)))
<1> DEFINE s == LowRegisters(hw)
           n == Len(s)
<1>1. /\ s \in Seq(0..7) /\ n <= 8 /\ \A j, k \in 1..n : j < k => s[j] < s[k]
  BY ListIs DEF IsList
<1> HIDE DEF s
<1>2. n \in 0..8 /\ \A k \in 1..n : s[k] \in 0..7
  <2>1. n \in Nat /\ \A k \in 1..n : s[k] \in 0..7
    BY <1>1
  <2> HIDE DEF n
  <2> QED BY <1>1, <2>1
<1>3. \A j, k \in 1..n : j # k => s[j] # s[k]
  <2> SUFFICES ASSUME NEW j \in 1..n, NEW k \in 1..n, j # k PROVE s[j] # s[k]
    OBVIOUS
  <2>1. j < k \/ k < j
    BY <1>2
  <2> QED BY <1>1, <1>2, <2>1
<1> QED BY <1>2, <1>3 DEF IsListing, s

\* And every register whose bit is set is listed.
LEMMA AllAreListed ==
  ASSUME NEW hw, NEW i \in 0..7, BitOf(hw, i)
  PROVE  \E k \in 1..Len(LowRegisters(hw)) : LowRegisters(hw)[k] = i
<1>1. PICK below :
        /\ below[0] = <<>> /\ below[8] = LowRegisters(hw)
        /\ \A r \in 1..8 :
             below[r] = IF BitOf(hw, r - 1) THEN Append(below[r - 1], r - 1) ELSE below[r - 1]
  BY EachListed
<1> DEFINE T == {r \in 0..8 : below[r] \in Seq(0..7) /\ (i < r => \E k \in 1..Len(below[r]) : below[r][k] = i)}
<1>2. 0 \in T
  <2>1. <<>> \in Seq(0..7) /\ ~(i < 0)
    OBVIOUS
  <2>2. below[0] \in Seq(0..7)
    BY <1>1, <2>1
  <2> QED BY <2>1, <2>2
<1>3. ASSUME NEW r \in 1..8, r - 1 \in T PROVE r \in T
  <2> DEFINE s == below[r - 1]
             t == below[r]
  <2>1. s \in Seq(0..7) /\ Len(s) \in Nat /\ (i < r - 1 => \E k \in 1..Len(s) : s[k] = i)
    BY <1>3
  <2>2. t = IF BitOf(hw, r - 1) THEN Append(s, r - 1) ELSE s
    BY <1>1
  <2> HIDE DEF s, t
  <2>3. CASE BitOf(hw, r - 1)
    <3>1. /\ t \in Seq(0..7) /\ Len(t) = Len(s) + 1 /\ t[Len(s) + 1] = r - 1
          /\ \A k \in 1..Len(s) : t[k] = s[k]
      BY <2>1, <2>2, <2>3
    <3>2. i < r => \E k \in 1..Len(t) : t[k] = i
      <4>1. CASE i < r - 1
        <5>1. PICK k \in 1..Len(s) : s[k] = i
          BY <2>1, <4>1
        <5>2. k \in 1..Len(t) /\ t[k] = i
          BY <2>1, <3>1, <5>1
        <5> QED BY <5>2
      <4>2. CASE i = r - 1
        <5>1. Len(s) + 1 \in 1..Len(t)
          BY <2>1, <3>1
        <5> QED BY <3>1, <4>2, <5>1
      <4> QED BY <4>1, <4>2
    <3> QED BY <3>1, <3>2 DEF t
  <2>4. CASE ~BitOf(hw, r - 1)
    <3>1. t = s /\ i # r - 1
      BY <2>2, <2>4
    <3>2. i < r => i < r - 1
      BY <3>1
    <3> QED BY <2>1, <3>1, <3>2 DEF t
  <2> QED BY <2>3, <2>4
<1> HIDE DEF T
<1>4. \A r \in 0..8 : r \in T
  <2>1. \A r \in 1..8 : r - 1 \in T => r \in T
    BY <1>3
  <2> QED BY <1>2, <2>1, Climbing
<1>5. \E k \in 1..Len(below[8]) : below[8][k] = i
  <2>1. 8 \in T
    BY <1>4
  <2> QED BY <2>1 DEF T
<1> QED BY <1>1, <1>5

(***************************************************************************)
(* exec(stm): when every address has memory, the registers of the list are *)
(* in it in order from the base upwards, as they were before the           *)
(* instruction, also a base that is listed; no other word changes, and of  *)
(* the registers only the base does, which is past the last word.          *)
(***************************************************************************)
THEOREM StmStoresInOrder ==
  ASSUME NEW hw \in Nat, NEW m, IsMachine(m),
         HasWords(m.mem, m.r[Rd8(hw)], Len(LowRegisters(hw)))
  PROVE  LET list == LowRegisters(hw)
             base == m.r[Rd8(hw)]
             x    == Stm(hw, m)
         IN /\ \A k \in DOMAIN list :
                 Read(x.mem, WordAt(base, k), 4) = [ok |-> TRUE, value |-> m.r[list[k]]]
            /\ DOMAIN WordsOf(x.mem) = DOMAIN WordsOf(m.mem)
            /\ \A b \in DOMAIN WordsOf(m.mem) :
                 (\A k \in DOMAIN list : b # WordAt(base, k)) =>
                   WordsOf(x.mem)[b] = WordsOf(m.mem)[b]
            /\ x.r[Rd8(hw)] = Wrap(base + 4 * Len(list))
            /\ \A j \in 0..12 : j # Rd8(hw) => x.r[j] = m.r[j]
            /\ OnlyChanges(x, m, {"r", "mem"})
<1> DEFINE list == LowRegisters(hw)
           n == Len(list)
           rd == Rd8(hw)
           base == m.r[rd]
           values == StmWords(hw, m)
           x == Stm(hw, m)
           y == StoredWords(m, base, values)
           v == base + 4 * n
<1>1. IsListing(list, n) /\ DOMAIN list = 1..n /\ n \in 0..9
  <2>1. list \in Seq(0..7)
    BY ListIs DEF IsList
  <2>2. IsListing(list, n)
    BY ListingIs
  <2> HIDE DEF list
  <2> QED BY <2>1, <2>2 DEF IsListing
<1>2. rd \in 0..7 /\ base \in Word /\ base \in Int
  BY RegisterFields, LowRegisterIs
<1>3. /\ DOMAIN m = DOMAIN Blank /\ "mem" \in DOMAIN m /\ "r" \in DOMAIN m /\ "pending" \in DOMAIN m
      /\ MemoryOK(m.mem) /\ m.r \in [0..12 -> Word]
  BY DEF IsMachine, HasRegisters, Blank
<1>4. Len(values) = n /\ \A k \in 1..n : values[k] = m.r[list[k]] /\ values[k] \in Word
  <2>1. values = [k \in 1..n |-> m.r[list[k]]]
    BY <1>1 DEF StmWords
  <2> HIDE DEF values, list
  <2>2. Len(values) = n
    BY <1>1, <2>1
  <2>3. \A k \in 1..n : list[k] \in 0..12
    BY <1>1 DEF IsListing
  <2> QED BY <1>3, <2>1, <2>2, <2>3
<1>5. HasWords(m.mem, base, n)
  OBVIOUS
<1>6. ASSUME NEW k \in 1..n PROVE ~StmFails(hw, m, k)
  <2> DEFINE mem == m.mem
             a == WordAt(base, k)
  <2>1. MemoryOK(mem) /\ 0 \in Word
    BY <1>3, CodeIs DEF Word
  <2>2. a \in Nat /\ Reaches(mem, a, 4)
    BY <1>1, <1>2, <1>5, WordsApart DEF HasWords
  <2>3. StmFails(hw, m, k) <=> ~Write(mem, a, 4, 0).ok
    BY DEF StmFails, WordAt
  <2> HIDE DEF mem, a
  <2>4. Write(mem, a, 4, 0).ok
    BY <2>1, <2>2, WriteWord
  <2> QED BY <2>3, <2>4
<1>7. x = Put(y, rd, v)
  BY <1>6, StmIs
<1> HIDE DEF list, n, rd, base, values, x, y, v
<1>8. StoredTo(y.mem, m.mem, base, values, n) /\ OnlyChanges(y, m, {"mem"})
  <2>1. StoredTo(y.mem, m.mem, base, values, n)
    <3>1. \A i \in 1..n : values[i] \in Word
      BY <1>4
    <3> QED BY <1>1, <1>2, <1>3, <1>4, <1>5, <3>1, StoredInOrder DEF y
  <2>2. Len(values) \in Nat
    BY <1>1, <1>4
  <2>3. y.pending = m.pending
    <3>1. \A k \in 1..Len(values) : Reaches(m.mem, Wrap(base + 4 * (k - 1)), 4)
      BY <1>4, <1>5 DEF HasWords, WordAt
    <3>2. \A k \in 1..Len(values) : values[k] \in Word
      BY <1>4
    <3> QED BY <1>2, <1>3, <2>2, <3>1, <3>2, StoredWordsKeepMap DEF y
  <2>4. OnlyChanges(y, m, {"mem", "pending"})
    BY <2>2, StoredWordsChanges DEF y
  <2> QED BY <2>1, <2>3, <2>4 DEF OnlyChanges
<1>9. x = [y EXCEPT !.r[rd] = Wrap(v)]
  BY <1>2, <1>7 DEF Put, SP, LR, PC, Discarded
<1>10. /\ OnlyChanges(x, m, {"r", "mem"}) /\ x.mem = y.mem
       /\ x.r[rd] = Wrap(v) /\ \A j \in 0..12 : j # rd => x.r[j] = m.r[j]
  <2>1. /\ DOMAIN y = DOMAIN m /\ y.r = m.r /\ \A f \in DOMAIN m \ {"mem"} : y[f] = m[f]
    BY <1>3, <1>8 DEF OnlyChanges
  <2>2. x.r = [m.r EXCEPT ![rd] = Wrap(v)] /\ x.mem = y.mem /\ OnlyChanges(x, m, {"r", "mem"})
    BY <1>3, <1>9, <2>1 DEF OnlyChanges
  <2> QED BY <1>2, <1>3, <2>2
<1>11. \A k \in 1..n : Read(x.mem, WordAt(base, k), 4) = [ok |-> TRUE, value |-> m.r[list[k]]]
  <2>1. \A k \in 1..n : Read(y.mem, WordAt(base, k), 4) = [ok |-> TRUE, value |-> values[k]]
    <3> DEFINE old == m.mem
               new == y.mem
    <3>1. MemoryOK(old) /\ HasWords(old, base, n) /\ StoredTo(new, old, base, values, n)
      BY <1>3, <1>5, <1>8
    <3> HIDE DEF old, new
    <3>2. \A k \in 1..n : Read(new, WordAt(base, k), 4) = [ok |-> TRUE, value |-> values[k]]
      BY <1>1, <1>2, <3>1, ReadsStored
    <3> QED BY <3>2 DEF new
  <2> QED BY <1>4, <1>10, <2>1
<1>12. /\ DOMAIN WordsOf(x.mem) = DOMAIN WordsOf(m.mem)
       /\ \A b \in DOMAIN WordsOf(m.mem) :
            (\A k \in 1..n : b # WordAt(base, k)) => WordsOf(x.mem)[b] = WordsOf(m.mem)[b]
  BY <1>8, <1>10 DEF StoredTo
<1> QED BY <1>1, <1>10, <1>11, <1>12 DEF list, n, rd, base, x, v

(***************************************************************************)
(* exec(ldm): when every address has memory, the registers of the list get *)
(* its words in order from the base upwards; the base is past the last     *)
(* word unless it is listed, then it is loaded; nothing else changes.      *)
(***************************************************************************)
THEOREM LdmLoadsInOrder ==
  ASSUME NEW hw \in Nat, NEW m, IsMachine(m),
         HasWords(m.mem, m.r[Rd8(hw)], Len(LowRegisters(hw)))
  PROVE  LET list == LowRegisters(hw)
             base == m.r[Rd8(hw)]
             x    == Ldm(hw, m)
             listed(j) == \E k \in DOMAIN list : list[k] = j
         IN /\ \A k \in DOMAIN list : x.r[list[k]] = Read(m.mem, WordAt(base, k), 4).value
            /\ ~listed(Rd8(hw)) => x.r[Rd8(hw)] = Wrap(base + 4 * Len(list))
            /\ \A j \in 0..12 : j # Rd8(hw) /\ ~listed(j) => x.r[j] = m.r[j]
            /\ OnlyChanges(x, m, {"r"})
<1> DEFINE list == LowRegisters(hw)
           n == Len(list)
           rd == Rd8(hw)
           base == m.r[rd]
           x == Ldm(hw, m)
           y == LoadedWords(m, base, list, TRUE)
           v == base + 4 * n
           listed(j) == \E k \in 1..n : list[k] = j
<1>1. IsListing(list, n) /\ DOMAIN list = 1..n /\ n \in 0..9
  <2>1. list \in Seq(0..7)
    BY ListIs DEF IsList
  <2>2. IsListing(list, n)
    BY ListingIs
  <2> HIDE DEF list
  <2> QED BY <2>1, <2>2 DEF IsListing
<1>2. rd \in 0..7 /\ base \in Word
  BY RegisterFields, LowRegisterIs
<1>3. BitOf(hw, rd) <=> listed(rd)
  <2>1. ASSUME NEW k \in 1..n, list[k] = rd PROVE BitOf(hw, rd)
    BY <2>1, ListIs DEF IsList
  <2>2. BitOf(hw, rd) => listed(rd)
    BY <1>2, AllAreListed
  <2> QED BY <2>1, <2>2
<1>4. x = IF BitOf(hw, rd) THEN y ELSE Put(y, rd, v)
  BY DEF Ldm
<1>5. HasWords(m.mem, base, n)
  OBVIOUS
<1> HIDE DEF list, n, rd, base, x, v
<1>6. LoadedTo(y, m, base, list, n)
  <2> DEFINE asks == TRUE
  <2> HIDE DEF asks
  <2>1. LoadedTo(LoadedWords(m, base, list, asks), m, base, list, n)
    BY <1>1, <1>2, <1>5, LoadedInOrder
  <2> QED BY <2>1 DEF asks
<1> HIDE DEF y, listed
<1>7. /\ OnlyChanges(y, m, {"r"}) /\ y.r \in [0..12 -> Word] /\ "r" \in DOMAIN y
      /\ \A k \in 1..n : y.r[list[k]] = Read(m.mem, WordAt(base, k), 4).value /\ list[k] \in 0..12
      /\ \A j \in 0..12 : ~listed(j) => y.r[j] = m.r[j]
  <2>1. "r" \in DOMAIN m
    BY DEF IsMachine, HasRegisters, Blank
  <2>2. OnlyChanges(y, m, {"r"}) /\ y.r \in [0..12 -> Word]
    BY <1>6 DEF LoadedTo
  <2>3. "r" \in DOMAIN y
    BY <2>1, <2>2 DEF OnlyChanges
  <2>4. \A k \in 1..n : y.r[list[k]] = Read(m.mem, WordAt(base, k), 4).value
    BY <1>6 DEF LoadedTo
  <2>5. \A k \in 1..n : list[k] \in 0..12
    BY <1>1 DEF IsListing
  <2>6. \A j \in 0..12 : ~listed(j) => y.r[j] = m.r[j]
    BY <1>6 DEF LoadedTo, listed
  <2> QED BY <2>2, <2>3, <2>4, <2>5, <2>6
<1>8. CASE listed(rd)
  <2>1. x = y
    BY <1>3, <1>4, <1>8
  <2> QED BY <1>1, <1>7, <1>8, <2>1 DEF list, n, rd, base, x, listed
<1>9. CASE ~listed(rd)
  <2>1. x = [y EXCEPT !.r[rd] = Wrap(v)]
    BY <1>2, <1>3, <1>4, <1>9 DEF Put, SP, LR, PC, Discarded
  <2>2. OnlyChanges(x, m, {"r"}) /\ x.r = [y.r EXCEPT ![rd] = Wrap(v)]
    BY <1>7, <2>1 DEF OnlyChanges
  <2>3. x.r[rd] = Wrap(v) /\ \A j \in 0..12 : j # rd => x.r[j] = y.r[j]
    BY <1>2, <1>7, <2>2
  <2>4. \A k \in 1..n : list[k] # rd
    BY <1>9 DEF listed
  <2>5. \A k \in 1..n : x.r[list[k]] = Read(m.mem, WordAt(base, k), 4).value
    BY <1>7, <2>3, <2>4
  <2>6. \A j \in 0..12 : j # rd /\ ~listed(j) => x.r[j] = m.r[j]
    BY <1>7, <2>3
  <2> QED BY <1>1, <1>9, <2>2, <2>3, <2>5, <2>6 DEF list, n, rd, base, x, v, listed
<1> QED BY <1>8, <1>9

\* What PUSH stores and where.
PushCount(hw)    == Len(LowRegisters(hw)) + Field(hw, 8, 1)
PushStart(hw, m) == Wrap(Sp(m) - 4 * PushCount(hw))
PushWord(hw, m, k) == IF k \in DOMAIN LowRegisters(hw) THEN m.r[LowRegisters(hw)[k]] ELSE m.lr

\* Its stack pointer is aligned, and POP goes back to where PUSH came from.
LEMMA StackBack ==
  ASSUME NEW s \in Word, s % 4 = 0, NEW n \in 0..9
  PROVE  LET start == Wrap(s - 4 * n)
         IN /\ start \in Word /\ start \in Nat /\ start % 4 = 0
            /\ Wrap(start) = start /\ Wrap(start + 4 * n) = s
<1> DEFINE M == Modulus
           start == Wrap(s - 4 * n)
<1>1. PICK t \in Nat : M = 256 * t /\ t >= 1
  <2> DEFINE t == 2^ThumbBit
  <2>1. t \in Nat \ {0} /\ M = 256 * t
    BY UpperPowers
  <2> HIDE DEF t, M
  <2> QED BY <2>1
<1>2. \A v \in (-36)..(2 * M - 1) :
        Wrap(v) = IF v < 0 THEN v + M ELSE IF v < M THEN v ELSE v - M
  BY <1>1 DEF Wrap
<1> HIDE DEF M
<1>3. s \in 0..(M - 1)
  BY DEF Word, M
<1>4. start = IF s < 4 * n THEN s - 4 * n + M ELSE s - 4 * n
  BY <1>1, <1>2, <1>3
<1> HIDE DEF start
<1>5. PICK c \in Nat : s = 4 * c
  <2>1. s = 4 * (s \div 4) /\ s \div 4 \in Nat
    BY <1>3
  <2> QED BY <2>1
<1>6. start \in 0..(M - 1) /\ start % 4 = 0
  <2>1. CASE s < 4 * n
    <3>1. start = 4 * (c - n + 64 * t) /\ c - n + 64 * t \in Nat
      BY <1>1, <1>4, <1>5, <2>1
    <3> QED BY <1>1, <1>3, <1>4, <2>1, <3>1
  <2>2. CASE ~(s < 4 * n)
    <3>1. start = 4 * (c - n) /\ c - n \in Nat
      BY <1>4, <1>5, <2>2
    <3> QED BY <1>1, <1>3, <1>4, <2>2, <3>1
  <2> QED BY <2>1, <2>2
<1>7. Wrap(start) = start /\ Wrap(start + 4 * n) = s
  BY <1>1, <1>2, <1>3, <1>4, <1>6
<1> QED BY <1>6, <1>7 DEF start, Word, M

\* What they name.
LEMMA PushCountIs ==
  ASSUME NEW hw \in Nat
  PROVE  /\ PushCount(hw) \in 0..9 /\ Field(hw, 8, 1) = (IF BitOf(hw, 8) THEN 1 ELSE 0)
         /\ Len(LowRegisters(hw)) \in 0..8 /\ DOMAIN LowRegisters(hw) = 1..Len(LowRegisters(hw))
         /\ LowRegisters(hw) \in Seq(0..7)
<1>1. Field(hw, 8, 1) \in Nat /\ Field(hw, 8, 1) < 2
  <2>1. 8 \in 0..16 /\ 1 \in 0..16
    OBVIOUS
  <2>2. Field(hw, 8, 1) \in Nat /\ Field(hw, 8, 1) < 2^1
    BY <2>1, FieldIs
  <2> QED BY <2>2, SmallPowers
<1>2. Field(hw, 8, 1) = (IF BitOf(hw, 8) THEN 1 ELSE 0)
  BY <1>1 DEF BitOf
<1> DEFINE list == LowRegisters(hw)
<1>3. list \in Seq(0..7) /\ Len(list) \in 0..8
  BY ListIs, ListingIs DEF IsList, IsListing
<1> HIDE DEF list
<1>4. DOMAIN list = 1..Len(list)
  BY <1>3
<1>5. Len(list) + Field(hw, 8, 1) \in 0..9
  <2> DEFINE l == Len(list)
             f == Field(hw, 8, 1)
  <2>1. l \in 0..8 /\ f \in 0..1
    BY <1>1, <1>3
  <2> HIDE DEF l, f
  <2>2. l + f \in 0..9
    BY <2>1
  <2> QED BY <2>2 DEF l, f
<1> QED BY <1>2, <1>3, <1>4, <1>5 DEF list, PushCount

\* PUSH leaves its words in order below the stack pointer.
LEMMA PushIs ==
  ASSUME NEW hw \in Nat, NEW m, IsMachine(m),
         HasWords(m.mem, PushStart(hw, m), PushCount(hw))
  PROVE  LET x == Push(hw, m)
             start == PushStart(hw, m)
         IN /\ \A k \in 1..PushCount(hw) :
                 Read(x.mem, WordAt(start, k), 4) = [ok |-> TRUE, value |-> PushWord(hw, m, k)]
            /\ Sp(x) = start /\ OnProcessStack(x) = OnProcessStack(m)
            /\ OnlyChanges(x, m, {"mem", "main", "process"})
<1> DEFINE low == LowRegisters(hw)
           list == low \o (IF BitOf(hw, 8) THEN <<LR>> ELSE <<>>)
           n == PushCount(hw)
           start == PushStart(hw, m)
           words == [k \in DOMAIN list |-> Get(m, list[k])]
           y == StoredWords(m, start, words)
           x == Push(hw, m)
<1>0. DOMAIN low = 1..Len(low) /\ low \in Seq(0..7)
  BY PushCountIs
<1>1. /\ n \in 0..9 /\ n \in Nat /\ n = Len(low) + (IF BitOf(hw, 8) THEN 1 ELSE 0)
      /\ Len(low) \in 0..8
  <2>1. /\ PushCount(hw) \in 0..9 /\ Field(hw, 8, 1) = (IF BitOf(hw, 8) THEN 1 ELSE 0)
        /\ Len(LowRegisters(hw)) \in 0..8
    BY PushCountIs
  <2>2. n = Len(low) + Field(hw, 8, 1) /\ n = PushCount(hw)
    BY DEF PushCount
  <2> HIDE DEF n
  <2> QED BY <2>1, <2>2
<1>2. /\ DOMAIN m = DOMAIN Blank /\ "mem" \in DOMAIN m /\ "pending" \in DOMAIN m
      /\ MemoryOK(m.mem) /\ m.r \in [0..12 -> Word] /\ m.lr \in Word
  BY DEF IsMachine, HasRegisters, Blank
<1>3. Sp(m) \in Word /\ Sp(m) % 4 = 0
  BY SpIs
<1>4. /\ start \in Word /\ start \in Nat /\ start % 4 = 0 /\ Wrap(start) = start /\ start \in Int
  <2> DEFINE s == Sp(m)
  <2>1. start = Wrap(s - 4 * n) /\ s \in Word /\ s % 4 = 0
    BY <1>3 DEF PushStart
  <2> HIDE DEF s, n, start
  <2>2. start \in Word /\ start \in Nat /\ start % 4 = 0 /\ Wrap(start) = start
    BY <1>1, <2>1, StackBack
  <2> QED BY <2>2
<1> HIDE DEF low
<1>5. /\ list \in Seq(0..14) /\ Len(list) = n
      /\ \A k \in 1..n : list[k] = IF k \in 1..Len(low) THEN low[k] ELSE LR
  <2>1. CASE BitOf(hw, 8)
    <3> DEFINE tail == <<LR>>
    <3>1. tail \in Seq(0..14) /\ Len(tail) = 1 /\ tail[1] = LR
      BY DEF LR
    <3>2. list = low \o tail
      BY <2>1
    <3> HIDE DEF tail, list
    <3>3. low \in Seq(0..14) /\ n = Len(low) + 1
      BY <1>0, <1>1, <2>1
    <3> HIDE DEF n
    <3>4. /\ list \in Seq(0..14) /\ Len(list) = Len(low) + Len(tail)
          /\ \A k \in 1..(Len(low) + Len(tail)) :
               list[k] = IF k <= Len(low) THEN low[k] ELSE tail[k - Len(low)]
      <4> DEFINE S == 0..14
      <4> HIDE DEF S, low
      <4>1. low \in Seq(S) /\ tail \in Seq(S)
        BY <3>1, <3>3 DEF S
      <4>2. /\ low \o tail \in Seq(S) /\ Len(low \o tail) = Len(low) + Len(tail)
            /\ \A k \in 1..(Len(low) + Len(tail)) :
                 (low \o tail)[k] = IF k <= Len(low) THEN low[k] ELSE tail[k - Len(low)]
        BY ONLY <4>1, ConcatProperties
      <4> QED BY <3>2, <4>2 DEF S
    <3>5. /\ Len(list) = n
          /\ \A k \in 1..n : list[k] = IF k \in 1..Len(low) THEN low[k] ELSE tail[k - Len(low)]
      <4>1. Len(low) \in Nat
        BY <3>3
      <4> QED BY <3>1, <3>3, <3>4, <4>1
    <3>6. \A k \in 1..n : k \in 1..Len(low) \/ k - Len(low) = 1
      BY <1>1, <2>1
    <3> QED BY <3>1, <3>4, <3>5, <3>6
  <2>2. CASE ~BitOf(hw, 8)
    <3>1. list = low \o <<>> /\ low \in Seq(0..14)
      BY <1>0, <2>2
    <3>2. list = low
      BY <3>1
    <3> QED BY <1>1, <2>2, <3>1, <3>2
  <2> QED BY <2>1, <2>2
<1>6. x = WithSp(y, start) /\ DOMAIN list = 1..n
  <2>1. x = LET s == Wrap(Sp(m) - 4 * Len(list)) IN WithSp(StoredWords(m, s, words), s)
    BY DEF Push, low
  <2> HIDE DEF list
  <2>2. DOMAIN list = 1..n
    BY <1>1, <1>5
  <2> QED BY <1>5, <2>1, <2>2 DEF PushStart
<1> HIDE DEF list
<1>7. /\ Len(words) = n /\ \A k \in 1..n : words[k] = PushWord(hw, m, k) /\ words[k] \in Word
  <2>1. words = [k \in 1..n |-> Get(m, list[k])]
    BY <1>6
  <2>2. ASSUME NEW k \in 1..n
        PROVE  Get(m, list[k]) = PushWord(hw, m, k) /\ PushWord(hw, m, k) \in Word
    <3>1. CASE k \in 1..Len(low)
      <4>1. list[k] = low[k] /\ low[k] \in 0..7
        BY <1>0, <1>5, <3>1
      <4>2. Get(m, list[k]) = m.r[low[k]] /\ m.r[low[k]] \in Word
        BY <1>2, <4>1 DEF Get, SP, LR, PC
      <4> QED BY <1>0, <3>1, <4>2 DEF PushWord, low
    <3>2. CASE k \notin 1..Len(low)
      <4>1. list[k] = LR
        BY <1>5, <3>2
      <4>2. Get(m, list[k]) = m.lr
        BY <4>1 DEF Get, SP, LR, PC
      <4> QED BY <1>0, <1>2, <3>2, <4>2 DEF PushWord, low
    <3> QED BY <3>1, <3>2
  <2> HIDE DEF words
  <2>3. Len(words) = n
    BY <1>1, <2>1
  <2> QED BY <2>1, <2>2, <2>3
<1>8. HasWords(m.mem, start, n)
  OBVIOUS
<1> HIDE DEF words, n, start, x, y
<1>9. StoredTo(y.mem, m.mem, start, words, n) /\ OnlyChanges(y, m, {"mem"})
  <2>1. \A i \in 1..n : words[i] \in Word
    BY <1>7
  <2>2. StoredTo(y.mem, m.mem, start, words, n)
    BY <1>1, <1>2, <1>4, <1>7, <1>8, <2>1, StoredInOrder DEF y
  <2>3. Len(words) \in Nat
    BY <1>1, <1>7
  <2>4. y.pending = m.pending
    <3>1. \A k \in 1..Len(words) : Reaches(m.mem, Wrap(start + 4 * (k - 1)), 4)
      BY <1>7, <1>8 DEF HasWords, WordAt
    <3>2. \A k \in 1..Len(words) : words[k] \in Word
      BY <1>7
    <3> QED BY <1>2, <1>4, <2>3, <3>1, <3>2, StoredWordsKeepMap DEF y
  <2>5. OnlyChanges(y, m, {"mem", "pending"})
    BY <2>3, StoredWordsChanges DEF y
  <2> QED BY <2>2, <2>4, <2>5 DEF OnlyChanges
<1>10. /\ x.mem = y.mem /\ OnlyChanges(x, m, {"mem", "main", "process"})
       /\ OnProcessStack(x) = OnProcessStack(m) /\ BankedSp(x) = start
  <2>1. DOMAIN y = DOMAIN Blank /\ \A f \in DOMAIN Blank \ {"mem"} : y[f] = m[f]
    BY <1>2, <1>9 DEF OnlyChanges
  <2>2. /\ {"mem", "main", "process", "mode", "spsel"} \subseteq DOMAIN Blank
    BY DEF Blank
  <2>3. y.mode = m.mode /\ y.spsel = m.spsel
    BY <2>1, <2>2
  <2>4. x = IF OnProcessStack(y) THEN [y EXCEPT !.process = start] ELSE [y EXCEPT !.main = start]
    BY <1>4, <1>6 DEF WithSp
  <2>5. /\ x.mem = y.mem /\ DOMAIN x = DOMAIN Blank /\ x.mode = y.mode /\ x.spsel = y.spsel
        /\ \A f \in DOMAIN Blank \ {"main", "process"} : x[f] = y[f]
        /\ (IF OnProcessStack(y) THEN x.process ELSE x.main) = start
    BY <2>1, <2>2, <2>4
  <2>6. OnProcessStack(x) = OnProcessStack(m) /\ OnProcessStack(y) = OnProcessStack(m)
    BY <2>3, <2>5, Zenon DEF OnProcessStack
  <2>7. OnlyChanges(x, m, {"mem", "main", "process"})
    BY <1>2, <2>1, <2>5 DEF OnlyChanges
  <2>8. BankedSp(x) = start
    BY <2>5, <2>6 DEF BankedSp
  <2> QED BY <2>5, <2>6, <2>7, <2>8
<1>11. Sp(x) = start
  BY <1>4, <1>10 DEF Sp, Aligned
<1>12. \A k \in 1..n : Read(x.mem, WordAt(start, k), 4) = [ok |-> TRUE, value |-> PushWord(hw, m, k)]
  <2> DEFINE old == m.mem
             new == y.mem
  <2>1. MemoryOK(old) /\ HasWords(old, start, n) /\ StoredTo(new, old, start, words, n)
    BY <1>2, <1>8, <1>9
  <2> HIDE DEF old, new
  <2>2. n \in 0..9 /\ start \in Word
    BY <1>1, <1>4
  <2>3. \A k \in 1..n : Read(new, WordAt(start, k), 4) = [ok |-> TRUE, value |-> words[k]]
    BY ONLY <2>2, <2>1, ReadsStored
  <2> QED BY <1>7, <1>10, <2>3 DEF new
<1> QED BY <1>10, <1>11, <1>12 DEF n, start, x

\* POP in h finds what PUSH left in m: the same registers are listed, on the same
\* stack, and its words are still there.
FindsPushed(pop, h, push, m) ==
  /\ LowRegisters(pop) = LowRegisters(push) /\ (BitOf(pop, 8) <=> BitOf(push, 8))
  /\ (OnProcessStack(h) <=> OnProcessStack(m)) /\ Sp(h) = Sp(Push(push, m))
  /\ \A k \in 1..PushCount(push) :
       LET a == WordAt(PushStart(push, m), k) IN Read(h.mem, a, 4) = Read(Push(push, m).mem, a, 4)

\* The machine h when the registers of a push in m are back.
HasPopped(back, h, push, m) ==
  /\ \A k \in DOMAIN LowRegisters(push) : back.r[LowRegisters(push)[k]] = m.r[LowRegisters(push)[k]]
  /\ \A j \in 0..12 : (\A k \in DOMAIN LowRegisters(push) : LowRegisters(push)[k] # j) =>
                        back.r[j] = h.r[j]
  /\ Sp(back) = Sp(m)
  /\ OnlyChanges(back, h, {"r", IF OnProcessStack(h) THEN "process" ELSE "main"})

(***************************************************************************)
(* exec(pop) undoes exec(push): whatever the code between them did to the  *)
(* registers and to the rest of memory, POP with the list of PUSH gives    *)
(* every register of the list its value back and the stack pointer its     *)
(* own, and changes nothing else; when PUSH saved LR, POP then branches to *)
(* it.  So for every list, also the empty one, on the main or the process  *)
(* stack and where the stack wraps.                                        *)
(***************************************************************************)
THEOREM PopUndoesPush ==
  ASSUME NEW push \in Nat, NEW m, IsMachine(m),
         HasWords(m.mem, PushStart(push, m), PushCount(push)),
         NEW pop \in Nat, NEW h, IsMachine(h), FindsPushed(pop, h, push, m)
  PROVE  \E back : /\ HasPopped(back, h, push, m)
                   /\ Pop(pop, h) = IF BitOf(push, 8) THEN BranchInterworking(m.lr, back) ELSE back
<1> DEFINE list == LowRegisters(push)
           n == PushCount(push)
           start == PushStart(push, m)
           x == Push(push, m)
           y == LoadedWords(h, start, list, FALSE)
           back == WithSp(y, start + 4 * n)
           target == Read(h.mem, WordAt(start, Len(list) + 1), 4)
<1>0. DOMAIN list = 1..Len(list)
  BY PushCountIs
<1>1. /\ n \in 0..9 /\ n = Len(list) + (IF BitOf(push, 8) THEN 1 ELSE 0)
      /\ Len(list) \in 0..8 /\ \A k \in 1..Len(list) : k \in 1..n
  <2>1. /\ PushCount(push) \in 0..9 /\ Field(push, 8, 1) = (IF BitOf(push, 8) THEN 1 ELSE 0)
        /\ Len(list) \in 0..8
    BY PushCountIs
  <2>2. n = Len(list) + Field(push, 8, 1) /\ n = PushCount(push)
    BY DEF PushCount
  <2> HIDE DEF n, list
  <2>3. n \in 0..9 /\ n = Len(list) + (IF BitOf(push, 8) THEN 1 ELSE 0) /\ Len(list) \in 0..8
    BY <2>1, <2>2
  <2>4. Len(list) <= n
    BY <2>3
  <2> QED BY <2>3, <2>4
<1>2. Sp(m) \in Word /\ Sp(m) % 4 = 0
  BY SpIs
<1>3. /\ start \in Word /\ Wrap(start + 4 * n) = Sp(m)
  <2> DEFINE s == Sp(m)
  <2>1. start = Wrap(s - 4 * n) /\ s \in Word /\ s % 4 = 0
    BY <1>2 DEF PushStart
  <2> HIDE DEF s, n, start
  <2>2. start \in Word /\ Wrap(start + 4 * n) = s
    BY <1>1, <2>1, StackBack
  <2> QED BY <2>2 DEF s
<1>4. /\ \A k \in 1..n : Read(x.mem, WordAt(start, k), 4) = [ok |-> TRUE, value |-> PushWord(push, m, k)]
      /\ Sp(x) = start
  BY PushIs
<1>5. /\ LowRegisters(pop) = list /\ (BitOf(pop, 8) <=> BitOf(push, 8))
      /\ (OnProcessStack(h) <=> OnProcessStack(m)) /\ Sp(h) = start
      /\ \A k \in 1..n :
           Read(h.mem, WordAt(start, k), 4) = [ok |-> TRUE, value |-> PushWord(push, m, k)]
  BY <1>4 DEF FindsPushed
<1>6. Field(pop, 8, 1) = (IF BitOf(push, 8) THEN 1 ELSE 0)
  BY <1>5, PushCountIs
<1>7. PoppedList(pop, h, start) = y
  BY <1>5 DEF PoppedList
<1>8. IsListing(list, Len(list))
  BY ListingIs
<1>9. DOMAIN h = DOMAIN Blank /\ MemoryOK(h.mem)
  BY DEF IsMachine, HasRegisters
<1> HIDE DEF list, n, start, x, y, back
<1>10. HasWords(h.mem, start, Len(list))
  <2> SUFFICES ASSUME NEW k \in 1..Len(list) PROVE Reaches(h.mem, WordAt(start, k), 4)
    BY DEF HasWords
  <2> DEFINE mem == h.mem
             a == WordAt(start, k)
  <2>1. k \in 1..n
    BY <1>1
  <2>2. Read(mem, a, 4).ok
    <3>1. Read(mem, a, 4) = [ok |-> TRUE, value |-> PushWord(push, m, k)]
      BY <1>5, <2>1
    <3> HIDE DEF mem, a
    <3> QED BY <3>1
  <2>3. a \in Nat
    BY <1>1, <1>3, <2>1, WordsApart
  <2>4. MemoryOK(mem)
    BY <1>9
  <2> HIDE DEF mem, a
  <2>5. Reaches(mem, a, 4)
    BY <2>2, <2>3, <2>4, ReadTyped
  <2> QED BY <2>5 DEF mem, a
<1>11. LoadedTo(y, h, start, list, Len(list))
  <2> DEFINE asks == FALSE
  <2> HIDE DEF asks
  <2>1. LoadedTo(LoadedWords(h, start, list, asks), h, start, list, Len(list))
    BY <1>3, <1>8, <1>10, LoadedInOrder
  <2> QED BY <2>1 DEF asks, y
<1>12. ASSUME NEW k \in 1..Len(list) PROVE y.r[list[k]] = m.r[list[k]]
  <2>1. y.r[list[k]] = Read(h.mem, WordAt(start, k), 4).value
    BY <1>11 DEF LoadedTo
  <2>2. Read(h.mem, WordAt(start, k), 4) = [ok |-> TRUE, value |-> PushWord(push, m, k)]
    BY <1>1, <1>5
  <2>3. PushWord(push, m, k) = m.r[list[k]]
    BY <1>0 DEF PushWord, list
  <2> QED BY <2>1, <2>2, <2>3
<1>13. BitOf(push, 8) => target.ok /\ target.value = m.lr
  <2> SUFFICES ASSUME BitOf(push, 8) PROVE target.ok /\ target.value = m.lr
    OBVIOUS
  <2>1. Len(list) + 1 = n /\ n \in 1..n /\ n \notin DOMAIN list
    <3>1. Len(list) + 1 = n /\ n \in 1..n /\ n \notin 1..Len(list)
      BY <1>1
    <3> QED BY <1>0, <3>1
  <2>2. target = [ok |-> TRUE, value |-> PushWord(push, m, n)]
    BY <1>5, <2>1
  <2>3. PushWord(push, m, n) = m.lr
    BY <2>1 DEF PushWord, list
  <2> HIDE DEF target
  <2> QED BY <2>2, <2>3
<1>14. Pop(pop, h) = IF BitOf(push, 8) THEN BranchInterworking(m.lr, back) ELSE back
  <2> DEFINE released == WithSp(y, start + 4 * (Len(list) + Field(pop, 8, 1)))
  <2>1. released = back
    BY <1>1, <1>6 DEF back
  <2>2. WordAt(start, Len(list) + 1) = Wrap(start + 4 * Len(list))
    <3>1. Len(list) + 1 - 1 = Len(list)
      BY <1>1
    <3> QED BY <3>1 DEF WordAt
  <2> HIDE DEF released, target
  <2>3. Pop(pop, h) = IF ~BitOf(pop, 8) THEN released
                      ELSE BranchInterworking(target.value, IF target.ok THEN released
                                                            ELSE HardFault(released))
    BY <1>5, <1>7, <2>2 DEF Pop, released, target
  <2> QED BY <1>5, <1>13, <2>1, <2>3
<1> DEFINE stack == IF OnProcessStack(h) THEN "process" ELSE "main"
<1>15. /\ {"r", "main", "process", "mode", "spsel"} \subseteq DOMAIN Blank
       /\ stack \in {"main", "process"}
  BY DEF Blank
<1>16. /\ DOMAIN y = DOMAIN Blank /\ \A f \in DOMAIN Blank \ {"r"} : y[f] = h[f]
  BY <1>9, <1>11 DEF LoadedTo, OnlyChanges
<1>17. OnProcessStack(y) <=> OnProcessStack(h)
  BY <1>15, <1>16 DEF OnProcessStack
<1>18. back = IF OnProcessStack(h) THEN [y EXCEPT !.process = Sp(m)] ELSE [y EXCEPT !.main = Sp(m)]
  BY <1>3, <1>17 DEF back, WithSp
<1>19. /\ DOMAIN back = DOMAIN Blank /\ \A f \in DOMAIN Blank \ {stack} : back[f] = y[f]
       /\ back[stack] = Sp(m)
  BY <1>15, <1>16, <1>18
<1> HIDE DEF stack
<1>20. OnlyChanges(back, h, {"r", stack})
  BY <1>9, <1>16, <1>19 DEF OnlyChanges
<1>21. back.r = y.r /\ back.mode = h.mode /\ back.spsel = h.spsel
  BY <1>15, <1>16, <1>19
<1>22. OnProcessStack(back) <=> OnProcessStack(h)
  BY <1>21 DEF OnProcessStack
<1>23. Sp(back) = Sp(m)
  <2>1. BankedSp(back) = Sp(m)
    BY <1>19, <1>22 DEF BankedSp, stack
  <2> DEFINE s == Sp(m)
  <2> HIDE DEF s
  <2>2. Aligned(s) = s
    BY <1>2 DEF s, Aligned, Word
  <2> QED BY <2>1, <2>2 DEF Sp, s
<1>24. HasPopped(back, h, push, m)
  <2>1. \A j \in 0..12 : (\A k \in 1..Len(list) : list[k] # j) => back.r[j] = h.r[j]
    BY <1>11, <1>21 DEF LoadedTo
  <2>2. \A k \in 1..Len(list) : back.r[list[k]] = m.r[list[k]]
    BY <1>12, <1>21
  <2> QED BY <1>0, <1>20, <1>23, <2>1, <2>2 DEF HasPopped, list, stack
<1> QED BY <1>14, <1>24

(***************************************************************************)
(* A function comes back to its call: LR is the address after the call     *)
(* plus 1 (as BranchesAreExact states of BL), PUSH saves it with any       *)
(* registers, and POP with PC goes on there in Thumb state, with the       *)
(* registers and the stack pointer as they were, unless a handler was      *)
(* called from the addresses that EXC_RETURN is taken from.                *)
(***************************************************************************)
THEOREM CallComesBack ==
  ASSUME NEW push \in Nat, NEW m, IsMachine(m),
         HasWords(m.mem, PushStart(push, m), PushCount(push)), BitOf(push, 8),
         NEW pop \in Nat, NEW h, IsMachine(h), FindsPushed(pop, h, push, m),
         NEW next \in Word, next % 2 = 0, m.lr = next + 1,
         h.mode = "thread" \/ Field(m.lr, WordBits - 4, 4) # 15
  PROVE  LET back == Pop(pop, h)
         IN /\ back.pc = next /\ back.thumb /\ back.branched
            /\ \A k \in DOMAIN LowRegisters(push) :
                 back.r[LowRegisters(push)[k]] = m.r[LowRegisters(push)[k]]
            /\ Sp(back) = Sp(m) /\ back.mode = h.mode /\ back.mem = h.mem
            /\ back.pending = h.pending
<1>1. PICK x : /\ HasPopped(x, h, push, m) /\ Pop(pop, h) = BranchInterworking(m.lr, x)
  <2>1. \E x : /\ HasPopped(x, h, push, m)
               /\ Pop(pop, h) = IF BitOf(push, 8) THEN BranchInterworking(m.lr, x) ELSE x
    BY PopUndoesPush
  <2> QED BY <2>1
<1> DEFINE back == Pop(pop, h)
<1>2. {"pc", "thumb", "branched", "mode", "mem", "pending", "r", "main", "process", "spsel"}
        \subseteq DOMAIN Blank /\ DOMAIN h = DOMAIN Blank
  BY DEF IsMachine, HasRegisters, Blank
<1>3. /\ DOMAIN x = DOMAIN Blank /\ x.mode = h.mode /\ x.mem = h.mem /\ x.pending = h.pending
  BY <1>1, <1>2 DEF HasPopped, OnlyChanges
<1>4. back = BranchLinkInterworking(m.lr, x)
  BY <1>1, <1>3 DEF BranchInterworking
<1>5. m.lr % 2 = 1 /\ m.lr - 1 = next /\ Wrap(next) = next /\ m.lr - (m.lr % 2) = next
  <2>1. next \in Nat /\ next < Modulus /\ Modulus \in Nat \ {0}
    BY CodeIs DEF Word
  <2>2. (next + 1) % 2 = 1
    BY <2>1
  <2>3. Wrap(next) = next
    BY <2>1 DEF Wrap
  <2> QED BY <2>1, <2>2, <2>3
<1>6. back = [[x EXCEPT !.thumb = TRUE] EXCEPT !.pc = next, !.branched = TRUE]
  BY <1>4, <1>5 DEF BranchLinkInterworking, WithPc
<1> HIDE DEF back
<1>7. /\ back.pc = next /\ back.thumb /\ back.branched
      /\ \A f \in {"r", "mode", "mem", "pending", "main", "process", "spsel"} : back[f] = x[f]
  BY <1>2, <1>3, <1>6
<1>8. /\ back.r = x.r /\ back.mode = x.mode /\ back.mem = x.mem /\ back.pending = x.pending
      /\ back.main = x.main /\ back.process = x.process /\ back.spsel = x.spsel
  BY <1>7
<1>9. Sp(back) = Sp(x)
  BY <1>8 DEF Sp, BankedSp, OnProcessStack
<1> QED BY <1>1, <1>3, <1>7, <1>8, <1>9 DEF HasPopped, back
=============================================================================
