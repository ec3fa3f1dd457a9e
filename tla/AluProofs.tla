------------------------------ MODULE AluProofs ------------------------------
(***************************************************************************)
(* What the flags mean, for words of every size and chains of any length,  *)
(* and what shifts do to a word, for every count that a register holds.    *)
(***************************************************************************)
EXTENDS Alu, TLAPS

-----------------------------------------------------------------------------
(* The operators *)

\* add_with_carry loses nothing: result and carry are the sum.
LEMMA SumExact ==
  ASSUME NEW a \in Word, NEW b \in Word, NEW carry \in BOOLEAN
  PROVE  LET s == AddWithCarry(a, b, carry)
         IN /\ s.result \in Word /\ s.carry \in BOOLEAN /\ s.overflow \in BOOLEAN
            /\ a + b + Number(carry) = s.result + Number(s.carry) * Modulus
<1> DEFINE sum == a + b + Number(carry)
           s   == AddWithCarry(a, b, carry)
<1>1. /\ Modulus \in Nat \ {0} /\ a \in 0..(Modulus - 1) /\ b \in 0..(Modulus - 1)
      /\ sum \in 0..(2 * Modulus - 1)
  BY WordAssumption DEF Word, Modulus, Number, Borrow
<1>2. /\ s.carry = (sum >= Modulus)
      /\ s.result = IF sum >= Modulus THEN sum - Modulus ELSE sum
      /\ s.overflow \in BOOLEAN
  BY DEF AddWithCarry
<1>3. s.result \in Word /\ s.carry \in BOOLEAN
  BY <1>1, <1>2 DEF Word
<1>4. CASE sum >= Modulus
  <2>1. s.carry = TRUE /\ s.result = sum - Modulus
    BY <1>2, <1>4
  <2>2. Number(s.carry) = 1
    BY <2>1 DEF Number, Borrow
  <2> QED BY <1>1, <1>2, <1>3, <2>1, <2>2
<1>5. CASE ~(sum >= Modulus)
  <2>1. s.carry = FALSE /\ s.result = sum
    BY <1>1, <1>2, <1>3, <1>5
  <2>2. Number(s.carry) = 0
    BY <2>1 DEF Number, Borrow
  <2> QED BY <1>1, <1>2, <1>3, <2>1, <2>2
<1> QED BY <1>4, <1>5

LEMMA ComplementIsWord == \A b \in Word : Complement(b) \in Word
BY WordAssumption DEF Complement, Word, Modulus

\* Adding the complement and one compares: without a sign by the carry, with a
\* sign by N and V.
LEMMA DifferenceCompares ==
  ASSUME NEW a \in Word, NEW b \in Word
  PROVE  LET s == Difference(a, b)
         IN /\ s.result \in Word /\ s.carry \in BOOLEAN /\ s.overflow \in BOOLEAN
            /\ a - b = s.result - Borrow(s.carry) * Modulus
            /\ s.carry <=> a >= b
            /\ s.result = 0 <=> a = b
            /\ SignBit(s.result) = s.overflow <=> Signed(a) >= Signed(b)
            /\ ~s.overflow <=> Signed(a) - Signed(b) \in (-Half)..(Half - 1)
<1> DEFINE s == Difference(a, b)
           r == IF a >= b THEN a - b ELSE a - b + Modulus
<1>1. /\ a \in Int /\ b \in Int /\ 0 <= a /\ a < Modulus /\ 0 <= b /\ b < Modulus
      /\ Modulus = 2 * Half /\ Half \in Nat /\ Half > 0
  BY WordAssumption DEF Word, Modulus
<1>2. /\ s.carry = (a >= b)
      /\ s.result = r
      /\ s.overflow = (SignBit(a) # SignBit(b) /\ SignBit(a) # SignBit(r))
  BY <1>1 DEF Difference, AddWithCarry, Complement, Number, SignBit
<1>3. s.result \in Word /\ s.carry \in BOOLEAN /\ s.overflow \in BOOLEAN
  BY <1>1, <1>2 DEF Word
<1>4. /\ a - b = s.result - Borrow(s.carry) * Modulus
      /\ s.result = 0 <=> a = b
  <2>1. CASE a >= b
    <3>1. Borrow(s.carry) = 0
      BY <1>2, <2>1 DEF Number, Borrow
    <3> QED BY <1>1, <1>2, <2>1, <3>1
  <2>2. CASE ~(a >= b)
    <3>1. Borrow(s.carry) = 1
      BY <1>2, <2>2 DEF Number, Borrow
    <3> QED BY <1>1, <1>2, <2>2, <3>1
  <2> QED BY <2>1, <2>2
<1>5. SignBit(r) = (SignBit(a) # SignBit(b) /\ SignBit(a) # SignBit(r))
        <=> Signed(a) >= Signed(b)
  BY <1>1 DEF SignBit, Signed
<1>6. ~(SignBit(a) # SignBit(b) /\ SignBit(a) # SignBit(r))
        <=> Signed(a) - Signed(b) \in (-Half)..(Half - 1)
  BY <1>1 DEF SignBit, Signed
<1> QED BY <1>2, <1>3, <1>4, <1>5, <1>6

\* RSBS adds in the other order, which makes no difference.
LEMMA NegationIsDifference ==
  ASSUME NEW b \in Word
  PROVE  AddWithCarry(Complement(b), 0, TRUE) = Difference(0, b)
BY WordAssumption DEF Difference, AddWithCarry, Complement, Word, Modulus, Number, SignBit

-----------------------------------------------------------------------------
(* Shifts *)

LEMMA DivisionBound ==
  ASSUME NEW p \in Nat \ {0}, NEW q \in Nat \ {0}, NEW v \in Nat, v < p * q
  PROVE  v \div p \in 0..(q - 1)
OBVIOUS

\* Quotient and remainder, of numbers that are products.
LEMMA Quotient ==
  ASSUME NEW d \in Nat \ {0}, NEW x \in Int
  PROVE  x \div d \in Int /\ x % d \in 0..(d - 1) /\ x = d * (x \div d) + (x % d)
OBVIOUS

LEMMA Unique ==
  ASSUME NEW d \in Nat \ {0}, NEW q \in Int, NEW r \in 0..(d - 1)
  PROVE  (d * q + r) \div d = q /\ (d * q + r) % d = r
OBVIOUS

LEMMA Idempotent ==
  ASSUME NEW x \in Nat \ {0}, x = x * x
  PROVE  x = 1
<1>1. x = 1 \/ x >= 2
  OBVIOUS
<1>2. x >= 2 => x * x >= 2 * x
  OBVIOUS
<1> QED BY <1>1, <1>2

LEMMA DivDiv ==
  ASSUME NEW m \in Nat \ {0}, NEW n \in Nat \ {0}, NEW x \in Int
  PROVE  (x \div m) \div n = x \div (m * n)
<1> DEFINE q == x \div m
           r == x % m
           p == q \div n
           t == q % n
<1>1. q \in Int /\ r \in 0..(m - 1) /\ x = m * q + r
  BY Quotient
<1>2. p \in Int /\ t \in 0..(n - 1) /\ q = n * p + t
  BY <1>1, Quotient
<1> HIDE DEF q, r, p, t
<1>3. m * n \in Nat \ {0} /\ m * t + r \in 0..(m * n - 1)
  <2>1. t + 1 <= n /\ m * (t + 1) = m * t + m
    BY <1>2
  <2>2. m * (t + 1) <= m * n
    BY <1>2, <2>1
  <2>3. m * t \in Nat /\ m * n \in Nat \ {0}
    BY <1>2
  <2> QED BY <1>1, <2>1, <2>2, <2>3
<1>4. x = (m * n) * p + (m * t + r)
  <2>1. m * q = m * (n * p) + m * t /\ m * (n * p) = (m * n) * p
    BY <1>2
  <2> QED BY <1>1, <1>2, <2>1
<1>5. x \div (m * n) = p
  BY <1>2, <1>3, <1>4, Unique
<1> QED BY <1>5 DEF p, q

\* Powers of two, up to the largest count of a shift.
Power(n) == 2^n

LEMMA Powers ==
  /\ \A n \in 0..(Modulus + WordSize) : Power(n) \in Nat \ {0}
  /\ \A n \in 0..WordSize :
       Power(WordSize - n) \in Nat \ {0} /\ Power(n) * Power(WordSize - n) = Modulus
  /\ \A n \in 1..(Modulus + WordSize) :
       Power(n - 1) \in Nat \ {0} /\ Power(n) = 2 * Power(n - 1)
  /\ \A n \in WordSize..Modulus :
       Power(n - WordSize) \in Nat \ {0} /\ Power(n) = Modulus * Power(n - WordSize)
  /\ Power(0) = 1 /\ Power(WordSize) = Modulus
<1> DEFINE last == Modulus + WordSize
<1>1. Modulus \in Nat \ {0} /\ WordSize \in Nat \ {0} /\ last \in Nat
  BY WordAssumption, ShiftAssumption DEF Modulus
<1>2. \A n \in 0..last : Power(n) \in Nat \ {0}
  <2>1. \A n \in 0..last : n + 0 <= last /\ 0 \in 0..last
    BY <1>1
  <2> QED BY <2>1, ShiftAssumption DEF Power
<1>3. \A m, n \in 0..last : m + n <= last => Power(m + n) = Power(m) * Power(n)
  BY ShiftAssumption DEF Power
<1>4. Power(0) = 1
  <2>1. 0 \in 0..last /\ 0 + 0 = 0 /\ 0 + 0 <= last
    BY <1>1
  <2>2. Power(0) \in Nat \ {0} /\ Power(0) = Power(0) * Power(0)
    BY <1>2, <1>3, <2>1
  <2> QED BY <2>2, Idempotent
<1>5. Power(1) = 2
  BY ShiftAssumption DEF Power
<1> HIDE DEF last
<1>6. last = Modulus + WordSize
  BY DEF last
<1>7. \A n \in 1..last : Power(n - 1) \in Nat \ {0} /\ Power(n) = 2 * Power(n - 1)
  <2> SUFFICES ASSUME NEW n \in 1..last
               PROVE  Power(n - 1) \in Nat \ {0} /\ Power(n) = 2 * Power(n - 1)
    OBVIOUS
  <2> DEFINE k == n - 1
  <2>1. k \in 0..last /\ 1 \in 0..last /\ 1 + k <= last /\ 1 + k = n
    BY <1>1, <1>6
  <2> HIDE DEF k
  <2>2. Power(1 + k) = Power(1) * Power(k)
    BY <1>3, <2>1
  <2> QED BY <1>2, <1>5, <2>1, <2>2 DEF k
<1>8. Power(WordSize) = Modulus
  <2>1. Half = Power(WordSize - 1) /\ Modulus = 2 * Half
    BY ShiftAssumption DEF Power, Modulus
  <2>2. WordSize \in 1..last
    BY <1>1, <1>6
  <2> QED BY <1>7, <2>1, <2>2
<1>9. \A n \in 0..WordSize :
        Power(WordSize - n) \in Nat \ {0} /\ Power(n) * Power(WordSize - n) = Modulus
  <2> SUFFICES ASSUME NEW n \in 0..WordSize
               PROVE  /\ Power(WordSize - n) \in Nat \ {0}
                      /\ Power(n) * Power(WordSize - n) = Modulus
    OBVIOUS
  <2> DEFINE k == WordSize - n
  <2>1. k \in 0..last /\ n \in 0..last /\ n + k <= last /\ n + k = WordSize
    BY <1>1, <1>6
  <2> HIDE DEF k
  <2>2. Power(n + k) = Power(n) * Power(k)
    BY <1>3, <2>1
  <2> QED BY <1>2, <1>8, <2>1, <2>2 DEF k
<1>10. \A n \in WordSize..Modulus :
         Power(n - WordSize) \in Nat \ {0} /\ Power(n) = Modulus * Power(n - WordSize)
  <2> SUFFICES ASSUME NEW n \in WordSize..Modulus
               PROVE  /\ Power(n - WordSize) \in Nat \ {0}
                      /\ Power(n) = Modulus * Power(n - WordSize)
    OBVIOUS
  <2> DEFINE k == n - WordSize
  <2>1. k \in 0..last /\ WordSize \in 0..last /\ WordSize + k <= last /\ WordSize + k = n
    BY <1>1, <1>6
  <2> HIDE DEF k
  <2>2. Power(WordSize + k) = Power(WordSize) * Power(k)
    BY <1>3, <2>1
  <2> QED BY <1>2, <1>8, <2>1, <2>2 DEF k
<1> QED BY <1>2, <1>4, <1>6, <1>7, <1>8, <1>9, <1>10

\* What the C of a shift by n is: the bit below the n lowest.
LEMMA LastBit ==
  ASSUME NEW x \in Int, NEW n \in 1..Modulus
  PROVE  (2 * x) \div Power(n) = x \div Power(n - 1)
<1>1. n \in 1..(Modulus + WordSize)
  BY WordAssumption, ShiftAssumption DEF Modulus
<1>2. Power(n - 1) \in Nat \ {0} /\ Power(n) = 2 * Power(n - 1)
  BY <1>1, Powers
<1> DEFINE p == Power(n - 1)
<1> HIDE DEF p
<1>3. ((2 * x) \div 2) \div p = (2 * x) \div (2 * p)
  BY <1>2, DivDiv DEF p
<1>4. (2 * x) \div 2 = x
  OBVIOUS
<1> QED BY <1>2, <1>3, <1>4 DEF p

\* Powers from the word size on exceed every word.
LEMMA BigPower ==
  ASSUME NEW n \in WordSize..Modulus
  PROVE  Power(n) \in Nat /\ Power(n) >= Modulus
<1>1. Power(n - WordSize) \in Nat \ {0} /\ Power(n) = Modulus * Power(n - WordSize)
  BY Powers
<1> DEFINE p == Power(n - WordSize)
<1> HIDE DEF p
<1>2. Modulus \in Nat \ {0} /\ p \in Nat \ {0} /\ Power(n) = Modulus * p
  BY <1>1, WordAssumption DEF Modulus, p
<1> QED BY <1>2

LEMMA LslExact ==
  ASSUME NEW v \in Word, NEW n \in 0..(Modulus - 1), NEW carry
  PROVE  LET s == Lsl(v, n, carry)
         IN /\ s.result = (v * 2^n) % Modulus
            /\ n # 0 => (s.carry <=> ((v * 2^n) \div Modulus) % 2 = 1)
<1> DEFINE s == Lsl(v, n, carry)
           P == Power(n)
<1>1. v \in Nat /\ Modulus \in Nat \ {0} /\ WordSize \in Nat \ {0} /\ n \in Nat
  BY WordAssumption, ShiftAssumption DEF Word, Modulus
<1>2. /\ s.result = IF n >= WordSize THEN 0 ELSE (v * P) % Modulus
      /\ n # 0 => (s.carry <=> n <= WordSize /\ Bit(v, WordSize - n))
  BY DEF Lsl, Power
<1>3. n \in 0..(Modulus + WordSize) /\ P \in Nat \ {0}
  BY <1>1, Powers
<1> HIDE DEF s, P
<1>4. CASE n <= WordSize
  <2> DEFINE R == Power(WordSize - n)
  <2>1. R \in Nat \ {0} /\ P * R = Modulus
    BY <1>1, <1>4, Powers DEF P
  <2>2. Bit(v, WordSize - n) <=> (v \div R) % 2 = 1
    BY DEF Bit, Power
  <2> HIDE DEF R
  <2>3. (v * P) \div Modulus = v \div R
    <3>1. v * P \in Nat /\ v * P = P * v + 0
      BY <1>1, <1>3
    <3>2. (v * P) \div P = v
      <4>1. (P * v + 0) \div P = v
        BY <1>1, <1>3, Unique
      <4> QED BY <3>1, <4>1
    <3>3. ((v * P) \div P) \div R = (v * P) \div (P * R)
      BY <1>3, <2>1, <3>1, DivDiv
    <3> QED BY <2>1, <3>2, <3>3
  <2>4. n = WordSize => (v * P) % Modulus = 0
    <3>1. SUFFICES ASSUME n = WordSize PROVE (v * P) % Modulus = 0
      OBVIOUS
    <3>2. P = Modulus /\ v * P = Modulus * v + 0
      BY <1>1, <3>1, Powers DEF P
    <3>3. (Modulus * v + 0) % Modulus = 0
      BY <1>1, Unique
    <3> QED BY <3>2, <3>3
  <2> QED BY <1>1, <1>2, <1>4, <2>2, <2>3, <2>4 DEF s, P, Power
<1>5. CASE n > WordSize
  <2> DEFINE k == n - WordSize
             R == Power(k - 1)
             h == v * R
  <2>1. k \in 1..(Modulus + WordSize) /\ n \in WordSize..Modulus
    BY <1>1, <1>5
  <2>2. R \in Nat \ {0} /\ Power(k) = 2 * R /\ P = Modulus * Power(k)
    BY <2>1, Powers DEF P
  <2> HIDE DEF k, R
  <2> DEFINE g == 2 * h
  <2>3. h \in Nat /\ v * P = Modulus * g + 0
    <3>1. P = Modulus * (2 * R)
      BY <2>2
    <3>2. v * (Modulus * (2 * R)) = Modulus * (2 * (v * R))
      BY <1>1, <2>2
    <3> QED BY <1>1, <2>2, <3>1, <3>2
  <2> HIDE DEF h
  <2>4. g \in Int /\ g % 2 = 0
    BY <2>3
  <2> HIDE DEF g
  <2>5. (Modulus * g + 0) \div Modulus = g /\ (Modulus * g + 0) % Modulus = 0
    BY <1>1, <2>4, Unique
  <2> QED BY <1>1, <1>2, <1>5, <2>3, <2>4, <2>5 DEF s, P, Power
<1> QED BY <1>1, <1>4, <1>5

\* Above the sign bit there is nothing but copies of it.
LEMMA BeyondSign ==
  ASSUME NEW v \in Word, NEW n \in WordSize..Modulus
  PROVE  v \div Power(n) = 0 /\ Signed(v) \div Power(n) = IF SignBit(v) THEN -1 ELSE 0
<1> DEFINE P == Power(n)
<1>1. P \in Nat /\ P >= Modulus
  BY BigPower
<1> HIDE DEF P
<1>2. v \in Nat /\ v < Modulus /\ Modulus = 2 * Half /\ Half \in Nat \ {0}
  BY WordAssumption DEF Word, Modulus
<1>3. v \div P = 0
  BY <1>1, <1>2
<1>4. CASE SignBit(v)
  <2> DEFINE d == v - Modulus
  <2>1. Signed(v) = d /\ d \in Int /\ d < 0 /\ d >= -P
    BY <1>1, <1>2, <1>4 DEF Signed, SignBit
  <2> HIDE DEF d
  <2>2. d = P * (-1) + (d + P) /\ d + P \in 0..(P - 1)
    BY <1>1, <1>2, <2>1
  <2>3. (P * (-1) + (d + P)) \div P = -1
    <3>1. P \in Nat \ {0} /\ -1 \in Int
      BY <1>1, <1>2
    <3> DEFINE r == d + P
               q == -1
    <3> HIDE DEF r, q
    <3>2. (P * q + r) \div P = q
      BY <2>2, <3>1, Unique DEF r, q
    <3> QED BY <3>2 DEF r, q
  <2> QED BY <1>3, <1>4, <2>1, <2>2, <2>3 DEF P
<1>5. CASE ~SignBit(v)
  BY <1>3, <1>5 DEF Signed, P
<1> QED BY <1>4, <1>5

LEMMA LsrExact ==
  ASSUME NEW v \in Word, NEW n \in 0..(Modulus - 1), NEW carry
  PROVE  LET s == Lsr(v, n, carry)
         IN /\ s.result = (v \div 2^n) % Modulus
            /\ n # 0 => (s.carry <=> ((2 * v) \div 2^n) % 2 = 1)
<1> DEFINE s == Lsr(v, n, carry)
           P == Power(n)
<1>1. /\ v \in Nat /\ v < Modulus /\ Modulus \in Nat \ {0} /\ WordSize \in Nat \ {0} /\ n \in Nat
      /\ n < Modulus
  BY WordAssumption, ShiftAssumption DEF Word, Modulus
<1>2. /\ s.result = IF n >= WordSize THEN 0 ELSE v \div P
      /\ n # 0 => (s.carry <=> n <= WordSize /\ (v \div Power(n - 1)) % 2 = 1)
  BY DEF Lsr, Bit, Power
<1>3. n \in 0..(Modulus + WordSize) /\ P \in Nat \ {0}
  BY <1>1, Powers
<1> HIDE DEF s, P
<1>4. n >= WordSize => v \div P = 0
  <2>1. n >= WordSize => n \in WordSize..Modulus
    BY <1>1
  <2> QED BY <2>1, BeyondSign DEF P
<1>5. v \div P \in 0..(Modulus - 1)
  BY <1>1, <1>3
<1>6. s.result = (v \div P) % Modulus
  BY <1>1, <1>2, <1>4, <1>5
<1>7. ASSUME n # 0 PROVE s.carry <=> ((2 * v) \div P) % 2 = 1
  <2>1. n \in 1..Modulus
    BY <1>1, <1>7
  <2>2. (2 * v) \div P = v \div Power(n - 1)
    BY <1>1, <2>1, LastBit DEF P
  <2>3. ASSUME n > WordSize PROVE v \div Power(n - 1) = 0
    <3>1. n - 1 \in WordSize..Modulus
      BY <1>1, <2>3
    <3> QED BY <3>1, BeyondSign
  <2>4. n > WordSize => (v \div Power(n - 1)) % 2 = 0
    BY <2>3
  <2> QED BY <1>1, <1>2, <1>7, <2>2, <2>4
<1> QED BY <1>6, <1>7 DEF s, P, Power

\* A negative number is divided as its word is, less what the sign weighs.
LEMMA SignedQuotient ==
  ASSUME NEW v \in Word, NEW n \in 0..WordSize, SignBit(v)
  PROVE  Signed(v) \div Power(n) = v \div Power(n) - Power(WordSize - n)
<1> DEFINE P == Power(n)
           Q == Power(WordSize - n)
<1>1. P \in Nat \ {0} /\ Q \in Nat \ {0} /\ P * Q = Modulus
  <2>1. WordSize \in Nat /\ n \in 0..(Modulus + WordSize)
    BY WordAssumption, ShiftAssumption DEF Modulus
  <2> QED BY <2>1, Powers
<1>2. v \in Nat
  BY DEF Word
<1> HIDE DEF P, Q
<1> DEFINE q == v \div P
           r == v % P
           k == q - Q
<1>3. q \in Int /\ r \in 0..(P - 1) /\ v = P * q + r
  BY <1>1, <1>2, Quotient
<1> HIDE DEF q, r
<1>4. P * k = P * q - P * Q /\ k \in Int
  BY <1>1, <1>3
<1> HIDE DEF k
<1>5. v - Modulus = P * k + r
  BY <1>1, <1>3, <1>4
<1>6. (P * k + r) \div P = k
  BY <1>1, <1>3, <1>4, Unique
<1>7. Signed(v) = v - Modulus
  BY DEF Signed
<1> QED BY <1>5, <1>6, <1>7 DEF P, Q, k, q

LEMMA AsrResult ==
  ASSUME NEW v \in Word, NEW n \in 0..(Modulus - 1), NEW carry
  PROVE  Asr(v, n, carry).result = (Signed(v) \div 2^n) % Modulus
<1> DEFINE P == Power(n)
           Q == Power(WordSize - n)
           fill == IF SignBit(v) THEN (P - 1) * Q ELSE 0
           res == Asr(v, n, carry).result
<1>1. /\ v \in Nat /\ v < Modulus /\ Modulus \in Nat \ {0} /\ WordSize \in Nat \ {0}
      /\ n \in Nat /\ n < Modulus
  BY WordAssumption, ShiftAssumption DEF Word, Modulus
<1>2. res = IF n < WordSize THEN v \div P + fill
            ELSE IF SignBit(v) THEN Modulus - 1 ELSE 0
  BY DEF Asr, Power
<1> HIDE DEF res
<1>3. CASE n >= WordSize
  <2>1. n \in WordSize..Modulus
    BY <1>1, <1>3
  <2>2. Signed(v) \div P = IF SignBit(v) THEN -1 ELSE 0
    BY <2>1, BeyondSign
  <2>3. (-1) % Modulus = Modulus - 1 /\ 0 % Modulus = 0
    BY <1>1
  <2>4. res = (Signed(v) \div P) % Modulus
    BY <1>1, <1>2, <1>3, <2>2, <2>3
  <2> QED BY <2>4 DEF res, Power
<1>4. CASE n < WordSize
  <2>1. n \in 0..WordSize /\ n \in 0..(Modulus + WordSize)
    BY <1>1, <1>4
  <2>2. P \in Nat \ {0} /\ Q \in Nat \ {0} /\ P * Q = Modulus
    BY <2>1, Powers
  <2>3. SignBit(v) => Signed(v) \div P = v \div P - Q
    BY <2>1, SignedQuotient
  <2>4. ~SignBit(v) => Signed(v) \div P = v \div P
    BY DEF Signed
  <2>5. res = v \div P + fill
    BY <1>2, <1>4
  <2> HIDE DEF P, Q
  <2>6. v \div P \in 0..(Q - 1)
    BY <1>1, <2>2, DivisionBound
  <2>7. Q <= Modulus /\ (P - 1) * Q = Modulus - Q
    BY <1>1, <2>2
  <2> DEFINE q == v \div P
  <2>8. CASE SignBit(v)
    <3>1. res = q + (Modulus - Q) /\ Signed(v) \div P = q - Q
      BY <2>3, <2>5, <2>7, <2>8
    <3> HIDE DEF q
    <3>2. q \in 0..(Q - 1)
      BY <2>6 DEF q
    <3>3. (q - Q) % Modulus = q + (Modulus - Q)
      <4> DEFINE t == q + (Modulus - Q)
      <4>1. q - Q = Modulus * (-1) + t /\ t \in 0..(Modulus - 1)
        BY <1>1, <2>2, <2>7, <3>2
      <4> HIDE DEF t
      <4> DEFINE one == -1
      <4>2. one \in Int
        OBVIOUS
      <4> HIDE DEF one
      <4>3. (Modulus * one + t) % Modulus = t
        BY <1>1, <4>1, <4>2, Unique
      <4> QED BY <4>1, <4>3 DEF t, one
    <3> QED BY <3>1, <3>3 DEF res, P, Power
  <2>9. CASE ~SignBit(v)
    <3>1. res = q /\ Signed(v) \div P = q
      BY <2>4, <2>5, <2>6, <2>9
    <3>2. q % Modulus = q
      BY <1>1, <2>2, <2>6, <2>7
    <3> QED BY <3>1, <3>2 DEF res, P, Power
  <2> QED BY <2>8, <2>9
<1> QED BY <1>1, <1>3, <1>4

LEMMA AsrCarry ==
  ASSUME NEW v \in Word, NEW n \in 1..(Modulus - 1), NEW carry
  PROVE  Asr(v, n, carry).carry <=> ((2 * Signed(v)) \div 2^n) % 2 = 1
<1> DEFINE R == Power(n - 1)
           c == Asr(v, n, carry).carry
           w == Signed(v) \div R
<1>1. /\ v \in Nat /\ v < Modulus /\ Modulus \in Nat \ {0} /\ WordSize \in Nat \ {0}
      /\ n \in Nat /\ n < Modulus /\ n >= 1 /\ Modulus = 2 * Half /\ Half \in Nat \ {0}
  BY WordAssumption, ShiftAssumption DEF Word, Modulus
<1>2. c <=> IF n >= WordSize THEN SignBit(v) ELSE (v \div R) % 2 = 1
  <2>1. n # 0
    BY <1>1
  <2>2. Bit(v, n - 1) <=> (v \div R) % 2 = 1
    BY DEF Bit, Power
  <2>3. c = IF n = 0 THEN carry
            ELSE IF n >= WordSize THEN SignBit(v) ELSE Bit(v, n - 1)
    BY DEF Asr
  <2> HIDE DEF c, R
  <2> QED BY <2>1, <2>2, <2>3, Zenon
<1>3. Signed(v) \in Int
  BY <1>1 DEF Signed
<1>4. n \in 1..Modulus /\ n - 1 \in 0..(Modulus + WordSize)
  BY <1>1
<1>5. (2 * Signed(v)) \div Power(n) = w
  BY <1>3, <1>4, LastBit
<1>6. R \in Nat \ {0} /\ v \div R \in Int
  BY <1>1, <1>4, Powers
<1>7. c <=> w % 2 = 1
  <2>1. CASE n < WordSize
    <3>1. n - 1 \in 0..WordSize /\ n \in 0..WordSize /\ WordSize - n + 1 \in 1..(Modulus + WordSize)
      BY <1>1, <2>1
    <3> DEFINE k == WordSize - n + 1
               Q == Power(k - 1)
               q == v \div R
    <3>2. Q \in Nat \ {0} /\ Power(k) = 2 * Q
      BY <3>1, Powers
    <3>3. WordSize - (n - 1) = k
      BY <1>1
    <3>4. SignBit(v) => w = q - 2 * Q
      BY <3>1, <3>2, <3>3, SignedQuotient
    <3>5. ~SignBit(v) => w = q
      BY DEF Signed
    <3> HIDE DEF Q, k, q, w
    <3>6. q \in Int
      BY <1>6 DEF q
    <3>7. (q - 2 * Q) % 2 = q % 2
      BY <3>2, <3>6
    <3>8. w % 2 = q % 2
      BY <3>4, <3>5, <3>7
    <3>9. c <=> q % 2 = 1
      BY <1>1, <1>2, <2>1 DEF q
    <3> QED BY <3>8, <3>9
  <2>2. CASE n >= WordSize
    <3>1. w = IF SignBit(v) THEN -1 ELSE 0
      <4>1. CASE n > WordSize
        <5>1. n - 1 \in WordSize..Modulus
          BY <1>1, <4>1
        <5> QED BY <5>1, BeyondSign
      <4>2. CASE n = WordSize
        <5>1. R = Half
          BY <4>2, ShiftAssumption DEF Power
        <5>2. CASE SignBit(v)
          <6>1. Signed(v) = v - Modulus /\ v >= Half
            BY <5>2 DEF Signed, SignBit
          <6>2. (v - Modulus) \div Half = -1
            BY <1>1, <6>1
          <6> QED BY <5>1, <5>2, <6>1, <6>2
        <5>3. CASE ~SignBit(v)
          <6>1. Signed(v) = v /\ v < Half
            BY <1>1, <5>3 DEF Signed, SignBit
          <6>2. v \div Half = 0
            BY <1>1, <6>1
          <6> QED BY <5>1, <5>3, <6>1, <6>2
        <5> QED BY <5>2, <5>3
      <4> QED BY <1>1, <2>2, <4>1, <4>2
    <3>2. (-1) % 2 = 1 /\ 0 % 2 = 0
      <4>1. \A m \in Int : (2 * m + 1) % 2 = 1
        OBVIOUS
      <4>2. -1 \in Int /\ 2 * (-1) + 1 = -1 /\ 0 % 2 = 0
        OBVIOUS
      <4> QED BY <4>1, <4>2
    <3> QED BY <1>1, <1>2, <2>2, <3>1, <3>2
  <2> QED BY <1>1, <2>1, <2>2
<1> QED BY <1>5, <1>7 DEF Power

\* A rotation splits the word in two and swaps the parts.
LEMMA RorExact ==
  ASSUME NEW v \in Word, NEW n \in 1..(WordSize - 1), NEW carry,
         NEW s \in Ror(v, n, carry)
  PROVE  /\ v = ((s.result * 2^n) % Modulus) + s.result \div 2^(WordSize - n)
         /\ s.carry <=> SignBit(s.result)
<1> DEFINE P == Power(n)
           Q == Power(WordSize - n)
           R == Power(n - 1)
           res == s.result
           q == v \div P
           r == v % P
<1>1. /\ v \in Nat /\ v < Modulus /\ Modulus \in Nat \ {0} /\ WordSize \in Nat \ {0}
      /\ n \in Nat /\ n < WordSize /\ n >= 1 /\ Modulus = 2 * Half /\ Half \in Nat \ {0}
  BY WordAssumption, ShiftAssumption DEF Word, Modulus
<1>2. /\ P \in Nat \ {0} /\ Q \in Nat \ {0} /\ R \in Nat \ {0}
      /\ P * Q = Modulus /\ P = 2 * R
  <2>1. n \in 0..(Modulus + WordSize) /\ n \in 0..WordSize /\ n \in 1..(Modulus + WordSize)
    BY <1>1
  <2> QED BY <2>1, Powers
<1>3. res = q + r * Q /\ (s.carry <=> (v \div R) % 2 = 1)
  <2>1. n % WordSize = n /\ n # 0
    BY <1>1
  <2>2. n < WordSize
    BY <1>1
  <2>3. /\ s.result \in {RotateRight(v, n)}
        /\ s.carry = IF n = 0 THEN carry
                     ELSE IF n % WordSize = 0 THEN SignBit(v) ELSE Bit(v, (n % WordSize) - 1)
    BY <2>2 DEF Ror
  <2>4. s.carry = Bit(v, n - 1)
    BY <2>1, <2>3, Zenon
  <2>5. Bit(v, n - 1) <=> (v \div R) % 2 = 1
    BY DEF Bit, Power
  <2>6. res = q + r * Q
    BY <2>3 DEF RotateRight, Power
  <2> QED BY <2>4, <2>5, <2>6, Zenon
<1> HIDE DEF P, Q, R, res
<1>4. q \in 0..(Q - 1)
  BY <1>1, <1>2, DivisionBound
<1>5. r \in 0..(P - 1) /\ v = P * q + r
  <2>1. v \in Int /\ P \in Nat \ {0}
    BY <1>1, <1>2
  <2> HIDE DEF q, r
  <2> QED BY ONLY <2>1, Quotient DEF q, r
<1>6. v \div P = q /\ v % P = r
  OBVIOUS
<1> HIDE DEF q, r
<1>7. res \div Q = r
  <2>1. (Q * r + q) \div Q = r
    BY <1>2, <1>4, <1>5, Unique
  <2>2. res = Q * r + q
    BY <1>2, <1>3, <1>4, <1>5
  <2> QED BY <2>1, <2>2
<1>8. (res * P) % Modulus = P * q
  <2>1. res * P = Modulus * r + P * q
    <3>1. res * P = q * P + (r * Q) * P
      BY <1>2, <1>3, <1>4, <1>5
    <3>2. (r * Q) * P = (P * Q) * r /\ q * P = P * q
      BY <1>2, <1>4, <1>5
    <3>3. P * q \in Nat /\ Modulus * r \in Nat
      BY <1>1, <1>2, <1>4, <1>5
    <3> QED BY <1>2, <3>1, <3>2, <3>3
  <2>2. P * q \in 0..(Modulus - 1)
    <3>1. P * q \in Nat
      BY <1>2, <1>4
    <3> QED BY <1>1, <1>5, <3>1
  <2> DEFINE t == P * q
  <2> HIDE DEF t
  <2>3. (Modulus * r + t) % Modulus = t
    BY <1>1, <1>5, <2>2, Unique DEF t
  <2> QED BY <2>1, <2>3 DEF t
<1>9. s.carry <=> r >= R
  <2> DEFINE b == IF r >= R THEN 1 ELSE 0
             e == r - b * R
             k == 2 * q + b
  <2>1. e \in 0..(R - 1) /\ k \in Int /\ b \in {0, 1}
    <3>1. CASE r >= R
      BY <1>2, <1>4, <1>5, <3>1
    <3>2. CASE ~(r >= R)
      BY <1>2, <1>4, <1>5, <3>2
    <3> QED BY <3>1, <3>2
  <2>2. r = b * R + e
    <3>1. b * R \in Int
      BY <1>2
    <3> QED BY <1>5, <3>1
  <2> HIDE DEF e
  <2>3. v = R * k + e
    <3>1. (2 * R) * q = R * (2 * q)
      BY <1>2, <1>4
    <3>2. R * k = R * (2 * q) + R * b /\ R * b = b * R
      BY <1>2, <1>4
    <3>3. P * q = R * (2 * q)
      BY <1>2, <3>1
    <3>4. R * (2 * q) \in Int /\ R * b \in Int /\ e \in Int
      BY <1>2, <1>4, <2>1
    <3> HIDE DEF k, b
    <3> QED BY <1>5, <2>2, <3>2, <3>3, <3>4
  <2>4. k % 2 = b
    BY <1>4
  <2> HIDE DEF k
  <2>5. v \div R = k
    BY <1>2, <2>1, <2>3, Unique
  <2> QED BY <1>2, <1>3, <1>5, <2>4, <2>5
<1>10. SignBit(res) <=> r >= R
  <2>1. Half = R * Q
    <3>1. (2 * R) * Q = 2 * (R * Q) /\ R * Q \in Nat
      BY <1>2
    <3> QED BY <1>1, <1>2, <3>1
  <2>2. ASSUME r >= R PROVE res >= Half
    <3>1. r * Q >= R * Q /\ r * Q \in Nat /\ R * Q \in Nat
      BY <1>2, <1>5, <2>2
    <3> QED BY <1>3, <1>4, <2>1, <3>1
  <2>3. ASSUME ~(r >= R) PROVE res < Half
    <3>1. r + 1 <= R /\ (r + 1) * Q = r * Q + Q
      BY <1>2, <1>5, <2>3
    <3>2. (r + 1) * Q <= R * Q /\ r * Q \in Nat /\ R * Q \in Nat
      BY <1>2, <1>5, <3>1
    <3> QED BY <1>2, <1>3, <1>4, <2>1, <3>1, <3>2
  <2>4. res \in Int
    BY <1>2, <1>3, <1>4, <1>5
  <2> QED BY <1>1, <2>2, <2>3, <2>4 DEF SignBit
<1> QED BY <1>5, <1>7, <1>8, <1>9, <1>10 DEF res, P, Q, Power

\* Every shift of a word is a word.
LEMMA ShiftTyped ==
  ASSUME NEW v \in Word, NEW n \in Nat, NEW carry \in BOOLEAN,
         NEW s \in {Lsl(v, n, carry), Lsr(v, n, carry), Asr(v, n, carry)} \cup Ror(v, n, carry)
  PROVE  s.result \in Word /\ s.carry \in BOOLEAN
<1>1. v \in Nat /\ v < Modulus /\ Modulus \in Nat \ {0} /\ WordSize \in Nat \ {0}
  BY WordAssumption, ShiftAssumption DEF Word, Modulus
<1>2. ASSUME NEW m \in Nat, m < WordSize
      PROVE  /\ 2^m \in Nat \ {0} /\ 2^(WordSize - m) \in Nat \ {0}
             /\ 2^m * 2^(WordSize - m) = Modulus
  <2>1. m \in 0..WordSize /\ m \in 0..(Modulus + WordSize)
    BY <1>1, <1>2
  <2> QED BY <2>1, Powers DEF Power
<1>3. ASSUME NEW m \in Nat, m < WordSize
      PROVE  v \div 2^m \in 0..(2^(WordSize - m) - 1) /\ v \div 2^m \in Word
  <2>1. v \div 2^m \in 0..(2^(WordSize - m) - 1)
    BY <1>1, <1>2, <1>3, DivisionBound
  <2>2. v \div 2^m <= v
    BY <1>1, <1>2, <1>3
  <2> QED BY <1>1, <2>1, <2>2 DEF Word
<1>4. CASE s = Lsl(v, n, carry)
  <2>1. n < WordSize => (v * 2^n) % Modulus \in Word
    BY <1>1, <1>2 DEF Word
  <2>2. s.result \in Word
    BY <1>1, <1>4, <2>1 DEF Lsl, Word
  <2> QED BY <1>4, <2>2 DEF Lsl, Bit
<1>5. CASE s = Lsr(v, n, carry)
  <2>1. s.result \in Word
    BY <1>1, <1>3, <1>5 DEF Lsr, Word
  <2> QED BY <1>5, <2>1 DEF Lsr, Bit
<1>6. CASE s = Asr(v, n, carry)
  <2> DEFINE out == IF n >= WordSize THEN SignBit(v) ELSE Bit(v, n - 1)
  <2>0. s.carry \in BOOLEAN
    <3>1. SignBit(v) \in BOOLEAN /\ Bit(v, n - 1) \in BOOLEAN
      BY DEF SignBit, Bit
    <3>2. s.carry = IF n = 0 THEN carry ELSE out
      BY <1>6 DEF Asr
    <3> QED BY <3>1, <3>2
  <2>1. n < WordSize => v \div 2^n + (2^n - 1) * 2^(WordSize - n) \in Word
    BY <1>1, <1>2, <1>3 DEF Word
  <2>2. n < WordSize => v \div 2^n + 0 \in Word
    BY <1>1, <1>3 DEF Word
  <2>3. CASE n < WordSize
    <3>1. s.result = v \div 2^n + (IF SignBit(v) THEN (2^n - 1) * 2^(WordSize - n) ELSE 0)
      BY <1>6, <2>3 DEF Asr
    <3>2. s.result \in Word
      BY <2>1, <2>2, <2>3, <3>1
    <3> QED BY <2>0, <3>2
  <2>4. CASE ~(n < WordSize)
    <3>1. s.result \in {Modulus - 1, 0}
      BY <1>6, <2>4 DEF Asr
    <3>2. s.result \in Word
      BY <1>1, <3>1 DEF Word
    <3> QED BY <2>0, <3>2
  <2> QED BY <2>3, <2>4
<1>7. CASE s \in Ror(v, n, carry)
  <2>1. ASSUME NEW m \in Nat, m < WordSize PROVE RotateRight(v, m) \in Word
    <3>1. v % 2^m \in 0..(2^m - 1)
      BY <1>1, <1>2, <2>1
    <3>2. (v % 2^m) * 2^(WordSize - m) \in 0..((2^m - 1) * 2^(WordSize - m))
      BY <1>2, <2>1, <3>1
    <3>3. (2^m - 1) * 2^(WordSize - m) = Modulus - 2^(WordSize - m)
      BY <1>1, <1>2, <2>1
    <3> QED BY <1>1, <1>2, <1>3, <2>1, <3>2, <3>3 DEF RotateRight, Word
  <2>2. n % WordSize \in Nat /\ n % WordSize < WordSize
    BY <1>1
  <2>3. s.result \in Word
    BY <1>1, <1>7, <2>1, <2>2 DEF Ror, Word
  <2>4. s.carry \in BOOLEAN
    <3>1. SignBit(v) \in BOOLEAN /\ Bit(v, (n % WordSize) - 1) \in BOOLEAN
      BY DEF SignBit, Bit
    <3>2. s.carry = IF n = 0 THEN carry
                    ELSE IF n % WordSize = 0 THEN SignBit(v) ELSE Bit(v, (n % WordSize) - 1)
      BY <1>7 DEF Ror
    <3> QED BY <3>1, <3>2
  <2> QED BY <2>3, <2>4
<1> QED BY <1>4, <1>5, <1>6, <1>7

\* What a shift leaves in the register and in C, for every count that a register holds.
LEMMA ShiftIsArithmetic ==
  ASSUME NEW v \in Word, NEW n \in 0..(Modulus - 1), NEW carry \in BOOLEAN, NEW x \in Int,
         NEW w \in Int,
         NEW s \in {Lsl(v, n, carry), Lsr(v, n, carry), Asr(v, n, carry)},
         s.result = x % Modulus, n # 0 => (s.carry <=> w % 2 = 1)
  PROVE  s = [result |-> x % Modulus, carry |-> IF n = 0 THEN carry ELSE w % 2 = 1]
<1>1. n \in Nat
  OBVIOUS
<1>2. s.carry \in BOOLEAN
  BY <1>1, ShiftTyped
<1>3. s = [result |-> s.result, carry |-> s.carry] /\ (n = 0 => s.carry = carry)
  BY DEF Lsl, Lsr, Asr
<1>4. s.carry = IF n = 0 THEN carry ELSE w % 2 = 1
  BY <1>2, <1>3, Zenon
<1> QED BY <1>3, <1>4, Zenon

-----------------------------------------------------------------------------
(* The flags *)

\* A subtraction, and nothing but its flags, decides every condition.
LEMMA ComparesHolds ==
  ASSUME NEW a \in Word, NEW b \in Word,
         ArithmeticFlags(Difference(a, b)),
         compared' = [valid |-> TRUE, a |-> a, b |-> b]
  PROVE  ComparisonsHold'
<1> DEFINE s == Difference(a, b)
<1>1. /\ s.carry <=> a >= b
      /\ s.result = 0 <=> a = b
      /\ SignBit(s.result) = s.overflow <=> Signed(a) >= Signed(b)
      /\ ~s.overflow <=> Signed(a) - Signed(b) \in (-Half)..(Half - 1)
      /\ s.carry \in BOOLEAN /\ s.overflow \in BOOLEAN
  BY DifferenceCompares
<1>2. a \in Int /\ b \in Int /\ Signed(a) \in Int /\ Signed(b) \in Int
      /\ (Signed(a) = Signed(b) <=> a = b)
  BY WordAssumption DEF Word, Modulus, Signed, SignBit
<1>3. /\ flags'.n = SignBit(s.result) /\ flags'.z = (s.result = 0)
      /\ flags'.c = s.carry /\ flags'.v = s.overflow
  BY DEF ArithmeticFlags
<1>4. /\ Condition("EQ")' <=> flags'.z
      /\ Condition("NE")' <=> ~flags'.z
      /\ Condition("CS")' <=> flags'.c
      /\ Condition("CC")' <=> ~flags'.c
      /\ Condition("HI")' <=> flags'.c /\ ~flags'.z
      /\ Condition("LS")' <=> ~(flags'.c /\ ~flags'.z)
      /\ Condition("GE")' <=> flags'.n = flags'.v
      /\ Condition("LT")' <=> flags'.n # flags'.v
      /\ Condition("GT")' <=> flags'.n = flags'.v /\ ~flags'.z
      /\ Condition("LE")' <=> ~(flags'.n = flags'.v /\ ~flags'.z)
      /\ Condition("VC")' <=> ~flags'.v
  BY DEF Condition
<1>5. compared'.a = a /\ compared'.b = b
  OBVIOUS
<1>6. /\ flags'.z <=> a = b
      /\ flags'.c <=> a >= b
      /\ flags'.n = flags'.v <=> Signed(a) >= Signed(b)
      /\ ~flags'.v <=> Signed(a) - Signed(b) \in (-Half)..(Half - 1)
  BY <1>1, <1>3
<1>7. /\ flags'.c /\ ~flags'.z <=> a > b
      /\ ~flags'.c <=> a < b
      /\ ~(flags'.c /\ ~flags'.z) <=> a <= b
  BY <1>2, <1>6
<1>8. /\ flags'.n # flags'.v <=> Signed(a) < Signed(b)
      /\ flags'.n = flags'.v /\ ~flags'.z <=> Signed(a) > Signed(b)
      /\ ~(flags'.n = flags'.v /\ ~flags'.z) <=> Signed(a) <= Signed(b)
  BY <1>2, <1>6
<1>9. /\ Condition("EQ")' <=> a = b
      /\ Condition("NE")' <=> a # b
      /\ Condition("CS")' <=> a >= b
      /\ Condition("CC")' <=> a < b
      /\ Condition("HI")' <=> a > b
      /\ Condition("LS")' <=> a <= b
      /\ Condition("VC")' <=> Signed(a) - Signed(b) \in (-Half)..(Half - 1)
  BY <1>4, <1>6, <1>7, Zenon
<1>10. /\ Condition("GE")' <=> Signed(a) >= Signed(b)
       /\ Condition("LT")' <=> Signed(a) < Signed(b)
       /\ Condition("GT")' <=> Signed(a) > Signed(b)
       /\ Condition("LE")' <=> Signed(a) <= Signed(b)
  BY <1>4, <1>6, <1>8, Zenon
<1> QED BY <1>5, <1>9, <1>10 DEF ComparisonsHold, Signed, SignBit

\* The first words of a chain.
LEMMA StartsExact ==
  ASSUME NEW op \in {"add", "sub"}, NEW result \in Word, NEW wanted \in Int,
         flags'.c \in BOOLEAN,
         op = "add" => wanted = result + Number(flags'.c) * Modulus,
         op = "sub" => wanted = result - Borrow(flags'.c) * Modulus,
         Starts(op, result, wanted)
  PROVE  ChainsAreExact' /\ chain' \in [op : {"none", "add", "sub"}, weight : Nat \ {0},
                                       wanted : Int, got : Nat]
BY WordAssumption DEF Starts, NoChain, ChainsAreExact, Word, Modulus, Number, Borrow

LEMMA Telescope ==
  \A total, got, x, y, k, l \in Int :
    /\ total = got + k /\ x + k = y + l => total + x = (got + y) + l
    /\ total = got - k /\ x - k = y - l => total + x = (got + y) - l
OBVIOUS

\* One word more.
LEMMA ContinuesExact ==
  ASSUME NEW op \in {"add", "sub"}, NEW result \in Word, NEW wanted \in Int,
         TypeOK, ChainsAreExact, flags'.c \in BOOLEAN,
         op = "add" => wanted + Number(flags.c) = result + Number(flags'.c) * Modulus,
         op = "sub" => wanted - Borrow(flags.c) = result - Borrow(flags'.c) * Modulus,
         Continues(op, result, wanted)
  PROVE  ChainsAreExact' /\ chain' \in [op : {"none", "add", "sub"}, weight : Nat \ {0},
                                       wanted : Int, got : Nat]
<1>1. /\ Modulus \in Nat \ {0} /\ result \in Nat
      /\ chain.weight \in Nat \ {0} /\ chain.wanted \in Int /\ chain.got \in Nat
      /\ flags.c \in BOOLEAN
  BY WordAssumption DEF TypeOK, Flags, Word, Modulus
<1>2. CASE chain' = NoChain
  BY <1>2 DEF NoChain, ChainsAreExact
<1>3. CASE /\ chain.op = op
           /\ chain' = [op |-> op, weight |-> chain.weight * Modulus,
                        wanted |-> chain.wanted + chain.weight * wanted,
                        got    |-> chain.got + chain.weight * result]
  <2> DEFINE w == chain.weight
  <2>1. chain' \in [op : {"none", "add", "sub"}, weight : Nat \ {0}, wanted : Int, got : Nat]
    <3>1. /\ w * Modulus \in Nat \ {0} /\ w * result \in Nat /\ w * wanted \in Int
      BY <1>1
    <3>2. chain.wanted + w * wanted \in Int /\ chain.got + w * result \in Nat
      BY <1>1, <3>1
    <3> QED BY <1>3, <3>1, <3>2
  <2>2. \A c \in {0, 1}, d \in {0, 1} :
           /\ wanted + c = result + d * Modulus =>
                 w * wanted + c * w = w * result + d * (w * Modulus)
           /\ wanted - c = result - d * Modulus =>
                 w * wanted - c * w = w * result - d * (w * Modulus)
    <3>1. \A x, y \in Int : w * (x + y) = w * x + w * y /\ w * (x - y) = w * x - w * y
      BY <1>1
    <3>3. \A d \in {0, 1} : d * Modulus \in Int /\ w * (d * Modulus) = d * (w * Modulus)
      BY <1>1
    <3>4. \A c \in {0, 1} : c \in Int /\ c * w = w * c
      BY <1>1
    <3>5. \A c \in {0, 1}, d \in {0, 1} :
             /\ wanted + c = result + d * Modulus =>
                   w * wanted + w * c = w * result + w * (d * Modulus)
             /\ wanted - c = result - d * Modulus =>
                   w * wanted - w * c = w * result - w * (d * Modulus)
      <4>1. SUFFICES ASSUME NEW c \in {0, 1}, NEW d \in {0, 1}
                     PROVE  /\ wanted + c = result + d * Modulus =>
                                  w * wanted + w * c = w * result + w * (d * Modulus)
                            /\ wanted - c = result - d * Modulus =>
                                  w * wanted - w * c = w * result - w * (d * Modulus)
        OBVIOUS
      <4> DEFINE borrowed == d * Modulus
      <4>2. wanted \in Int /\ c \in Int /\ result \in Int /\ borrowed \in Int
        BY <1>1, <3>3, <3>4
      <4> HIDE DEF w, borrowed
      <4>3. /\ w * (wanted + c) = w * wanted + w * c
            /\ w * (wanted - c) = w * wanted - w * c
        BY <3>1, <4>2
      <4>4. /\ w * (result + borrowed) = w * result + w * borrowed
            /\ w * (result - borrowed) = w * result - w * borrowed
        BY <3>1, <4>2
      <4>5. wanted + c = result + borrowed => w * (wanted + c) = w * (result + borrowed)
        OBVIOUS
      <4>6. wanted - c = result - borrowed => w * (wanted - c) = w * (result - borrowed)
        OBVIOUS
      <4> QED BY <4>3, <4>4, <4>5, <4>6 DEF borrowed
    <3> QED BY <3>3, <3>4, <3>5
  <2>3. /\ Number(flags.c) \in {0, 1} /\ Number(flags'.c) \in {0, 1}
        /\ Borrow(flags.c) \in {0, 1} /\ Borrow(flags'.c) \in {0, 1}
    BY DEF Number, Borrow
  <2>6. /\ w * Modulus \in Int /\ w * result \in Int /\ w * wanted \in Int
        /\ \A c \in {0, 1} : c * w \in Int /\ c * (w * Modulus) \in Int
    BY <1>1
  <2>4. CASE op = "add"
    <3>1. w * wanted + Number(flags.c) * w = w * result + Number(flags'.c) * (w * Modulus)
      BY <2>2, <2>3, <2>4
    <3>2. chain.wanted = chain.got + Number(flags.c) * w
      BY <1>3, <2>4 DEF ChainsAreExact
    <3>3. chain.wanted + w * wanted
            = (chain.got + w * result) + Number(flags'.c) * (w * Modulus)
      <4> DEFINE x == w * wanted
                 y == w * result
                 k == Number(flags.c) * w
                 l == Number(flags'.c) * (w * Modulus)
      <4>1. x \in Int /\ y \in Int /\ k \in Int /\ l \in Int
        BY <2>3, <2>6
      <4>2. chain.wanted = chain.got + k /\ x + k = y + l
        BY <3>1, <3>2
      <4> HIDE DEF x, y, k, l
      <4>3. chain.wanted + x = (chain.got + y) + l
        BY <1>1, <4>1, <4>2, Telescope
      <4> QED BY <4>3 DEF x, y, l
    <3>4. /\ chain'.op = op /\ chain'.weight = w * Modulus
          /\ chain'.wanted = chain.wanted + w * wanted /\ chain'.got = chain.got + w * result
      BY <1>3
    <3> QED BY <2>4, <3>3, <3>4, <2>1 DEF ChainsAreExact
  <2>5. CASE op = "sub"
    <3>1. w * wanted - Borrow(flags.c) * w = w * result - Borrow(flags'.c) * (w * Modulus)
      BY <2>2, <2>3, <2>5
    <3>2. chain.wanted = chain.got - Borrow(flags.c) * w
      BY <1>3, <2>5 DEF ChainsAreExact
    <3>3. chain.wanted + w * wanted
            = (chain.got + w * result) - Borrow(flags'.c) * (w * Modulus)
      <4> DEFINE x == w * wanted
                 y == w * result
                 k == Borrow(flags.c) * w
                 l == Borrow(flags'.c) * (w * Modulus)
      <4>1. x \in Int /\ y \in Int /\ k \in Int /\ l \in Int
        BY <2>3, <2>6
      <4>2. chain.wanted = chain.got - k /\ x - k = y - l
        BY <3>1, <3>2
      <4> HIDE DEF x, y, k, l
      <4>3. chain.wanted + x = (chain.got + y) - l
        BY <1>1, <4>1, <4>2, Telescope
      <4> QED BY <4>3 DEF x, y, l
    <3>4. /\ chain'.op = op /\ chain'.weight = w * Modulus
          /\ chain'.wanted = chain.wanted + w * wanted /\ chain'.got = chain.got + w * result
      BY <1>3
    <3>5. chain'.wanted = chain'.got - Borrow(flags'.c) * chain'.weight
      BY <3>3, <3>4
    <3> QED BY <2>1, <2>5, <3>4, <3>5 DEF ChainsAreExact
  <2> QED BY <2>4, <2>5
<1> QED BY <1>2, <1>3 DEF Continues

-----------------------------------------------------------------------------
(* The specification *)

IInv == TypeOK /\ ComparisonsHold /\ ChainsAreExact

LEMMA InitIInv == Init => IInv
BY WordAssumption
DEF Init, IInv, TypeOK, Flags, NotCompared, NoChain, Word, Modulus, ComparisonsHold, ChainsAreExact

\* The values that an instruction reads.
LEMMA OperandsTyped ==
  ASSUME TypeOK
  PROVE  /\ \A r \in Registers : regs[r] \in Word
         /\ \A a \in {regs[r] : r \in Registers} : a \in Word
         /\ \A b \in Operands : b \in Word
BY ImmediatesAssumption DEF TypeOK, Operands

LEMMA ArithmeticTyped ==
  ASSUME NEW s, s.result \in Word, s.carry \in BOOLEAN, s.overflow \in BOOLEAN,
         ArithmeticFlags(s)
  PROVE  flags' \in Flags /\ flags'.c = s.carry
BY DEF ArithmeticFlags, Flags, SignBit

LEMMA FlagsTyped ==
  ASSUME flags \in Flags, NEW n \in BOOLEAN, NEW z \in BOOLEAN, NEW c \in BOOLEAN
  PROVE  /\ [flags EXCEPT !.n = n, !.z = z] \in Flags
         /\ [flags EXCEPT !.n = n, !.z = z].c = flags.c
         /\ [flags EXCEPT !.n = n, !.z = z, !.c = c] \in Flags
BY DEF Flags

LEMMA ForgetsTyped ==
  ASSUME Forgets
  PROVE  compared' \in [valid : BOOLEAN, a : Word, b : Word] /\ ComparisonsHold'
BY WordAssumption DEF Forgets, NotCompared, ComparisonsHold, Word, Modulus

LEMMA SetsTyped ==
  ASSUME TypeOK, NEW rd \in Registers, NEW value \in Word, Sets(rd, value)
  PROVE  regs' \in [Registers -> Word]
BY DEF TypeOK, Sets

\* A chain of no words says nothing.
LEMMA NoChainExact ==
  ASSUME chain' = NoChain
  PROVE  ChainsAreExact' /\ chain' \in [op : {"none", "add", "sub"}, weight : Nat \ {0},
                                       wanted : Int, got : Nat]
BY DEF NoChain, ChainsAreExact

\* CMP, SUBS and RSBS.
LEMMA ComparesStep ==
  ASSUME NEW a \in Word, NEW b \in Word, Compares(a, b), regs' \in [Registers -> Word]
  PROVE  IInv'
<1> DEFINE s == Difference(a, b)
<1>1. /\ s.result \in Word /\ s.carry \in BOOLEAN /\ s.overflow \in BOOLEAN
      /\ a - b = s.result - Borrow(s.carry) * Modulus
  BY DifferenceCompares
<1>2. /\ ArithmeticFlags(s)
      /\ compared' = [valid |-> TRUE, a |-> a, b |-> b]
      /\ Starts("sub", s.result, a - b)
  BY DEF Compares
<1>3. flags' \in Flags /\ flags'.c = s.carry
  BY <1>1, <1>2, ArithmeticTyped
<1>4. ComparisonsHold'
  BY <1>2, ComparesHolds
<1>5. ChainsAreExact' /\ chain' \in [op : {"none", "add", "sub"}, weight : Nat \ {0},
                                    wanted : Int, got : Nat]
  <2>1. a - b \in Int
    BY WordAssumption DEF Word, Modulus
  <2> QED BY <1>1, <1>2, <1>3, <2>1, StartsExact
<1>6. compared' \in [valid : BOOLEAN, a : Word, b : Word]
  BY <1>2
<1> QED BY <1>3, <1>4, <1>5, <1>6 DEF IInv, TypeOK

\* ADDS and CMN.
LEMMA AddsStep ==
  ASSUME NEW a \in Word, NEW b \in Word, regs' \in [Registers -> Word], Forgets,
         ArithmeticFlags(AddWithCarry(a, b, FALSE)),
         Starts("add", AddWithCarry(a, b, FALSE).result, a + b)
  PROVE  IInv'
<1> DEFINE s == AddWithCarry(a, b, FALSE)
<1>1. /\ s.result \in Word /\ s.carry \in BOOLEAN /\ s.overflow \in BOOLEAN
      /\ a + b + Number(FALSE) = s.result + Number(s.carry) * Modulus
  BY SumExact
<1>2. a + b \in Int /\ a + b = s.result + Number(s.carry) * Modulus
  <2>1. Number(FALSE) = 0 /\ a \in Int /\ b \in Int
    BY WordAssumption DEF Word, Modulus, Number
  <2>2. a + b + Number(FALSE) = a + b + 0
    BY <2>1, Zenon
  <2>3. a + b + 0 = a + b /\ a + b \in Int
    BY <2>1
  <2> QED BY <1>1, <2>2, <2>3, Zenon
<1>3. flags' \in Flags /\ flags'.c = s.carry
  BY <1>1, ArithmeticTyped
<1>4. ChainsAreExact' /\ chain' \in [op : {"none", "add", "sub"}, weight : Nat \ {0},
                                    wanted : Int, got : Nat]
  BY <1>1, <1>2, <1>3, StartsExact
<1> QED BY <1>3, <1>4, ForgetsTyped DEF IInv, TypeOK

\* ADCS and SBCS.
LEMMA CarriesStep ==
  ASSUME IInv, NEW a \in Word, NEW b \in Word, regs' \in [Registers -> Word], Forgets,
         \/ /\ ArithmeticFlags(AddWithCarry(a, b, flags.c))
            /\ Continues("add", AddWithCarry(a, b, flags.c).result, a + b)
         \/ /\ ArithmeticFlags(AddWithCarry(a, Complement(b), flags.c))
            /\ Continues("sub", AddWithCarry(a, Complement(b), flags.c).result, a - b)
  PROVE  IInv'
<1>1. /\ TypeOK /\ ChainsAreExact /\ flags.c \in BOOLEAN
      /\ a \in Int /\ b \in Int /\ Complement(b) \in Word
  BY WordAssumption, ComplementIsWord DEF IInv, TypeOK, Flags, Word, Modulus
<1>2. SUFFICES flags' \in Flags /\ ChainsAreExact'
               /\ chain' \in [op : {"none", "add", "sub"}, weight : Nat \ {0},
                              wanted : Int, got : Nat]
  BY ForgetsTyped DEF IInv, TypeOK
<1>3. CASE /\ ArithmeticFlags(AddWithCarry(a, b, flags.c))
           /\ Continues("add", AddWithCarry(a, b, flags.c).result, a + b)
  <2> DEFINE s == AddWithCarry(a, b, flags.c)
  <2>1. /\ s.result \in Word /\ s.carry \in BOOLEAN /\ s.overflow \in BOOLEAN
        /\ a + b + Number(flags.c) = s.result + Number(s.carry) * Modulus
    BY <1>1, SumExact
  <2>2. flags' \in Flags /\ flags'.c = s.carry
    BY <1>3, <2>1, ArithmeticTyped
  <2>3. a + b \in Int /\ (a + b) + Number(flags.c) = s.result + Number(flags'.c) * Modulus
    BY <1>1, <2>1, <2>2
  <2> QED BY <1>1, <1>3, <2>1, <2>2, <2>3, ContinuesExact
<1>4. CASE /\ ArithmeticFlags(AddWithCarry(a, Complement(b), flags.c))
           /\ Continues("sub", AddWithCarry(a, Complement(b), flags.c).result, a - b)
  <2> DEFINE s == AddWithCarry(a, Complement(b), flags.c)
  <2>1. /\ s.result \in Word /\ s.carry \in BOOLEAN /\ s.overflow \in BOOLEAN
        /\ a + Complement(b) + Number(flags.c) = s.result + Number(s.carry) * Modulus
    BY <1>1, SumExact
  <2>2. flags' \in Flags /\ flags'.c = s.carry
    BY <1>4, <2>1, ArithmeticTyped
  <2>3. a - b - Borrow(flags.c) = s.result - Borrow(s.carry) * Modulus
    <3>1. /\ Number(flags.c) = 1 - Borrow(flags.c) /\ Borrow(flags.c) \in {0, 1}
          /\ Number(s.carry) = 1 - Borrow(s.carry) /\ Borrow(s.carry) \in {0, 1}
      BY <1>1, <2>1 DEF Number, Borrow
    <3>2. \A d \in {0, 1} : (1 - d) * Modulus = Modulus - d * Modulus /\ d * Modulus \in Int
      BY WordAssumption DEF Modulus
    <3>3. Number(s.carry) * Modulus = Modulus - Borrow(s.carry) * Modulus
      BY <3>1, <3>2
    <3>4. a + Complement(b) = a - b + Modulus - 1 /\ s.result \in Int /\ Modulus \in Int
      BY <1>1, <2>1, WordAssumption DEF Complement, Modulus, Word
    <3> QED BY <1>1, <2>1, <3>1, <3>2, <3>3, <3>4
  <2>4. a - b \in Int
    BY <1>1
  <2> QED BY <1>1, <1>4, <2>1, <2>2, <2>3, <2>4, ContinuesExact
<1> QED BY <1>3, <1>4

LEMMA NextIInv == IInv /\ [Next]_vars => IInv'
<1> SUFFICES ASSUME IInv, [Next]_vars PROVE IInv'
  OBVIOUS
<1>1. TypeOK /\ ComparisonsHold /\ ChainsAreExact
  BY DEF IInv
<1>2. /\ \A r \in Registers : regs[r] \in Word
      /\ \A b \in Operands : b \in Word
      /\ 0 \in Word
  BY <1>1, OperandsTyped, WordAssumption DEF Word, Modulus
<1>3. CASE Add
  <2>1. PICK rd \in Registers, a \in {regs[r] : r \in Registers}, b \in Operands :
          LET s == AddWithCarry(a, b, FALSE)
          IN Sets(rd, s.result) /\ ArithmeticFlags(s) /\ Starts("add", s.result, a + b) /\ Forgets
    BY <1>3 DEF Add
  <2>2. a \in Word /\ b \in Word /\ AddWithCarry(a, b, FALSE).result \in Word
    BY <1>2, SumExact
  <2>3. regs' \in [Registers -> Word]
    BY <1>1, <2>1, <2>2, SetsTyped
  <2> QED BY <2>1, <2>2, <2>3, AddsStep
<1>4. CASE CompareNegative
  <2>1. PICK rn \in Registers, rm \in Registers :
          LET s == AddWithCarry(regs[rn], regs[rm], FALSE)
          IN /\ ArithmeticFlags(s) /\ Starts("add", s.result, regs[rn] + regs[rm])
             /\ Forgets /\ UNCHANGED regs
    BY <1>4 DEF CompareNegative
  <2>2. regs' \in [Registers -> Word]
    BY <1>1, <2>1 DEF TypeOK
  <2> QED BY <1>2, <2>1, <2>2, AddsStep
<1>5. CASE Adc
  <2>1. PICK rd \in Registers, rm \in Registers :
          LET s == AddWithCarry(regs[rd], regs[rm], flags.c)
          IN /\ Sets(rd, s.result) /\ ArithmeticFlags(s) /\ Forgets
             /\ Continues("add", s.result, regs[rd] + regs[rm])
    BY <1>5 DEF Adc
  <2>2. AddWithCarry(regs[rd], regs[rm], flags.c).result \in Word
    BY <1>1, <1>2, SumExact DEF TypeOK, Flags
  <2>3. regs' \in [Registers -> Word]
    BY <1>1, <2>1, <2>2, SetsTyped
  <2> QED BY <1>2, <2>1, <2>3, CarriesStep
<1>6. CASE Sbc
  <2>1. PICK rd \in Registers, rm \in Registers :
          LET s == AddWithCarry(regs[rd], Complement(regs[rm]), flags.c)
          IN /\ Sets(rd, s.result) /\ ArithmeticFlags(s) /\ Forgets
             /\ Continues("sub", s.result, regs[rd] - regs[rm])
    BY <1>6 DEF Sbc
  <2>2. AddWithCarry(regs[rd], Complement(regs[rm]), flags.c).result \in Word
    BY <1>1, <1>2, SumExact, ComplementIsWord DEF TypeOK, Flags
  <2>3. regs' \in [Registers -> Word]
    BY <1>1, <2>1, <2>2, SetsTyped
  <2> QED BY <1>2, <2>1, <2>3, CarriesStep
<1>7. CASE Subtract
  <2>1. PICK rd \in Registers, a \in {regs[r] : r \in Registers}, b \in Operands :
          Compares(a, b) /\ Sets(rd, Difference(a, b).result)
    BY <1>7 DEF Subtract
  <2>2. a \in Word /\ b \in Word /\ Difference(a, b).result \in Word
    BY <1>2, DifferenceCompares
  <2>3. regs' \in [Registers -> Word]
    BY <1>1, <2>1, <2>2, SetsTyped
  <2> QED BY <2>1, <2>2, <2>3, ComparesStep
<1>8. CASE Compare
  <2>1. PICK a \in {regs[r] : r \in Registers}, b \in Operands :
          Compares(a, b) /\ UNCHANGED regs
    BY <1>8 DEF Compare
  <2>2. a \in Word /\ b \in Word
    BY <1>2
  <2>3. regs' \in [Registers -> Word]
    BY <1>1, <2>1 DEF TypeOK
  <2> QED BY <2>1, <2>2, <2>3, ComparesStep
<1>9. CASE Negate
  <2>1. PICK rd \in Registers, rn \in Registers :
          LET s == AddWithCarry(Complement(regs[rn]), 0, TRUE)
          IN /\ Sets(rd, s.result) /\ ArithmeticFlags(s)
             /\ compared' = [valid |-> TRUE, a |-> 0, b |-> regs[rn]]
             /\ Starts("sub", s.result, 0 - regs[rn])
    BY <1>9 DEF Negate
  <2>2. AddWithCarry(Complement(regs[rn]), 0, TRUE) = Difference(0, regs[rn])
    BY <1>2, NegationIsDifference
  <2>3. Compares(0, regs[rn]) /\ Difference(0, regs[rn]).result \in Word
    BY <1>2, <2>1, <2>2, DifferenceCompares DEF Compares
  <2>4. regs' \in [Registers -> Word]
    BY <1>1, <2>1, <2>2, <2>3, SetsTyped
  <2> QED BY <1>2, <2>3, <2>4, ComparesStep
<1>10. CASE Logical
  <2>1. PICK rd \in Registers, value \in Word :
          (Sets(rd, value) \/ UNCHANGED regs) /\ NegZero(value) /\ Forgets /\ UNCHANGED chain
    BY <1>10 DEF Logical
  <2>2. regs' \in [Registers -> Word]
    BY <1>1, <2>1, SetsTyped DEF TypeOK
  <2>3. flags' \in Flags /\ flags'.c = flags.c
    <3>1. SignBit(value) \in BOOLEAN /\ (value = 0) \in BOOLEAN /\ flags \in Flags
      BY <1>1 DEF SignBit, TypeOK
    <3>2. flags' = [flags EXCEPT !.n = SignBit(value), !.z = (value = 0)]
      BY <2>1 DEF NegZero
    <3> QED BY <3>1, <3>2, FlagsTyped, Zenon
  <2>4. ChainsAreExact'
    BY <1>1, <2>1, <2>3 DEF ChainsAreExact
  <2> QED BY <1>1, <2>1, <2>2, <2>3, <2>4, ForgetsTyped DEF IInv, TypeOK
<1>11. CASE Shift
  <2>1. PICK rd \in Registers, rm \in Registers,
             n \in 0..WordSize \cup {regs[r] % 256 : r \in Registers} :
          \E s \in {Lsl(regs[rm], n, flags.c), Lsr(regs[rm], n, flags.c),
                   Asr(regs[rm], n, flags.c)} \cup Ror(regs[rm], n, flags.c) :
            /\ Sets(rd, s.result)
            /\ flags' = [flags EXCEPT !.n = SignBit(s.result), !.z = (s.result = 0), !.c = s.carry]
            /\ Forgets /\ chain' = NoChain
    BY <1>11 DEF Shift
  <2>2. PICK s \in {Lsl(regs[rm], n, flags.c), Lsr(regs[rm], n, flags.c),
                   Asr(regs[rm], n, flags.c)} \cup Ror(regs[rm], n, flags.c) :
            /\ Sets(rd, s.result)
            /\ flags' = [flags EXCEPT !.n = SignBit(s.result), !.z = (s.result = 0), !.c = s.carry]
            /\ Forgets /\ chain' = NoChain
    BY <2>1
  <2>3. n \in Nat
    BY <1>2, ShiftAssumption, WordAssumption DEF Word, Modulus
  <2>4. s.result \in Word /\ s.carry \in BOOLEAN
    BY <1>1, <1>2, <2>3, ShiftTyped DEF TypeOK, Flags
  <2>5. regs' \in [Registers -> Word]
    BY <1>1, <2>2, <2>4, SetsTyped
  <2>6. flags' \in Flags
    <3>1. SignBit(s.result) \in BOOLEAN /\ (s.result = 0) \in BOOLEAN /\ flags \in Flags
      BY <1>1 DEF SignBit, TypeOK
    <3> QED BY <2>2, <2>4, <3>1, FlagsTyped, Zenon
  <2> QED BY <2>2, <2>5, <2>6, NoChainExact, ForgetsTyped DEF IInv, TypeOK
<1>12. CASE Transfer
  <2>1. PICK rd \in Registers, value \in Word :
          Sets(rd, value) /\ UNCHANGED <<flags, compared, chain>>
    BY <1>12 DEF Transfer
  <2>2. regs' \in [Registers -> Word]
    BY <1>1, <2>1, SetsTyped
  <2>3. ComparisonsHold' /\ ChainsAreExact'
    BY <1>1, <2>1 DEF ComparisonsHold, ChainsAreExact, Condition
  <2> QED BY <1>1, <2>1, <2>2, <2>3 DEF IInv, TypeOK
<1>13. CASE WriteFlags
  BY <1>1, <1>13, NoChainExact, ForgetsTyped DEF WriteFlags, IInv, TypeOK
<1>14. CASE UNCHANGED vars
  BY <1>1, <1>14 DEF vars, IInv, TypeOK, ComparisonsHold, ChainsAreExact, Condition
<1> QED BY <1>3, <1>4, <1>5, <1>6, <1>7, <1>8, <1>9, <1>10, <1>11, <1>12, <1>13, <1>14 DEF Next

\* Registers, flags and histories keep their types, whatever the program.
THEOREM AluTypeCorrect == Spec => []TypeOK
<1>1. IInv => TypeOK
  BY DEF IInv
<1> QED BY InitIInv, NextIInv, <1>1, PTL DEF Spec

\* For words of every size: after a subtraction or a comparison, and whatever
\* runs before the flags are written again, the conditions of the branches
\* compare its operands (apsr_reg.hpp:70-158, alu.hpp:156-187).
THEOREM ConditionsCompare == Spec => []ComparisonsHold
<1>1. IInv => ComparisonsHold
  BY DEF IInv
<1> QED BY InitIInv, NextIInv, <1>1, PTL DEF Spec

\* For words of every size and chains of every length: ADCS and SBCS carry on
\* sums and differences without losing anything.
THEOREM ChainsCorrect == Spec => []ChainsAreExact
<1>1. IInv => ChainsAreExact
  BY DEF IInv
<1> QED BY InitIInv, NextIInv, <1>1, PTL DEF Spec

\* For words of every size and every count that a register holds: LSLS, LSRS and
\* ASRS multiply and divide by powers of two, RORS rotates, and C is the last bit
\* shifted out (binops.hpp).
THEOREM ShiftsCorrect == Spec => []ShiftsAreArithmetic
<1>1. TypeOK => ShiftsAreArithmetic
  <2> SUFFICES ASSUME TypeOK, NEW r \in Registers, NEW n \in 0..(Modulus - 1)
               PROVE  LET v         == regs[r]
                          carry(w)  == IF n = 0 THEN flags.c ELSE w % 2 = 1
                          s(result, w) == [result |-> result % Modulus, carry |-> carry(w)]
                      IN /\ Lsl(v, n, flags.c) = s(v * 2^n, (v * 2^n) \div Modulus)
                         /\ Lsr(v, n, flags.c) = s(v \div 2^n, (2 * v) \div 2^n)
                         /\ Asr(v, n, flags.c) = s(Signed(v) \div 2^n, (2 * Signed(v)) \div 2^n)
                         /\ n \in 1..(WordSize - 1) => \A rotated \in Ror(v, n, flags.c) :
                              /\ v = ((rotated.result * 2^n) % Modulus)
                                     + rotated.result \div 2^(WordSize - n)
                              /\ rotated.carry = SignBit(rotated.result)
    BY DEF ShiftsAreArithmetic
  <2> DEFINE v == regs[r]
             c == flags.c
             P == 2^n
             Is(s, x, w) ==
               s = [result |-> x % Modulus, carry |-> IF n = 0 THEN c ELSE w % 2 = 1]
  <2>1. v \in Word /\ c \in BOOLEAN
    BY DEF TypeOK, Flags
  <2>2. /\ v \in Int /\ Signed(v) \in Int /\ Modulus \in Nat \ {0} /\ WordSize \in Nat \ {0}
        /\ n \in Nat /\ n < Modulus
    BY <2>1, WordAssumption, ShiftAssumption DEF Word, Signed, Modulus
  <2>3. P \in Nat \ {0}
    <3>1. n \in 0..(Modulus + WordSize)
      BY <2>2
    <3> QED BY <3>1, Powers DEF Power
  <2> HIDE DEF v, c, P
  <2>4. Is(Lsl(v, n, c), v * P, (v * P) \div Modulus)
    <3> DEFINE x == v * P
               w == x \div Modulus
    <3>1. x \in Int
      BY <2>2, <2>3
    <3>2. Lsl(v, n, c).result = x % Modulus /\ (n # 0 => (Lsl(v, n, c).carry <=> w % 2 = 1))
      BY <2>1, LslExact DEF P
    <3> HIDE DEF x
    <3>3. w \in Int
      BY <2>2, <3>1, Quotient
    <3> HIDE DEF w
    <3>4. Is(Lsl(v, n, c), x, w)
      BY <2>1, <3>1, <3>2, <3>3, ShiftIsArithmetic
    <3> QED BY <3>4 DEF x, w
  <2>5. Is(Lsr(v, n, c), v \div P, (2 * v) \div P)
    <3>1. v \div P \in Int /\ (2 * v) \div P \in Int
      BY <2>2, <2>3
    <3>2. /\ Lsr(v, n, c).result = (v \div P) % Modulus
          /\ n # 0 => (Lsr(v, n, c).carry <=> ((2 * v) \div P) % 2 = 1)
      BY <2>1, LsrExact DEF P
    <3> QED BY <2>1, <3>1, <3>2, ShiftIsArithmetic
  <2>6. Is(Asr(v, n, c), Signed(v) \div P, (2 * Signed(v)) \div P)
    <3>1. Signed(v) \div P \in Int /\ (2 * Signed(v)) \div P \in Int
      BY <2>2, <2>3
    <3>2. Asr(v, n, c).result = (Signed(v) \div P) % Modulus
      BY <2>1, AsrResult DEF P
    <3>3. n # 0 => (Asr(v, n, c).carry <=> ((2 * Signed(v)) \div P) % 2 = 1)
      <4>1. n # 0 => n \in 1..(Modulus - 1)
        BY <2>2
      <4> QED BY <2>1, <4>1, AsrCarry DEF P
    <3> QED BY <2>1, <3>1, <3>2, <3>3, ShiftIsArithmetic
  <2>7. ASSUME n \in 1..(WordSize - 1), NEW rotated \in Ror(v, n, c)
        PROVE  /\ v = ((rotated.result * P) % Modulus) + rotated.result \div 2^(WordSize - n)
               /\ rotated.carry = SignBit(rotated.result)
    <3>1. /\ v = ((rotated.result * P) % Modulus) + rotated.result \div 2^(WordSize - n)
          /\ rotated.carry <=> SignBit(rotated.result)
      BY <2>1, <2>7, RorExact DEF P
    <3>2. rotated.carry \in BOOLEAN
      BY <2>1, <2>2, <2>7, ShiftTyped
    <3>3. SignBit(rotated.result) \in BOOLEAN
      BY DEF SignBit
    <3> QED BY <3>1, <3>2, <3>3, Zenon
  <2> QED BY <2>4, <2>5, <2>6, <2>7 DEF v, c, P
<1> QED BY AluTypeCorrect, <1>1, PTL
=============================================================================
