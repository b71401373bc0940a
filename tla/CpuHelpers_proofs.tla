--------------------------- MODULE CpuHelpers_proofs ---------------------------
(***************************************************************************)
(* Theorems about the x86 helpers (CpuHelpers): they implement the         *)
(* processor (Cpu), for every size of words and digits, every base of the  *)
(* decimals, every program and every operand.                              *)
(*                                                                         *)
(* For each action there is a lemma, named for it (ArithmeticStep, ...):   *)
(* the action keeps the invariant CpuInv and is a step of the processor.   *)
(* Before it come the facts about numbers and loops that it needs.         *)
(***************************************************************************)
EXTENDS CpuHelpers, TLAPS, WellFoundedInduction, FiniteSetTheorems

-------------------------------------------------------------------------------
(* Powers of two, words, their upper and lower halves, and digits.           *)

LEMMA PowerZero == 2^0 = 1
  OBVIOUS

\* Induction over a set of numbers.
LEMMA Induction ==
  ASSUME NEW S, 0 \in S, \A n \in Nat : n \in S => n + 1 \in S
  PROVE  Nat \subseteq S
<1> DEFINE R == {ss \in Nat \X Nat : ss[1] < ss[2]}
           T == Nat \ S
<1>0. OpToRel(<, Nat) = R
  BY DEF OpToRel
<1>1. IsWellFoundedOn(R, Nat)
  BY NatLessThanWellFounded, <1>0
<1> SUFFICES ASSUME T # {} PROVE FALSE
  OBVIOUS
<1> HIDE DEF R
<1>2. PICK m \in T : \A y \in T : <<y, m>> \notin R
  BY <1>1, WFMin
<1>3. m - 1 \in T /\ m - 1 < m /\ m \in Nat /\ m - 1 \in Nat
  OBVIOUS
<1>4. <<m - 1, m>> \in R
  BY <1>3 DEF R
<1>5. QED BY <1>2, <1>3, <1>4

LEMMA Powers ==
  \A n \in 0..W : 2^n \in Nat \ {0}
<1> DEFINE S == {n \in Nat : n <= W => 2^n \in Nat \ {0}}
<1>1. 0 \in S
  BY PowerZero
<1>2. ASSUME NEW n \in Nat, n \in S PROVE n + 1 \in S
  BY <1>2, PowersOfTwo, WordAssumption
<1>3. Nat \subseteq S
  BY ONLY <1>1, <1>2, Induction
<1>4. QED BY <1>3, WordAssumption

LEMMA PowerSum ==
  ASSUME NEW m \in Nat, NEW n \in Nat, m + n <= W
  PROVE  2^(m + n) = 2^m * 2^n
<1> DEFINE S == {k \in Nat : m + k <= W => 2^(m + k) = 2^m * 2^k}
<1>1. 0 \in S
  BY PowerZero, Powers, WordAssumption
<1>2. ASSUME NEW k \in Nat, k \in S PROVE k + 1 \in S
  <2> SUFFICES ASSUME m + (k + 1) <= W PROVE 2^(m + (k + 1)) = 2^m * 2^(k + 1)
    OBVIOUS
  <2>1. 2^(m + k) = 2^m * 2^k
    BY <1>2, WordAssumption
  <2>2. 2^((m + k) + 1) = 2 * 2^(m + k)
    BY PowersOfTwo, WordAssumption
  <2>3. 2^(k + 1) = 2 * 2^k /\ 2^k \in Nat /\ 2^m \in Nat
    BY PowersOfTwo, WordAssumption
  <2>4. 2^m * (2 * 2^k) = 2 * (2^m * 2^k)
    BY <2>3
  <2>5. m + (k + 1) = (m + k) + 1
    OBVIOUS
  <2>6. QED BY <2>1, <2>2, <2>3, <2>4, <2>5
<1>3. Nat \subseteq S
  BY ONLY <1>1, <1>2, Induction
<1>4. QED BY <1>3, WordAssumption

\* A word, and its half, as numbers.
N == 2^W
H == 2^(W - 1)

LEMMA WordSize == /\ H \in Nat \ {0} /\ N = 2 * H /\ N \in Nat /\ W \in Nat /\ W >= 2 /\ Word = 0..(N - 1)
  BY PowersOfTwo, Powers, WordAssumption DEF Word, N, H

LEMMA WrapN == \A x : Wrap(x) = x % N
  BY DEF Wrap, N

LEMMA SignedN == \A x : Signed(x) = IF x >= H THEN x - N ELSE x
  BY DEF Signed, N, H

\* A number and its remainder, as linear facts.
LEMMA Remainder ==
  ASSUME NEW q \in Int, NEW r \in 0..(N - 1)
  PROVE  (q * N + r) % N = r /\ (q * N + r) \div N = q
  BY WordSize

LEMMA WrapUnique ==
  ASSUME NEW x \in Int, NEW q \in Int, x - q * N \in Word
  PROVE  Wrap(x) = x - q * N
<1>1. x = q * N + (x - q * N)
  BY WordSize
<1>2. QED BY <1>1, Remainder, WrapN, WordSize

LEMMA WrapCases ==
  ASSUME NEW x \in Int
  PROVE  /\ Wrap(x) \in Word
         /\ x \in 0..(N - 1) => Wrap(x) = x
         /\ x \in N..(2 * N - 1) => Wrap(x) = x - N
         /\ x \in (-N)..(-1) => Wrap(x) = x + N
<1>1. Wrap(x) \in Word
  BY WrapN, WordSize
<1>2. ASSUME x \in 0..(N - 1) PROVE Wrap(x) = x
  <2>1. x - 0 * N = x /\ x \in Word
    BY <1>2, WordSize
  <2>2. Wrap(x) = x - 0 * N
    BY <2>1, WrapUnique
  <2>3. QED BY <2>1, <2>2
<1>3. ASSUME x \in N..(2 * N - 1) PROVE Wrap(x) = x - N
  <2>1. x - 1 * N = x - N /\ x - N \in Word
    BY <1>3, WordSize
  <2>2. Wrap(x) = x - 1 * N
    BY <2>1, WrapUnique
  <2>3. QED BY <2>1, <2>2
<1>4. ASSUME x \in (-N)..(-1) PROVE Wrap(x) = x + N
  <2>1. x - (-1) * N = x + N /\ x + N \in Word
    BY <1>4, WordSize
  <2>2. Wrap(x) = x - (-1) * N
    BY <2>1, WrapUnique
  <2>3. QED BY <2>1, <2>2
<1>5. QED BY <1>1, <1>2, <1>3, <1>4

LEMMA MsbN ==
  ASSUME NEW x \in Word
  PROVE  Msb(x) = (IF x >= H THEN 1 ELSE 0)
<1>1. Msb(x) = (x \div H) % 2
  BY DEF Msb, Bit, H
<1>2. CASE x >= H
  <2>1. x = H * 1 + (x - H) /\ x - H \in 0..(H - 1) /\ x \in Int
    BY <1>2, WordSize
  <2>2. x \div H = 1
    BY <2>1, WordSize
  <2>3. QED BY <1>1, <1>2, <2>2
<1>3. CASE x < H
  <2>1. x = H * 0 + x /\ x \in 0..(H - 1)
    BY <1>3, WordSize
  <2>2. x \div H = 0
    BY <2>1, WordSize
  <2>3. QED BY <1>1, <1>3, <2>2, WordSize
<1>4. QED BY <1>2, <1>3, WordSize

\* Sums and differences of words.
CarryOf(x, y, c) == IF x + y + c >= N THEN 1 ELSE 0
BorrowOf(x, y, c) == IF x < y + c THEN 1 ELSE 0

LEMMA Sums ==
  ASSUME NEW x \in Word, NEW y \in Word, NEW c \in {0, 1}
  PROVE  /\ Wrap(x + y + c) = x + y + c - N * CarryOf(x, y, c)
         /\ Wrap(x - y - c) = x - y - c + N * BorrowOf(x, y, c)
  BY WrapCases, WordSize DEF CarryOf, BorrowOf

\* A digit as a number.
D == 2^Digit

LEMMA DigitSize ==
  D \in Nat \ {0} /\ D >= 2
<1>1. (Digit - 1) + 1 = Digit /\ Digit - 1 \in 0..W
  BY WordAssumption
<1>2. D = 2 * 2^(Digit - 1) /\ 2^(Digit - 1) \in Nat \ {0}
  BY <1>1, PowersOfTwo, Powers DEF D
<1>3. QED BY <1>2

LEMMA WordOfDigits ==
  \E K \in Nat : N = D * (2 * K)
<1>1. Digit + (W - Digit) = W /\ Digit \in Nat /\ W - Digit \in Nat /\ (W - Digit - 1) + 1 = W - Digit
      /\ W - Digit - 1 \in 0..W /\ Digit \in 0..W
  BY WordAssumption
<1>2. N = D * 2^(W - Digit)
  BY <1>1, PowerSum DEF N, D
<1>3. 2^(W - Digit) = 2 * 2^(W - Digit - 1) /\ 2^(W - Digit - 1) \in Nat
  BY <1>1, PowersOfTwo
<1>4. QED BY <1>2, <1>3

\* Quotient and remainder are unique.
LEMMA Division ==
  ASSUME NEW n \in Nat, n > 0, NEW q \in Int, NEW r \in 0..(n - 1), NEW x \in Int, x = n * q + r
  PROVE  x \div n = q /\ (x % n) = r
  OBVIOUS

LEMMA DivisionOf ==
  ASSUME NEW n \in Nat, n > 0, NEW x \in Int
  PROVE  x \div n \in Int /\ (x % n) \in 0..(n - 1) /\ x = n * (x \div n) + (x % n)
  OBVIOUS

\* With d as the value of a digit, sums and differences in multiples of d.
LEMMA SumOfDigits ==
  ASSUME NEW d \in Int, NEW a \in Int, NEW b \in Int, NEW h \in Int, NEW k \in Int, NEW n \in Int,
         NEW a0 \in Int, NEW b0 \in Int, NEW c \in Int, n = d * (2 * k), NEW z \in {0, 1}
  PROVE  (d * a + a0) + (d * b + b0) + c - n * z = d * (a + b + h - 2 * (k * z)) + (a0 + b0 + c - d * h)
  OBVIOUS

LEMMA DifferenceOfDigits ==
  ASSUME NEW d \in Int, NEW a \in Int, NEW b \in Int, NEW h \in Int, NEW k \in Int, NEW n \in Int,
         NEW a0 \in Int, NEW b0 \in Int, NEW c \in Int, n = d * (2 * k), NEW z \in {0, 1}
  PROVE  (d * a + a0) - (d * b + b0) - c + n * z = d * (a + b + h - 2 * (b + h - k * z)) + (a0 - b0 - c + d * h)
  OBVIOUS

LEMMA Digits ==
  ASSUME NEW x \in Int
  PROVE  /\ LowDigit(x) = (x % D) /\ (x % D) \in 0..(D - 1)
         /\ x \div D \in Int /\ x = D * (x \div D) + (x % D)
         /\ Bit(x, Digit) = (x \div D) % 2
<1>1. LowDigit(x) = (x % D)
  BY DEF LowDigit, D
<1>2. Bit(x, Digit) = (x \div D) % 2
  BY DEF Bit, D
<1>3. (x % D) \in 0..(D - 1) /\ x \div D \in Int /\ x = D * (x \div D) + (x % D)
  BY DigitSize, DivisionOf
<1>4. QED BY <1>1, <1>2, <1>3

LEMMA DivideDigit ==
  ASSUME NEW q \in Int, NEW r \in 0..(D - 1)
  PROVE  (D * q + r) \div D = q /\ (D * q + r) % D = r
<1>1. D * q + r \in Int
  BY DigitSize
<1>2. QED BY <1>1, DigitSize, Division

\* The carry out of the low digit, and the borrow.
HalfCarry(x, y, c) == IF (x % D) + (y % D) + c >= D THEN 1 ELSE 0
HalfBorrow(x, y, c) == IF (x % D) < (y % D) + c THEN 1 ELSE 0

\* A number that differs from the sum of two others by h digits, k words and what does not
\* make a digit.
LEMMA AdjustIsHalf ==
  ASSUME NEW x \in Int, NEW y \in Int, NEW r \in Int, NEW h \in {0, 1}, NEW k \in Int,
         r \div D = (x \div D) + (y \div D) + h - 2 * k
  PROVE  adjust(r, x, y) = If(h = 1, "A") /\ adjust(r, y, x) = If(h = 1, "A")
<1>1. PICK X \in Int : X = x \div D
  BY Digits
<1>2. PICK Y \in Int : Y = y \div D
  BY Digits
<1>3. Bit(r, Digit) = (X + Y + h - 2 * k) % 2 /\ Bit(x, Digit) = X % 2 /\ Bit(y, Digit) = Y % 2
  BY <1>1, <1>2, Digits
<1>4. (((X + Y + h - 2 * k) % 2) + (Y % 2) + (X % 2)) % 2 = h
  OBVIOUS
<1>5. (((X + Y + h - 2 * k) % 2) + (X % 2) + (Y % 2)) % 2 = h
  OBVIOUS
<1>6. QED BY <1>3, <1>4, <1>5 DEF adjust, If

\* Bit four of the exclusive or is the carry out of the low digit.
LEMMA AdjustSum ==
  ASSUME NEW x \in Word, NEW y \in Word, NEW c \in {0, 1}
  PROVE  adjust(Wrap(x + y + c), y, x) = If(HalfCarry(x, y, c) = 1, "A")
<1>1. x \in Int /\ y \in Int /\ c \in Int
  BY WordSize
<1>2. PICK h \in {0, 1} : h = HalfCarry(x, y, c)
  BY DEF HalfCarry
<1>3. PICK K \in Nat : N = D * (2 * K)
  BY WordOfDigits
<1>4. PICK z \in {0, 1} : z = CarryOf(x, y, c)
  BY DEF CarryOf
<1>a. PICK X \in Int : X = x \div D
  BY <1>1, Digits
<1>b. PICK Y \in Int : Y = y \div D
  BY <1>1, Digits
<1>c. PICK x0 \in 0..(D - 1) : x0 = (x % D)
  BY <1>1, Digits
<1>d. PICK y0 \in 0..(D - 1) : y0 = (y % D)
  BY <1>1, Digits
<1>5. /\ X = x \div D /\ Y = y \div D /\ x0 = (x % D) /\ y0 = (y % D)
      /\ x = D * X + x0 /\ y = D * Y + y0
  BY <1>1, <1>a, <1>b, <1>c, <1>d, Digits
<1>6. x0 + y0 + c - D * h \in 0..(D - 1)
  BY <1>1, <1>2, <1>5, DigitSize DEF HalfCarry
<1>7. N * z = D * (2 * (K * z)) /\ K * z \in Int
  BY <1>3, DigitSize
<1>8. Wrap(x + y + c) = x + y + c - N * z
  BY <1>4, Sums
<1>9. Wrap(x + y + c) = D * (X + Y + h - 2 * (K * z)) + (x0 + y0 + c - D * h)
  <2>1. D \in Int /\ N \in Int /\ K \in Int /\ h \in Int /\ x0 \in Int /\ y0 \in Int
    BY DigitSize, WordSize
  <2>2. (D * X + x0) + (D * Y + y0) + c - N * z = D * (X + Y + h - 2 * (K * z)) + (x0 + y0 + c - D * h)
    BY ONLY <1>1, <1>3, <2>1, SumOfDigits, z \in {0, 1}, X \in Int, Y \in Int
  <2>3. QED BY <1>5, <1>8, <2>2
<1>10. Wrap(x + y + c) \in Int
  BY <1>1, WrapCases, WordSize
<1>11. PICK k \in Int : k = K * z
  BY <1>7, <1>10
<1>12. PICK l \in 0..(D - 1) : l = x0 + y0 + c - D * h
  BY <1>6
<1>13. PICK r \in Int : r = Wrap(x + y + c)
  BY <1>10
<1>14. r \div D = (x \div D) + (y \div D) + h - 2 * k
  <2>1. PICK q \in Int : q = X + Y + h - 2 * k
    OBVIOUS
  <2>2. r = D * q + l
    BY <1>9, <1>11, <1>12, <1>13, <2>1
  <2>3. r \div D = q
    BY <2>2, DivideDigit
  <2>4. QED BY <1>5, <2>1, <2>3
<1>15. adjust(r, x, y) = If(h = 1, "A") /\ adjust(r, y, x) = If(h = 1, "A")
  BY <1>1, <1>14, AdjustIsHalf
<1>16. QED BY <1>2, <1>13, <1>15

LEMMA AdjustDifference ==
  ASSUME NEW x \in Word, NEW y \in Word, NEW c \in {0, 1}
  PROVE  adjust(Wrap(x - y - c), x, y) = If(HalfBorrow(x, y, c) = 1, "A")
<1>1. x \in Int /\ y \in Int /\ c \in Int
  BY WordSize
<1>2. PICK h \in {0, 1} : h = HalfBorrow(x, y, c)
  BY DEF HalfBorrow
<1>3. PICK K \in Nat : N = D * (2 * K)
  BY WordOfDigits
<1>4. PICK z \in {0, 1} : z = BorrowOf(x, y, c)
  BY DEF BorrowOf
<1>a. PICK X \in Int : X = x \div D
  BY <1>1, Digits
<1>b. PICK Y \in Int : Y = y \div D
  BY <1>1, Digits
<1>c. PICK x0 \in 0..(D - 1) : x0 = (x % D)
  BY <1>1, Digits
<1>d. PICK y0 \in 0..(D - 1) : y0 = (y % D)
  BY <1>1, Digits
<1>5. /\ X = x \div D /\ Y = y \div D /\ x0 = (x % D) /\ y0 = (y % D)
      /\ x = D * X + x0 /\ y = D * Y + y0
  BY <1>1, <1>a, <1>b, <1>c, <1>d, Digits
<1>6. x0 - y0 - c + D * h \in 0..(D - 1)
  BY <1>1, <1>2, <1>5, DigitSize DEF HalfBorrow
<1>7. N * z = D * (2 * (K * z)) /\ K * z \in Int
  BY <1>3, DigitSize
<1>8. Wrap(x - y - c) = x - y - c + N * z
  BY <1>4, Sums
<1>9. Wrap(x - y - c) = D * (X + Y + h - 2 * (Y + h - K * z)) + (x0 - y0 - c + D * h)
  <2>1. D \in Int /\ N \in Int /\ K \in Int /\ h \in Int /\ x0 \in Int /\ y0 \in Int
    BY DigitSize, WordSize
  <2>2. (D * X + x0) - (D * Y + y0) - c + N * z = D * (X + Y + h - 2 * (Y + h - K * z)) + (x0 - y0 - c + D * h)
    BY ONLY <1>1, <1>3, <2>1, DifferenceOfDigits, z \in {0, 1}, X \in Int, Y \in Int
  <2>3. QED BY <1>5, <1>8, <2>2
<1>10. Wrap(x - y - c) \in Int /\ Y + h - K * z \in Int
  BY <1>1, <1>7, WrapCases, WordSize
<1>11. PICK k \in Int : k = Y + h - K * z
  BY <1>7, <1>10
<1>12. PICK l \in 0..(D - 1) : l = x0 - y0 - c + D * h
  BY <1>6
<1>13. PICK r \in Int : r = Wrap(x - y - c)
  BY <1>10
<1>14. r \div D = (x \div D) + (y \div D) + h - 2 * k
  <2>1. PICK q \in Int : q = X + Y + h - 2 * k
    OBVIOUS
  <2>2. r = D * q + l
    BY <1>9, <1>11, <1>12, <1>13, <2>1
  <2>3. r \div D = q
    BY <2>2, DivideDigit
  <2>4. QED BY <1>5, <2>1, <2>3
<1>15. adjust(r, x, y) = If(h = 1, "A") /\ adjust(r, y, x) = If(h = 1, "A")
  BY <1>1, <1>14, AdjustIsHalf
<1>16. QED BY <1>2, <1>13, <1>15

\* A sum overflows if and only if the signs say so.
LEMMA OverflowSum ==
  ASSUME NEW x \in Word, NEW y \in Word, NEW c \in {0, 1}
  PROVE  overflowAdd(Wrap(x + y + c), x, y) = If(~Processor!Fits(Signed(x) + Signed(y) + c), "O")
         /\ overflowAdd(Wrap(x + y + c), y, x) = If(~Processor!Fits(Signed(x) + Signed(y) + c), "O")
<1>1. PICK r \in Word : r = Wrap(x + y + c)
  BY Sums, WrapCases, WordSize
<1>2. r = x + y + c - (IF x + y + c >= N THEN N ELSE 0)
  BY <1>1, WrapCases, WordSize
<1>3. Processor!Fits(Signed(x) + Signed(y) + c) <=> (Signed(x) + Signed(y) + c \in (-H)..(H - 1))
  BY DEF Processor!Fits, H
<1>4. (Msb(x) = Msb(y) /\ Msb(x) # Msb(r)) <=> ~Processor!Fits(Signed(x) + Signed(y) + c)
  <2>1. CASE x < H /\ y < H
    BY <1>2, <1>3, <2>1, MsbN, SignedN, WordSize
  <2>2. CASE x >= H /\ y >= H
    BY <1>2, <1>3, <2>2, MsbN, SignedN, WordSize
  <2>3. CASE x < H /\ y >= H
    BY <1>2, <1>3, <2>3, MsbN, SignedN, WordSize
  <2>4. CASE x >= H /\ y < H
    BY <1>2, <1>3, <2>4, MsbN, SignedN, WordSize
  <2>5. QED BY <2>1, <2>2, <2>3, <2>4, WordSize
<1>5. (Msb(y) = Msb(x) /\ Msb(y) # Msb(r)) <=> ~Processor!Fits(Signed(x) + Signed(y) + c)
  BY <1>4
<1>6. QED BY <1>1, <1>4, <1>5 DEF overflowAdd, If

LEMMA OverflowDifference ==
  ASSUME NEW x \in Word, NEW y \in Word, NEW c \in {0, 1}
  PROVE  overflowSub(Wrap(x - y - c), x, y) = If(~Processor!Fits(Signed(x) - Signed(y) - c), "O")
<1>1. PICK r \in Word : r = Wrap(x - y - c)
  BY Sums, WrapCases, WordSize
<1>2. r = x - y - c + (IF x < y + c THEN N ELSE 0)
  BY <1>1, WrapCases, WordSize
<1>3. Processor!Fits(Signed(x) - Signed(y) - c) <=> (Signed(x) - Signed(y) - c \in (-H)..(H - 1))
  BY DEF Processor!Fits, H
<1>4. (Msb(x) # Msb(y) /\ Msb(x) # Msb(r)) <=> ~Processor!Fits(Signed(x) - Signed(y) - c)
  <2>1. CASE x < H /\ y < H
    BY <1>2, <1>3, <2>1, MsbN, SignedN, WordSize
  <2>2. CASE x >= H /\ y >= H
    BY <1>2, <1>3, <2>2, MsbN, SignedN, WordSize
  <2>3. CASE x < H /\ y >= H
    BY <1>2, <1>3, <2>3, MsbN, SignedN, WordSize
  <2>4. CASE x >= H /\ y < H
    BY <1>2, <1>3, <2>4, MsbN, SignedN, WordSize
  <2>5. QED BY <2>1, <2>2, <2>3, <2>4, WordSize
<1>5. QED BY <1>1, <1>4 DEF overflowSub, If

LEMMA SameCardinality == \A S : Processor!Cardinality(S) = Cardinality(S)
  BY Zenon DEF Processor!Cardinality, Cardinality

LEMMA ParityOf ==
  ASSUME NEW x
  PROVE  parity(x) <=> Processor!EvenParity(x)
<1>1. {i \in 0..(2 * Digit - 1) : Bit(x, i) = 1} = Processor!OneBits(x) \cap 0..(2 * Digit - 1)
  BY WordAssumption DEF Bit, Processor!OneBits
<1>2. PICK S, T : S = {i \in 0..(2 * Digit - 1) : Bit(x, i) = 1} /\ T = Processor!OneBits(x) \cap 0..(2 * Digit - 1)
  OBVIOUS
<1>3. parity(x) <=> (Cardinality(S) % 2 = 0)
  BY <1>2, Zenon DEF parity
<1>4. Processor!EvenParity(x) <=> (Cardinality(T) % 2 = 0)
  BY <1>2, SameCardinality, Zenon DEF Processor!EvenParity
<1>5. QED BY <1>1, <1>2, <1>3, <1>4

LEMMA ResultFlags ==
  ASSUME NEW r \in Word
  PROVE  resultFlags(r) = Processor!OfResult(r)
<1>1. Processor!Signed(r) < 0 <=> Msb(r) = 1
  <2>1. Processor!Signed(r) = Signed(r)
    BY DEF Processor!Signed, Signed
  <2>2. QED BY <2>1, SignedN, MsbN, WordSize
<1>2. QED BY <1>1, ParityOf DEF resultFlags, Processor!OfResult, If

\* What both modules define alike.
LEMMA SameNames ==
  /\ \A x : Processor!Wrap(x) = Wrap(x) /\ Processor!Signed(x) = Signed(x) /\ Processor!LowDigit(x) = LowDigit(x)
  /\ \A condition, f : Processor!If(condition, f) = If(condition, f)
  /\ Processor!Word = Word /\ Processor!Flag = Flag
  BY DEF Processor!Wrap, Wrap, Processor!Signed, Signed, Processor!LowDigit, LowDigit, Processor!Word, Word,
         Processor!If, If, Processor!Flag, Flag

\* An effect of the processor as a record of named parts.
Effect(r, h, flags, undefined, f, d, c, i) ==
  [lo |-> r, hi |-> h, flags |-> flags, undefined |-> undefined, fault |-> f,
   decimal |-> d, control |-> c, image |-> i]

\* The flags of the system and DF together.
control == system \cup If(df = -1, "D")

LEMMA DoesIs ==
  \A r, flags : Processor!Does(r, flags) = Effect(r, hi, flags, {}, FALSE, None, control, image)
  BY DEF Processor!Does, Effect, Processor!None, None, control

LEMMA ExceptEffect ==
  ASSUME NEW r, NEW h, NEW flags, NEW undefined, NEW f, NEW d, NEW c, NEW i, NEW v
  PROVE  /\ [Effect(r, h, flags, undefined, f, d, c, i) EXCEPT !.hi = v] = Effect(r, v, flags, undefined, f, d, c, i)
         /\ [Effect(r, h, flags, undefined, f, d, c, i) EXCEPT !.flags = v] = Effect(r, h, v, undefined, f, d, c, i)
         /\ [Effect(r, h, flags, undefined, f, d, c, i) EXCEPT !.undefined = v] = Effect(r, h, flags, v, f, d, c, i)
         /\ [Effect(r, h, flags, undefined, f, d, c, i) EXCEPT !.fault = v] = Effect(r, h, flags, undefined, v, d, c, i)
         /\ [Effect(r, h, flags, undefined, f, d, c, i) EXCEPT !.decimal = v] = Effect(r, h, flags, undefined, f, v, c, i)
         /\ [Effect(r, h, flags, undefined, f, d, c, i) EXCEPT !.control = v] = Effect(r, h, flags, undefined, f, d, v, i)
         /\ [Effect(r, h, flags, undefined, f, d, c, i) EXCEPT !.image = v] = Effect(r, h, flags, undefined, f, d, c, v)
  BY DEF Effect

\* The flags of a sum and of a difference, from the operands.
SumFlags(x, y, c) ==
  resultFlags(Wrap(x + y + c)) \cup If(x + y + c >= N, "C") \cup If(HalfCarry(x, y, c) = 1, "A")
    \cup If(~Processor!Fits(Signed(x) + Signed(y) + c), "O")

DifferenceFlags(x, y, c) ==
  resultFlags(Wrap(x - y - c)) \cup If(x < y + c, "C") \cup If(HalfBorrow(x, y, c) = 1, "A")
    \cup If(~Processor!Fits(Signed(x) - Signed(y) - c), "O")

LEMMA FlagsOfSum ==
  ASSUME NEW x \in Word, NEW y \in Word, NEW c \in {0, 1}
  PROVE  Processor!Sum(x, y, c) =
           Effect(Wrap(x + y + c), hi, SumFlags(x, y, c), {}, FALSE, Operands("add", x, y, c), control, image)
<1>1. Wrap(x + y + c) \in Word
  BY WrapCases, WordSize
<1>2. If((x % D) + (y % D) + c >= D, "A") = If(HalfCarry(x, y, c) = 1, "A")
  BY DEF HalfCarry, If
<1>3. LowDigit(x) = (x % D) /\ LowDigit(y) = (y % D)
  BY DEF LowDigit, D
<1>4. Processor!OfResult(Wrap(x + y + c)) = resultFlags(Wrap(x + y + c))
  BY <1>1, ResultFlags
<1>5. Processor!If(x + y + c >= 2^W, "C") = If(x + y + c >= N, "C")
  BY SameNames DEF N
<1>6. Processor!If(Processor!LowDigit(x) + Processor!LowDigit(y) + c >= 2^Digit, "A") = If(HalfCarry(x, y, c) = 1, "A")
  BY <1>2, <1>3, SameNames DEF D
<1>7. Processor!If(~Processor!Fits(Processor!Signed(x) + Processor!Signed(y) + c), "O")
        = If(~Processor!Fits(Signed(x) + Signed(y) + c), "O")
  BY SameNames
<1>8. Processor!OfResult(Processor!Wrap(x + y + c)) \cup Processor!If(x + y + c >= 2^W, "C")
        \cup Processor!If(Processor!LowDigit(x) + Processor!LowDigit(y) + c >= 2^Digit, "A")
        \cup Processor!If(~Processor!Fits(Processor!Signed(x) + Processor!Signed(y) + c), "O")
        = SumFlags(x, y, c)
  BY <1>4, <1>5, <1>6, <1>7, SameNames DEF SumFlags
<1>9. Processor!Wrap(x + y + c) = Wrap(x + y + c)
  BY SameNames
<1>10. Processor!Sum(x, y, c) = [Processor!Does(Wrap(x + y + c), SumFlags(x, y, c))
                                  EXCEPT !.decimal = Operands("add", x, y, c)]
  BY <1>8, <1>9, Zenon DEF Processor!Sum, Processor!Operands, Operands
<1>11. Processor!Does(Wrap(x + y + c), SumFlags(x, y, c))
          = Effect(Wrap(x + y + c), hi, SumFlags(x, y, c), {}, FALSE, None, control, image)
  BY DoesIs
<1>12. PICK r, f, d, c1 : r = Wrap(x + y + c) /\ f = SumFlags(x, y, c) /\ d = Operands("add", x, y, c) /\ c1 = control
  OBVIOUS
<1>13. Processor!Sum(x, y, c) = [Effect(r, hi, f, {}, FALSE, None, c1, image) EXCEPT !.decimal = d]
  BY <1>10, <1>11, <1>12, Zenon
<1>14. QED BY <1>12, <1>13 DEF Effect

LEMMA FlagsOfDifference ==
  ASSUME NEW x \in Word, NEW y \in Word, NEW c \in {0, 1}
  PROVE  Processor!Difference(x, y, c) =
           Effect(Wrap(x - y - c), hi, DifferenceFlags(x, y, c), {}, FALSE, Operands("sub", x, y, c), control, image)
<1>1. Wrap(x - y - c) \in Word
  BY WrapCases, WordSize
<1>2. If((x % D) < (y % D) + c, "A") = If(HalfBorrow(x, y, c) = 1, "A")
  BY DEF HalfBorrow, If
<1>3. LowDigit(x) = (x % D) /\ LowDigit(y) = (y % D)
  BY DEF LowDigit, D
<1>4. Processor!OfResult(Wrap(x - y - c)) = resultFlags(Wrap(x - y - c))
  BY <1>1, ResultFlags
<1>5. Processor!If(x < y + c, "C") = If(x < y + c, "C")
  BY SameNames DEF N
<1>6. Processor!If(Processor!LowDigit(x) < Processor!LowDigit(y) + c, "A") = If(HalfBorrow(x, y, c) = 1, "A")
  BY <1>2, <1>3, SameNames DEF D
<1>7. Processor!If(~Processor!Fits(Processor!Signed(x) - Processor!Signed(y) - c), "O")
        = If(~Processor!Fits(Signed(x) - Signed(y) - c), "O")
  BY SameNames
<1>8. Processor!OfResult(Processor!Wrap(x - y - c)) \cup Processor!If(x < y + c, "C")
        \cup Processor!If(Processor!LowDigit(x) < Processor!LowDigit(y) + c, "A")
        \cup Processor!If(~Processor!Fits(Processor!Signed(x) - Processor!Signed(y) - c), "O")
        = DifferenceFlags(x, y, c)
  BY <1>4, <1>5, <1>6, <1>7, SameNames DEF DifferenceFlags
<1>9. Processor!Wrap(x - y - c) = Wrap(x - y - c)
  BY SameNames
<1>10. Processor!Difference(x, y, c) = [Processor!Does(Wrap(x - y - c), DifferenceFlags(x, y, c))
                                  EXCEPT !.decimal = Operands("sub", x, y, c)]
  BY <1>8, <1>9, Zenon DEF Processor!Difference, Processor!Operands, Operands
<1>11. Processor!Does(Wrap(x - y - c), DifferenceFlags(x, y, c))
          = Effect(Wrap(x - y - c), hi, DifferenceFlags(x, y, c), {}, FALSE, None, control, image)
  BY DoesIs
<1>12. PICK r, f, d, c1 : r = Wrap(x - y - c) /\ f = DifferenceFlags(x, y, c) /\ d = Operands("sub", x, y, c) /\ c1 = control
  OBVIOUS
<1>13. Processor!Difference(x, y, c) = [Effect(r, hi, f, {}, FALSE, None, c1, image) EXCEPT !.decimal = d]
  BY <1>10, <1>11, <1>12, Zenon
<1>14. QED BY <1>12, <1>13 DEF Effect

-------------------------------------------------------------------------------
(* The inductive invariant.                                                  *)

CC_OP == {"EFLAGS", "CLR", "POPCNT", "MUL", "ADD", "ADC", "SUB", "SBB", "LOGIC", "INC", "DEC",
          "SHL", "SAR", "BMILG", "ADCX", "ADOX", "ADCOX"}

\* What the operands are when they are flags.
FlagsHeld ==
  /\ cc_op \in {"EFLAGS", "ADCX", "ADOX", "ADCOX"} => cc_src \subseteq Flag
  /\ cc_op \in {"ADCX", "ADCOX"} => cc_dst \in {0, 1}
  /\ cc_op \in {"ADOX", "ADCOX"} => cc_src2 \in {0, 1}

TypeOK ==
  /\ cc_op \in CC_OP /\ FlagsHeld
  /\ lo \in Word /\ hi \in Word /\ fault \in BOOLEAN
  /\ system \subseteq System
  /\ step \in 0..Len(Program)

\* After an addition or subtraction the register and the flags still tell its operands'
\* result: what the decimal adjustments rely on.
DecimalInv ==
  LET x == decimal.x
      y == decimal.y
      c == decimal.c
  IN /\ decimal.kind \in {"none", "add", "sub"}
     /\ decimal.kind # "none" => x \in Word /\ y \in Word /\ c \in {0, 1}
     /\ decimal.kind = "add" =>
          /\ lo = Wrap(x + y + c)
          /\ "C" \in eflags <=> x + y + c >= N
          /\ "A" \in eflags <=> (x % D) + (y % D) + c >= D
     /\ decimal.kind = "sub" =>
          /\ lo = Wrap(x - y - c)
          /\ "C" \in eflags <=> x < y + c
          /\ "A" \in eflags <=> (x % D) < (y % D) + c

CpuInv == TypeOK /\ DecimalInv

\* What is known of an instruction that is executed.
LEMMA Fetched ==
  ASSUME CpuInv, NEW i \in Available, NEW ops, Fetches(i, ops)
  PROVE  /\ insn' = i /\ i \in UNION Range(Program) /\ i.src \in Word /\ i.op \in ops
         /\ fault = FALSE /\ step' \in 0..Len(Program)
<1>1. ~fault /\ step # Len(Program) /\ i \in Program[step + 1]
  BY DEF Available
<1>2. step \in 0..Len(Program) /\ Program \in Seq(SUBSET [op : STRING, src : 0..(2^W - 1)])
  BY WordAssumption DEF CpuInv, TypeOK
<1>3. step + 1 \in 1..Len(Program) /\ step + 1 \in DOMAIN Program
  BY <1>1, <1>2
<1>4. Program[step + 1] \in Range(Program) /\ Program[step + 1] \subseteq [op : STRING, src : 0..(2^W - 1)]
  BY <1>2, <1>3 DEF Range
<1>5. QED BY <1>1, <1>3, <1>4 DEF Fetches, Word

\* An instruction with an effect, and without an exception, executes as the processor does.
LEMMA Executed ==
  ASSUME NEW i, i.op \notin {"DAA", "DAS", "AAA", "AAS", "RDRAND"}, NEW flags, NEW undefined,
         Processor!Effect(i) = Effect(lo', hi', flags, undefined, fault', decimal', control', image'),
         fault' = FALSE,
         eflags' \ undefined = flags \ undefined
  PROVE  Processor!Execute(i)
<1>1. PICK e : e = Effect(lo', hi', flags, undefined, fault', decimal', control', image')
  OBVIOUS
<1>2. /\ e.lo = lo' /\ e.hi = hi' /\ e.flags = flags /\ e.undefined = undefined /\ e.fault = FALSE
      /\ e.decimal = decimal' /\ e.control = control' /\ e.image = image'
  BY <1>1 DEF Effect
<1>3. QED BY <1>1, <1>2, Zenon DEF Processor!Execute, Processor!Adjustments, control

\* Both ways to compute the carry agree, for each kind of operands.
LEMMA CarryInAll ==
  ASSUME NEW op \in CC_OP, NEW dst, NEW src1, NEW src2
  PROVE  helper_cc_compute_c(dst, src1, src2, op) <=> "C" \in helper_cc_compute_all(dst, src1, src2, op)
<1> USE DEF helper_cc_compute_c, helper_cc_compute_all, If
<1>1. CASE op \in {"EFLAGS", "CLR", "POPCNT", "ADCX", "ADOX", "ADCOX"}
  BY <1>1
<1>2. CASE op \in {"MUL", "LOGIC", "INC", "DEC", "SAR", "SHL", "BMILG"}
  BY <1>2 DEF compute_all_mul, compute_all_logic, compute_all_inc, compute_all_dec, compute_all_sar,
     compute_all_shl, compute_c_shl, compute_all_bmilg, compute_c_bmilg, resultFlags, adjust
<1>3. CASE op \in {"ADD", "ADC"}
  BY <1>3 DEF compute_all_add, compute_c_add, compute_all_adc, compute_c_adc, resultFlags, adjust, overflowAdd
<1>4. CASE op \in {"SUB", "SBB"}
  BY <1>4 DEF compute_all_sub, compute_c_sub, compute_all_sbb, compute_c_sbb, resultFlags, adjust, overflowSub
<1>5. QED BY <1>1, <1>2, <1>3, <1>4 DEF CC_OP

LEMMA CarryBitIs ==
  /\ Processor!Carry \in {0, 1}
  /\ cc_op \in CC_OP => CarryBit = Processor!Carry
  BY CarryInAll DEF CarryBit, Processor!Carry, carry, eflags

\* The operands are recovered from the result.
LEMMA AllSums ==
  ASSUME NEW x \in Word, NEW y \in Word, NEW c \in {0, 1}
  PROVE  /\ compute_all_adc(Wrap(x + y + c), y, c) = SumFlags(x, y, c)
         /\ compute_all_add(Wrap(x + y), y) = SumFlags(x, y, 0)
         /\ compute_all_sbb(Wrap(x - y - c), y, c) = DifferenceFlags(x, y, c)
         /\ compute_all_sub(Wrap(x - y), y) = DifferenceFlags(x, y, 0)
<1>0. /\ x \in Int /\ y \in Int /\ c \in Int /\ x + y + c \in Int /\ x - y - c \in Int
      /\ x + y + 0 \in Int /\ x - y - 0 \in Int
  BY WordSize
<1>1. compute_all_adc(Wrap(x + y + c), y, c) = SumFlags(x, y, c)
  <2>1. PICK r \in Word : r = Wrap(x + y + c)
    BY <1>0, WrapCases
  <2>2. r = x + y + c - (IF x + y + c >= N THEN N ELSE 0)
    BY <1>0, <2>1, WrapCases, WordSize
  <2>3. Wrap(r - y - c) = x
    BY <1>0, <2>2, WrapCases, WordSize
  <2>4. (IF c # 0 THEN r <= y ELSE r < y) <=> x + y + c >= N
    BY <1>0, <2>2, WordSize
  <2>5. QED BY <2>1, <2>3, <2>4, AdjustSum, OverflowSum DEF compute_all_adc, SumFlags, If
<1>2. compute_all_add(Wrap(x + y), y) = SumFlags(x, y, 0)
  <2>1. PICK r \in Word : r = Wrap(x + y + 0)
    BY <1>0, WrapCases
  <2>2. r = x + y - (IF x + y >= N THEN N ELSE 0) /\ r = Wrap(x + y)
    BY <1>0, <2>1, WrapCases, WordSize
  <2>3. Wrap(r - y) = x
    BY <1>0, <2>2, WrapCases, WordSize
  <2>4. r < y <=> x + y + 0 >= N
    BY <1>0, <2>2, WordSize
  <2>5. QED BY <2>1, <2>2, <2>3, <2>4, AdjustSum, OverflowSum DEF compute_all_add, SumFlags, If
<1>3. compute_all_sbb(Wrap(x - y - c), y, c) = DifferenceFlags(x, y, c)
  <2>1. PICK r \in Word : r = Wrap(x - y - c)
    BY <1>0, WrapCases
  <2>2. r = x - y - c + (IF x < y + c THEN N ELSE 0)
    BY <1>0, <2>1, WrapCases, WordSize
  <2>3. Wrap(r + y + c) = x
    BY <1>0, <2>2, WrapCases, WordSize
  <2>4. (IF c # 0 THEN x <= y ELSE x < y) <=> x < y + c
    BY <1>0, <2>2, WordSize
  <2>5. QED BY <2>1, <2>3, <2>4, AdjustDifference, OverflowDifference DEF compute_all_sbb, DifferenceFlags, If
<1>4. compute_all_sub(Wrap(x - y), y) = DifferenceFlags(x, y, 0)
  <2>1. PICK r \in Word : r = Wrap(x - y - 0)
    BY <1>0, WrapCases
  <2>2. r = x - y + (IF x < y THEN N ELSE 0) /\ r = Wrap(x - y)
    BY <1>0, <2>1, WrapCases, WordSize
  <2>3. Wrap(r + y) = x
    BY <1>0, <2>2, WrapCases, WordSize
  <2>4. x < y <=> x < y + 0
    BY <1>0, <2>2, WordSize
  <2>5. QED BY <2>1, <2>2, <2>3, <2>4, AdjustDifference, OverflowDifference DEF compute_all_sub, DifferenceFlags, If
<1>5. QED BY <1>1, <1>2, <1>3, <1>4

-------------------------------------------------------------------------------
(* Sums and differences.                                                     *)

LEMMA FlagsSet ==
  ASSUME NEW op, NEW dst, NEW src, NEW src2, SetCC(op, dst, src, src2)
  PROVE  eflags' = helper_cc_compute_all(dst, src, src2, op)
  BY DEF SetCC, eflags

LEMMA TypeKept ==
  ASSUME CpuInv, step' \in 0..Len(Program),
         lo' \in Word, hi' \in Word, fault' \in BOOLEAN, system' \subseteq System,
         cc_op' \in CC_OP, FlagsHeld'
  PROVE  TypeOK'
  BY DEF TypeOK

LEMMA NoDecimal == decimal' = None => DecimalInv'
  BY DEF DecimalInv, None

LEMMA FetchedPlain ==
  ASSUME CpuInv, NEW i \in Available, NEW ops, Executes(i, ops)
  PROVE  /\ Fetches(i, ops) /\ insn' = i /\ i \in UNION Range(Program) /\ i.src \in Word /\ i.op \in ops
         /\ fault = FALSE /\ control' = control /\ image' = image /\ system' \subseteq System
         /\ step' \in 0..Len(Program)
<1>1. Fetches(i, ops) /\ UNCHANGED sys
  BY DEF Executes
<1>2. QED BY <1>1, Fetched DEF sys, control, CpuInv, TypeOK

\* A step without an exception, and without decimals.
LEMMA PlainStep ==
  ASSUME CpuInv, NEW i \in Available, NEW ops, Executes(i, ops),
         i.op \notin {"DAA", "DAS", "AAA", "AAS", "RDRAND"},
         NEW r \in Word, NEW h \in Word, NEW flags, NEW undefined,
         lo' = r, hi' = h, UNCHANGED fault, decimal' = None,
         eflags' \ undefined = flags \ undefined,
         cc_op' \in CC_OP, FlagsHeld',
         Processor!Effect(i) = Effect(r, h, flags, undefined, FALSE, None, control, image)
  PROVE  CpuInv' /\ Processor!Next
<1>1. /\ Fetches(i, ops) /\ insn' = i /\ i \in UNION Range(Program)
      /\ fault = FALSE /\ control' = control /\ image' = image /\ system' \subseteq System
      /\ step' \in 0..Len(Program)
  BY FetchedPlain
<1>2. TypeOK'
  BY <1>1, TypeKept
<1>3. Processor!Execute(i)
  BY <1>1, Executed
<1>4. CpuInv'
  BY <1>2, NoDecimal DEF CpuInv
<1>5. QED BY <1>1, <1>3, <1>4 DEF Processor!Next

LEMMA DecimalSum ==
  ASSUME NEW x \in Word, NEW y \in Word, NEW c \in {0, 1},
         lo' = Wrap(x + y + c), eflags' = SumFlags(x, y, c), decimal' = Operands("add", x, y, c)
  PROVE  DecimalInv'
<1>1. PICK r \in Word : r = Wrap(x + y + c)
  BY WrapCases, WordSize
<1>2. "C" \in SumFlags(x, y, c) <=> x + y + c >= N
  BY DEF SumFlags, If, resultFlags
<1>3. "A" \in SumFlags(x, y, c) <=> (x % D) + (y % D) + c >= D
  BY DEF SumFlags, If, resultFlags, HalfCarry
<1>4. decimal'.kind = "add" /\ decimal'.x = x /\ decimal'.y = y /\ decimal'.c = c
  BY DEF Operands
<1>5. QED BY <1>1, <1>2, <1>3, <1>4 DEF DecimalInv

LEMMA DecimalDifference ==
  ASSUME NEW x \in Word, NEW y \in Word, NEW c \in {0, 1},
         lo' = Wrap(x - y - c), eflags' = DifferenceFlags(x, y, c), decimal' = Operands("sub", x, y, c)
  PROVE  DecimalInv'
<1>2. "C" \in DifferenceFlags(x, y, c) <=> x < y + c
  BY DEF DifferenceFlags, If, resultFlags
<1>3. "A" \in DifferenceFlags(x, y, c) <=> (x % D) < (y % D) + c
  BY DEF DifferenceFlags, If, resultFlags, HalfBorrow
<1>4. decimal'.kind = "sub" /\ decimal'.x = x /\ decimal'.y = y /\ decimal'.c = c
  BY DEF Operands
<1>5. QED BY <1>2, <1>3, <1>4 DEF DecimalInv

LEMMA ArithmeticStep ==
  ASSUME CpuInv, Arithmetic
  PROVE  CpuInv' /\ Processor!Next
<1>1. PICK i \in Available : Arithmetic!(i)
  BY DEF Arithmetic
<1>2. PICK c : c = IF i.op \in {"ADC", "SBB"} THEN CarryBit ELSE 0
  OBVIOUS
<1>3. PICK r : r = IF i.op \in {"ADD", "ADC"} THEN Wrap(lo + i.src + c) ELSE Wrap(lo - i.src - c)
  OBVIOUS
<1>4. /\ Executes(i, {"ADD", "ADC", "SUB", "SBB"})
      /\ SetResult(r)
      /\ SetCC(i.op, r, i.src, IF i.op \in {"ADC", "SBB"} THEN c ELSE cc_src2)
      /\ decimal' = Operands(IF i.op \in {"ADD", "ADC"} THEN "add" ELSE "sub", lo, i.src, c)
  BY <1>1, <1>2, <1>3
<1>5. /\ Fetches(i, {"ADD", "ADC", "SUB", "SBB"}) /\ insn' = i /\ i \in UNION Range(Program)
      /\ i.src \in Word /\ i.op \in {"ADD", "ADC", "SUB", "SBB"}
      /\ fault = FALSE /\ control' = control /\ image' = image /\ system' \subseteq System
      /\ step' \in 0..Len(Program)
  BY <1>4, FetchedPlain
<1>6. lo \in Word /\ hi \in Word /\ c \in {0, 1} /\ (i.op \in {"ADC", "SBB"} => c = Processor!Carry)
  BY <1>2, CarryBitIs DEF CpuInv, TypeOK
<1>7. r \in Word /\ lo' = r /\ hi' = hi /\ fault' = fault
  BY <1>3, <1>4, <1>5, <1>6, WrapCases, WordSize DEF SetResult
<1>8. TypeOK'
  BY <1>4, <1>5, <1>6, <1>7, TypeKept DEF SetCC, CC_OP, FlagsHeld
<1>9. CASE i.op \in {"ADD", "ADC"}
  <2>1. eflags' = SumFlags(lo, i.src, c)
    <3>1. CASE i.op = "ADD"
      <4>1. c = 0 /\ r = Wrap(lo + i.src + 0) /\ lo + i.src + 0 = lo + i.src
        BY <1>2, <1>3, <1>5, <1>6, <3>1, WordSize
      <4>2. eflags' = compute_all_add(r, i.src)
        BY <1>4, <3>1, FlagsSet DEF helper_cc_compute_all
      <4>3. QED BY <1>5, <1>6, <4>1, <4>2, AllSums
    <3>2. CASE i.op = "ADC"
      <4>1. eflags' = compute_all_adc(r, i.src, c)
        BY <1>4, <3>2, FlagsSet DEF helper_cc_compute_all
      <4>2. QED BY <1>3, <1>5, <1>6, <3>2, <4>1, AllSums
    <3>3. QED BY <1>9, <3>1, <3>2
  <2>2. lo' = Wrap(lo + i.src + c) /\ decimal' = Operands("add", lo, i.src, c)
    BY <1>3, <1>4, <1>7, <1>9
  <2>3. DecimalInv'
    BY <1>5, <1>6, <2>1, <2>2, DecimalSum
  <2>4. Processor!Effect(i) = Processor!Sum(lo, i.src, c)
    BY <1>2, <1>6, <1>9 DEF Processor!Effect
  <2>5. Processor!Effect(i)
          = Effect(r, hi, SumFlags(lo, i.src, c), {}, FALSE, Operands("add", lo, i.src, c), control, image)
    BY <1>3, <1>5, <1>6, <1>9, <2>4, FlagsOfSum
  <2>6. Processor!Execute(i)
    BY <1>5, <1>7, <2>1, <2>2, <2>5, Executed
  <2>7. QED BY <1>5, <1>8, <2>3, <2>6 DEF Processor!Next, CpuInv
<1>10. CASE i.op \in {"SUB", "SBB"}
  <2>1. eflags' = DifferenceFlags(lo, i.src, c)
    <3>1. CASE i.op = "SUB"
      <4>1. c = 0 /\ r = Wrap(lo - i.src - 0) /\ lo - i.src - 0 = lo - i.src
        BY <1>2, <1>3, <1>5, <1>6, <3>1, WordSize
      <4>2. eflags' = compute_all_sub(r, i.src)
        BY <1>4, <3>1, FlagsSet DEF helper_cc_compute_all
      <4>3. QED BY <1>5, <1>6, <4>1, <4>2, AllSums
    <3>2. CASE i.op = "SBB"
      <4>1. eflags' = compute_all_sbb(r, i.src, c)
        BY <1>4, <3>2, FlagsSet DEF helper_cc_compute_all
      <4>2. QED BY <1>3, <1>5, <1>6, <3>2, <4>1, AllSums
    <3>3. QED BY <1>10, <3>1, <3>2
  <2>2. lo' = Wrap(lo - i.src - c) /\ decimal' = Operands("sub", lo, i.src, c)
    BY <1>3, <1>4, <1>7, <1>10
  <2>3. DecimalInv'
    BY <1>5, <1>6, <2>1, <2>2, DecimalDifference
  <2>4. Processor!Effect(i) = Processor!Difference(lo, i.src, c)
    BY <1>2, <1>6, <1>10 DEF Processor!Effect
  <2>5. Processor!Effect(i)
          = Effect(r, hi, DifferenceFlags(lo, i.src, c), {}, FALSE, Operands("sub", lo, i.src, c), control, image)
    BY <1>3, <1>5, <1>6, <1>10, <2>4, FlagsOfDifference
  <2>6. Processor!Execute(i)
    BY <1>5, <1>7, <2>1, <2>2, <2>5, Executed
  <2>7. QED BY <1>5, <1>8, <2>3, <2>6 DEF Processor!Next, CpuInv
<1>11. QED BY <1>5, <1>9, <1>10

-------------------------------------------------------------------------------
(* INC and DEC.                                                              *)

LEMMA HalfWord == H >= 2 /\ N >= 4 /\ 1 \in Word /\ 0 \in Word
<1>1. W - 2 \in 0..W /\ W - 1 = (W - 2) + 1
  BY WordAssumption
<1>2. 2^(W - 2) \in Nat \ {0} /\ 2^((W - 2) + 1) = 2 * 2^(W - 2)
  BY <1>1, Powers, PowersOfTwo
<1>3. H = 2 * 2^(W - 2)
  BY <1>1, <1>2 DEF H
<1>4. QED BY <1>2, <1>3, WordSize

LEMMA CarryKept == cc_op \in CC_OP => If(CarryBit # 0, "C") = eflags \cap {"C"}
  BY CarryBitIs DEF Processor!Carry, If

LEMMA AdjustSymmetric ==
  ASSUME NEW r \in Int, NEW x \in Int, NEW y \in Int
  PROVE  adjust(r, x, y) = adjust(r, y, x)
<1>1. PICK a \in Int : a = Bit(r, Digit)
  BY Digits
<1>2. PICK b \in Int : b = Bit(x, Digit)
  BY Digits
<1>3. PICK c \in Int : c = Bit(y, Digit)
  BY Digits
<1>4. a + b + c = a + c + b
  OBVIOUS
<1>5. QED BY <1>1, <1>2, <1>3, <1>4 DEF adjust

\* INC and DEC are sums with one that keep the carry.
LEMMA Increment ==
  ASSUME NEW x \in Word, NEW b
  PROVE  compute_all_inc(Wrap(x + 1), b) = (SumFlags(x, 1, 0) \ {"C"}) \cup If(b # 0, "C")
<1>0. x \in Int /\ x + 1 \in Int /\ x + 1 + 0 = x + 1
  BY WordSize
<1>1. PICK r \in Word : r = Wrap(x + 1)
  BY <1>0, WrapCases
<1>2. r = x + 1 - (IF x + 1 = N THEN N ELSE 0)
  BY <1>0, <1>1, WrapCases, WordSize
<1>3. Wrap(r - 1) = x
  BY <1>0, <1>2, WrapCases, WordSize
<1>4. adjust(r, Wrap(r - 1), 1) = If(HalfCarry(x, 1, 0) = 1, "A")
  BY <1>0, <1>1, <1>3, AdjustSum, AdjustSymmetric, HalfWord, WordSize
<1>5. r = 2^(W - 1) <=> ~Processor!Fits(Signed(x) + Signed(1) + 0)
  <2>1. Processor!Fits(Signed(x) + Signed(1) + 0) <=> (Signed(x) + Signed(1) + 0 \in (-H)..(H - 1))
    BY DEF Processor!Fits, H
  <2>2. r = 2^(W - 1) <=> r = H
    BY DEF H
  <2>3. QED BY <1>0, <1>2, <2>1, <2>2, SignedN, HalfWord, WordSize
<1>6. compute_all_inc(r, b) = If(b # 0, "C") \cup resultFlags(r) \cup If(HalfCarry(x, 1, 0) = 1, "A")
                               \cup If(~Processor!Fits(Signed(x) + Signed(1) + 0), "O")
  BY <1>4, <1>5 DEF compute_all_inc, If
<1>7. SumFlags(x, 1, 0) = resultFlags(r) \cup If(x + 1 + 0 >= N, "C") \cup If(HalfCarry(x, 1, 0) = 1, "A")
                            \cup If(~Processor!Fits(Signed(x) + Signed(1) + 0), "O")
  BY <1>0, <1>1 DEF SumFlags
<1>8. "C" \notin resultFlags(r)
  BY DEF resultFlags, If
<1>9. QED BY <1>1, <1>6, <1>7, <1>8 DEF If

LEMMA Decrement ==
  ASSUME NEW x \in Word, NEW b
  PROVE  compute_all_dec(Wrap(x - 1), b) = (DifferenceFlags(x, 1, 0) \ {"C"}) \cup If(b # 0, "C")
<1>0. x \in Int /\ x - 1 \in Int /\ x - 1 - 0 = x - 1
  BY WordSize
<1>1. PICK r \in Word : r = Wrap(x - 1)
  BY <1>0, WrapCases
<1>2. r = x - 1 + (IF x = 0 THEN N ELSE 0)
  BY <1>0, <1>1, WrapCases, WordSize
<1>3. Wrap(r + 1) = x
  BY <1>0, <1>2, WrapCases, WordSize
<1>4. adjust(r, Wrap(r + 1), 1) = If(HalfBorrow(x, 1, 0) = 1, "A")
  BY <1>0, <1>1, <1>3, AdjustDifference, HalfWord, WordSize
<1>5. r = 2^(W - 1) - 1 <=> ~Processor!Fits(Signed(x) - Signed(1) - 0)
  <2>1. Processor!Fits(Signed(x) - Signed(1) - 0) <=> (Signed(x) - Signed(1) - 0 \in (-H)..(H - 1))
    BY DEF Processor!Fits, H
  <2>2. r = 2^(W - 1) - 1 <=> r = H - 1
    BY DEF H
  <2>3. QED BY <1>0, <1>2, <2>1, <2>2, SignedN, HalfWord, WordSize
<1>6. compute_all_dec(r, b) = If(b # 0, "C") \cup resultFlags(r) \cup If(HalfBorrow(x, 1, 0) = 1, "A")
                               \cup If(~Processor!Fits(Signed(x) - Signed(1) - 0), "O")
  BY <1>4, <1>5 DEF compute_all_dec, If
<1>7. DifferenceFlags(x, 1, 0) = resultFlags(r) \cup If(x < 1 + 0, "C") \cup If(HalfBorrow(x, 1, 0) = 1, "A")
                            \cup If(~Processor!Fits(Signed(x) - Signed(1) - 0), "O")
  BY <1>0, <1>1 DEF DifferenceFlags
<1>8. "C" \notin resultFlags(r)
  BY DEF resultFlags, If
<1>9. QED BY <1>1, <1>6, <1>7, <1>8 DEF If

LEMMA KeepCarryIs ==
  ASSUME NEW r, NEW flags, NEW d
  PROVE  Processor!KeepCarry(Effect(r, hi, flags, {}, FALSE, d, control, image))
           = Effect(r, hi, (flags \ {"C"}) \cup (eflags \cap {"C"}), {}, FALSE, None, control, image)
<1>1. PICK c, f, none, no : c = control /\ f = eflags /\ none = None /\ no = FALSE
  OBVIOUS
<1>2. PICK e : e = Effect(r, hi, flags, {}, no, d, c, image)
  OBVIOUS
<1>3. PICK v : v = (e.flags \ {"C"}) \cup (f \cap {"C"})
  OBVIOUS
<1>4. e.flags = flags
  BY <1>2 DEF Effect
<1>5. Processor!KeepCarry(e) = [e EXCEPT !.flags = v, !.decimal = none]
  BY <1>1, <1>3, Zenon DEF Processor!KeepCarry, Processor!None, None
<1>6. PICK e1 : e1 = [e EXCEPT !.flags = v]
  OBVIOUS
<1>7. e1 = Effect(r, hi, v, {}, no, d, c, image)
  BY <1>2, <1>6 DEF Effect
<1>8. [e1 EXCEPT !.decimal = none] = Effect(r, hi, v, {}, no, none, c, image)
  BY <1>7 DEF Effect
<1>9. [e EXCEPT !.flags = v, !.decimal = none] = [e1 EXCEPT !.decimal = none]
  BY <1>6
<1>10. QED BY <1>1, <1>2, <1>3, <1>4, <1>5, <1>8, <1>9

LEMMA IncDecStep ==
  ASSUME CpuInv, IncDec
  PROVE  CpuInv' /\ Processor!Next
<1>1. PICK i \in Available : IncDec!(i)
  BY DEF IncDec
<1>2. PICK r : r = IF i.op = "INC" THEN Wrap(lo + 1) ELSE Wrap(lo - 1)
  OBVIOUS
<1>3. Executes(i, {"INC", "DEC"}) /\ SetResult(r) /\ SetCC(i.op, r, CarryBit, cc_src2) /\ decimal' = None
  BY <1>1, <1>2 DEF NotDecimal
<1>4. lo \in Word /\ hi \in Word /\ cc_op \in CC_OP /\ i.op \in {"INC", "DEC"}
  BY <1>3, FetchedPlain DEF CpuInv, TypeOK
<1>5. lo + 1 \in Int /\ lo - 1 \in Int /\ lo + 1 + 0 = lo + 1 /\ lo - 1 - 0 = lo - 1 /\ 1 \in Word /\ 0 \in {0, 1}
  BY <1>4, HalfWord, WordSize
<1>6. r \in Word /\ lo' = r /\ hi' = hi /\ UNCHANGED fault
  BY <1>2, <1>3, <1>5, WrapCases DEF SetResult
<1>7. cc_op' \in CC_OP /\ FlagsHeld'
  BY <1>3, <1>4 DEF SetCC, CC_OP, FlagsHeld
<1>8. CASE i.op = "INC"
  <2>1. eflags' = (SumFlags(lo, 1, 0) \ {"C"}) \cup (eflags \cap {"C"})
    <3>1. eflags' = compute_all_inc(r, CarryBit)
      BY <1>3, <1>8, FlagsSet DEF helper_cc_compute_all
    <3>2. QED BY <1>2, <1>4, <1>8, <3>1, Increment, CarryKept
  <2>2. Processor!Effect(i) = Processor!KeepCarry(Processor!Sum(lo, 1, 0))
    BY <1>8 DEF Processor!Effect
  <2>3. Processor!Effect(i) = Effect(r, hi, eflags', {}, FALSE, None, control, image)
    <3>1. Processor!Sum(lo, 1, 0)
            = Effect(r, hi, SumFlags(lo, 1, 0), {}, FALSE, Operands("add", lo, 1, 0), control, image)
      BY <1>2, <1>4, <1>5, <1>8, FlagsOfSum
    <3>2. Processor!KeepCarry(Effect(r, hi, SumFlags(lo, 1, 0), {}, FALSE, Operands("add", lo, 1, 0), control, image))
            = Effect(r, hi, (SumFlags(lo, 1, 0) \ {"C"}) \cup (eflags \cap {"C"}), {}, FALSE, None, control, image)
      BY KeepCarryIs, Zenon
    <3>3. QED BY <2>1, <2>2, <3>1, <3>2, Zenon
  <2>4. QED BY <1>3, <1>4, <1>6, <1>7, <1>8, <2>3, PlainStep
<1>9. CASE i.op = "DEC"
  <2>1. eflags' = (DifferenceFlags(lo, 1, 0) \ {"C"}) \cup (eflags \cap {"C"})
    <3>1. eflags' = compute_all_dec(r, CarryBit)
      BY <1>3, <1>9, FlagsSet DEF helper_cc_compute_all
    <3>2. QED BY <1>2, <1>4, <1>9, <3>1, Decrement, CarryKept
  <2>2. Processor!Effect(i) = Processor!KeepCarry(Processor!Difference(lo, 1, 0))
    BY <1>9 DEF Processor!Effect
  <2>3. Processor!Effect(i) = Effect(r, hi, eflags', {}, FALSE, None, control, image)
    <3>1. Processor!Difference(lo, 1, 0)
            = Effect(r, hi, DifferenceFlags(lo, 1, 0), {}, FALSE, Operands("sub", lo, 1, 0), control, image)
      BY <1>2, <1>4, <1>5, <1>9, FlagsOfDifference
    <3>2. Processor!KeepCarry(Effect(r, hi, DifferenceFlags(lo, 1, 0), {}, FALSE, Operands("sub", lo, 1, 0), control, image))
            = Effect(r, hi, (DifferenceFlags(lo, 1, 0) \ {"C"}) \cup (eflags \cap {"C"}), {}, FALSE, None, control, image)
      BY KeepCarryIs, Zenon
    <3>3. QED BY <2>1, <2>2, <3>1, <3>2, Zenon
  <2>4. QED BY <1>3, <1>4, <1>6, <1>7, <1>9, <2>3, PlainStep
<1>10. QED BY <1>4, <1>8, <1>9

-------------------------------------------------------------------------------
(* Products, and shifts.                                                     *)

\* The effect of an instruction that leaves some flags undefined, and of one that changes hi.
LEMMA UndefinedIs ==
  ASSUME NEW r, NEW flags, NEW u
  PROVE  Processor!Undefined(Processor!Does(r, flags), u)
           = Effect(r, hi, flags, u, FALSE, None, control, image)
<1>1. PICK c, none, no, empty : c = control /\ none = None /\ no = FALSE /\ empty = {}
  OBVIOUS
<1>2. PICK e : e = Effect(r, hi, flags, empty, no, none, c, image)
  OBVIOUS
<1>3. Processor!Does(r, flags) = e
  BY <1>1, <1>2, DoesIs
<1>4. [e EXCEPT !.undefined = u] = Effect(r, hi, flags, u, no, none, c, image)
  BY <1>2 DEF Effect
<1>5. QED BY <1>1, <1>3, <1>4, Zenon DEF Processor!Undefined

LEMMA HighIs ==
  ASSUME NEW r, NEW flags, NEW h, NEW u
  PROVE  Processor!Undefined([Processor!Does(r, flags) EXCEPT !.hi = h], u)
           = Effect(r, h, flags, u, FALSE, None, control, image)
<1>1. PICK c, none, no, empty : c = control /\ none = None /\ no = FALSE /\ empty = {}
  OBVIOUS
<1>2. PICK e : e = Effect(r, hi, flags, empty, no, none, c, image)
  OBVIOUS
<1>3. Processor!Does(r, flags) = e
  BY <1>1, <1>2, DoesIs
<1>4. PICK e1 : e1 = [e EXCEPT !.hi = h]
  OBVIOUS
<1>5. e1 = Effect(r, h, flags, empty, no, none, c, image)
  BY <1>2, <1>4 DEF Effect
<1>6. [e1 EXCEPT !.undefined = u] = Effect(r, h, flags, u, no, none, c, image)
  BY <1>5 DEF Effect
<1>7. QED BY <1>1, <1>3, <1>4, <1>6, Zenon DEF Processor!Undefined

LEMMA Products ==
  ASSUME NEW n \in Nat, n > 0, NEW x \in 0..(n - 1), NEW y \in 0..(n - 1)
  PROVE  /\ x * y \in Nat /\ (x * y) \div n \in 0..(n - 1)
         /\ (x * y) \div n = 0 <=> x * y < n
<1>1. x * y \in Nat
  OBVIOUS
<1>2. x * y <= (n - 1) * y
  OBVIOUS
<1>3. (n - 1) * y <= (n - 1) * n
  OBVIOUS
<1>4. x * y < n * n
  BY <1>1, <1>2, <1>3
<1>5. PICK p \in Nat : p = x * y
  BY <1>1
<1>6. p \div n \in Nat /\ p % n \in 0..(n - 1) /\ p = n * (p \div n) + (p % n)
  OBVIOUS
<1>7. PICK q \in Nat : q = p \div n
  BY <1>6
<1>8. q >= n => n * q >= n * n
  OBVIOUS
<1>9. n * q <= p
  BY <1>6, <1>7
<1>10. q < n
  BY <1>4, <1>5, <1>8, <1>9
<1>11. q = 0 <=> p < n
  <2>1. q >= 1 => n * q >= n
    OBVIOUS
  <2>2. QED BY <1>6, <1>7, <1>9, <2>1
<1>12. QED BY <1>5, <1>7, <1>10, <1>11

\* A number fits in a word if and only if its word has its value.
LEMMA SignedWrap ==
  ASSUME NEW s \in Int
  PROVE  /\ s \in (-H)..(H - 1) <=> s = Signed(Wrap(s))
         /\ Processor!Fits(s) <=> s = Signed(Wrap(s))
<1>1. PICK r \in Word : r = Wrap(s)
  BY WrapCases
<1>2. s \in (-H)..(H - 1) => s = Signed(r)
  BY <1>1, WrapCases, SignedN, WordSize
<1>3. Signed(r) \in (-H)..(H - 1)
  BY SignedN, WordSize
<1>4. Processor!Fits(s) <=> s \in (-H)..(H - 1)
  BY DEF Processor!Fits, H
<1>5. QED BY <1>1, <1>2, <1>3, <1>4

LEMMA SignedInt == \A x \in Word : Signed(x) \in (-H)..(H - 1) /\ Signed(x) \in Int
  BY SignedN, WordSize

LEMMA MultiplyStep ==
  ASSUME CpuInv, Multiply
  PROVE  CpuInv' /\ Processor!Next
<1>1. PICK i \in Available : Multiply!(i)
  BY DEF Multiply
<1>2. PICK product : product = IF i.op = "MUL" THEN lo * i.src ELSE Signed(lo) * Signed(i.src)
  OBVIOUS
<1>3. PICK r : r = Wrap(product)
  OBVIOUS
<1>4. /\ Executes(i, {"MUL", "IMUL"})
      /\ lo' = r
      /\ hi' = IF i.op = "MUL" THEN product \div 2^W ELSE hi
      /\ SetCC("MUL", r, IF i.op = "MUL" THEN product \div 2^W ELSE product - Signed(r), cc_src2)
      /\ UNCHANGED fault /\ decimal' = None
  BY <1>1, <1>2, <1>3 DEF NotDecimal
<1>5. lo \in Word /\ hi \in Word /\ i.op \in {"MUL", "IMUL"} /\ i.src \in Word
  BY <1>4, FetchedPlain DEF CpuInv, TypeOK
<1>6. product \in Int
  BY <1>2, <1>5, SignedInt, WordSize
<1>7. r \in Word
  BY <1>3, <1>6, WrapCases
<1>8. cc_op' \in CC_OP /\ FlagsHeld'
  BY <1>4 DEF SetCC, CC_OP, FlagsHeld
<1>9. CASE i.op = "MUL"
  <2>1. product \div N \in Word /\ (product \div N = 0 <=> product < N)
    <3>1. PICK n \in Nat : n = N /\ n > 0
      BY WordSize
    <3>2. PICK x \in 0..(n - 1) : x = lo
      BY <1>5, <3>1, WordSize
    <3>3. PICK y \in 0..(n - 1) : y = i.src
      BY <1>5, <3>1, WordSize
    <3>4. (x * y) \div n \in 0..(n - 1) /\ ((x * y) \div n = 0 <=> x * y < n)
      BY <3>1, Products
    <3>5. product = x * y
      BY <1>2, <1>9, <3>2, <3>3
    <3>6. QED BY <3>1, <3>4, <3>5, WordSize
  <2>2. eflags' = compute_all_mul(r, product \div N)
    BY <1>4, <1>9, FlagsSet DEF helper_cc_compute_all, N
  <2>3. PICK flags : flags = If(product >= N, "C") \cup If(product >= N, "O")
    OBVIOUS
  <2>4. eflags' \ {"A", "P", "Z", "S"} = flags \ {"A", "P", "Z", "S"}
    BY <1>6, <2>1, <2>2, <2>3, WordSize DEF compute_all_mul, If, resultFlags
  <2>5. Processor!Effect(i) = Processor!Undefined([Processor!Does(r, flags) EXCEPT !.hi = product \div N],
                                                   {"A", "P", "Z", "S"})
    <3>1. Processor!Effect(i) =
            Processor!Undefined([Processor!Does(Processor!Wrap(lo * i.src),
                                   Processor!If(lo * i.src >= 2^W, "C") \cup Processor!If(lo * i.src >= 2^W, "O"))
                                 EXCEPT !.hi = (lo * i.src) \div 2^W], {"A", "P", "Z", "S"})
      BY <1>9 DEF Processor!Effect
    <3>2. product = lo * i.src
      BY <1>2, <1>9
    <3>3. QED BY <1>3, <2>3, <3>1, <3>2, SameNames, Zenon DEF N
  <2>6. PICK h \in Word : h = product \div N
    BY <2>1
  <2>7. Processor!Effect(i) = Effect(r, h, flags, {"A", "P", "Z", "S"}, FALSE, None, control, image)
    <3>1. Processor!Effect(i) = Processor!Undefined([Processor!Does(r, flags) EXCEPT !.hi = h], {"A", "P", "Z", "S"})
      BY <2>5, <2>6, Zenon
    <3>2. QED BY <3>1, HighIs, Zenon
  <2>8. hi' = h
    BY <1>4, <1>9, <2>6 DEF N
  <2>9. QED BY <1>4, <1>5, <1>7, <1>8, <2>4, <2>7, <2>8, PlainStep
<1>10. CASE i.op = "IMUL"
  <2>1. Processor!Fits(product) <=> product = Signed(r)
    BY <1>3, <1>6, SignedWrap
  <2>2. eflags' = compute_all_mul(r, product - Signed(r))
    BY <1>4, <1>10, FlagsSet DEF helper_cc_compute_all
  <2>3. PICK flags : flags = If(~Processor!Fits(product), "C") \cup If(~Processor!Fits(product), "O")
    OBVIOUS
  <2>4. product - Signed(r) = 0 <=> Processor!Fits(product)
    BY <1>6, <1>7, <2>1, SignedInt
  <2>5. eflags' \ {"A", "P", "Z", "S"} = flags \ {"A", "P", "Z", "S"}
    BY <2>2, <2>3, <2>4 DEF compute_all_mul, If, resultFlags
  <2>6. Processor!Effect(i) = Processor!Undefined(Processor!Does(r, flags), {"A", "P", "Z", "S"})
    <3>1. Processor!Effect(i) =
            Processor!Undefined(Processor!Does(Processor!Wrap(Processor!Signed(lo) * Processor!Signed(i.src)),
               Processor!If(~Processor!Fits(Processor!Signed(lo) * Processor!Signed(i.src)), "C")
                 \cup Processor!If(~Processor!Fits(Processor!Signed(lo) * Processor!Signed(i.src)), "O")),
              {"A", "P", "Z", "S"})
      BY <1>10 DEF Processor!Effect
    <3>2. product = Signed(lo) * Signed(i.src)
      BY <1>2, <1>10
    <3>3. QED BY <1>3, <2>3, <3>1, <3>2, SameNames, Zenon
  <2>7. Processor!Effect(i) = Effect(r, hi, flags, {"A", "P", "Z", "S"}, FALSE, None, control, image)
    BY <2>6, UndefinedIs, Zenon
  <2>8. hi' = hi
    BY <1>4, <1>10
  <2>9. QED BY <1>4, <1>5, <1>7, <1>8, <1>10, <2>5, <2>7, <2>8, PlainStep
<1>11. QED BY <1>5, <1>9, <1>10

LEMMA BitCountBound ==
  /\ \A x : Cardinality({b \in 0..(W - 1) : Bit(x, b) = 1}) \in Word
  /\ \A x : Processor!Cardinality(Processor!OneBits(x)) = Cardinality({b \in 0..(W - 1) : Bit(x, b) = 1})
<1>1. ASSUME NEW x PROVE Cardinality({b \in 0..(W - 1) : Bit(x, b) = 1}) \in Word
  <2>1. PICK S \in SUBSET (0..(W - 1)) : S = {b \in 0..(W - 1) : Bit(x, b) = 1}
    OBVIOUS
  <2>2. W - 1 \in Int /\ IsFiniteSet(0..(W - 1)) /\ Cardinality(0..(W - 1)) = W
    BY WordAssumption, FS_Interval
  <2>3. IsFiniteSet(S) /\ Cardinality(S) \in Nat /\ Cardinality(S) <= W
    BY <2>2, FS_Subset, FS_CardinalityType
  <2>4. W < N
    <3> DEFINE A == {n \in Nat : n <= W => n < 2^n}
    <3>1. 0 \in A
      BY PowerZero
    <3>2. ASSUME NEW n \in Nat, n \in A PROVE n + 1 \in A
      BY <3>2, PowersOfTwo, WordAssumption
    <3>3. Nat \subseteq A
      BY ONLY <3>1, <3>2, Induction
    <3>4. QED BY <3>3, WordAssumption DEF N
  <2>5. Cardinality(S) \in Word
    BY <2>3, <2>4, WordSize
  <2>6. QED BY <2>1, <2>5
<1>2. ASSUME NEW x
      PROVE Processor!Cardinality(Processor!OneBits(x)) = Cardinality({b \in 0..(W - 1) : Bit(x, b) = 1})
  <2>1. Processor!OneBits(x) = {b \in 0..(W - 1) : Bit(x, b) = 1}
    BY DEF Processor!OneBits, Bit
  <2>2. QED BY <2>1, SameCardinality
<1>3. QED BY <1>1, <1>2

LEMMA ShiftLeft ==
  ASSUME NEW x \in Word
  PROVE  /\ Wrap(2 * x) \in Word
         /\ Msb(x) = 1 <=> 2 * x >= N
         /\ Msb(x) # Msb(Wrap(2 * x)) <=> Signed(Wrap(2 * x)) # 2 * Signed(x)
<1>1. x \in Int /\ 2 * x \in Int
  BY WordSize
<1>2. PICK r \in Word : r = Wrap(2 * x)
  BY <1>1, WrapCases
<1>3. r = 2 * x - (IF 2 * x >= N THEN N ELSE 0)
  BY <1>1, <1>2, WrapCases, WordSize
<1>4. Msb(x) = 1 <=> 2 * x >= N
  BY <1>1, MsbN, WordSize
<1>5. Msb(x) # Msb(r) <=> Signed(r) # 2 * Signed(x)
  BY <1>1, <1>3, MsbN, SignedN, WordSize
<1>6. QED BY <1>2, <1>4, <1>5

LEMMA ShiftRight ==
  ASSUME NEW x \in Word
  PROVE  Wrap(Signed(x) \div 2) \in Word /\ Msb(x) = Msb(Wrap(Signed(x) \div 2))
<1>1. x \in Int
  BY WordSize
<1>2. PICK s \in Int : s = Signed(x)
  BY SignedInt
<1>3. s = IF x >= H THEN x - N ELSE x
  BY <1>2, SignedN
<1>4. PICK t \in Int : t = s \div 2 /\ 2 * t <= s /\ s <= 2 * t + 1
  OBVIOUS
<1>5. PICK r \in Word : r = Wrap(t)
  BY WrapCases
<1>6. x >= H => t \in (-N)..(-1) /\ r = t + N /\ r >= H
  BY <1>1, <1>3, <1>4, <1>5, WrapCases, WordSize
<1>7. x < H => t \in 0..(N - 1) /\ r = t /\ r < H
  BY <1>1, <1>3, <1>4, <1>5, WrapCases, WordSize
<1>8. Msb(x) = Msb(r)
  BY <1>1, <1>6, <1>7, MsbN, WordSize
<1>9. QED BY <1>2, <1>4, <1>5, <1>8

-------------------------------------------------------------------------------
(* ADCX and ADOX, RDRAND, AAM and AAD.                                       *)

LEMMA FlagsKnown == TypeOK => eflags \subseteq Flag
<1> SUFFICES ASSUME TypeOK PROVE eflags \subseteq Flag
  OBVIOUS
<1> USE DEF helper_cc_compute_all, If, Flag
<1>1. CASE cc_op \in {"EFLAGS", "CLR", "POPCNT", "ADCX", "ADOX", "ADCOX"}
  BY <1>1 DEF eflags, TypeOK, FlagsHeld
<1>2. CASE cc_op \in {"MUL", "LOGIC", "INC", "DEC", "SAR", "SHL", "BMILG"}
  BY <1>2 DEF eflags, compute_all_mul, compute_all_logic, compute_all_inc, compute_all_dec, compute_all_sar,
     compute_all_shl, compute_c_shl, compute_all_bmilg, resultFlags, adjust
<1>3. CASE cc_op \in {"ADD", "ADC"}
  BY <1>3 DEF eflags, compute_all_add, compute_all_adc, resultFlags, adjust, overflowAdd
<1>4. CASE cc_op \in {"SUB", "SBB"}
  BY <1>4 DEF eflags, compute_all_sub, compute_all_sbb, resultFlags, adjust, overflowSub
<1>5. QED BY <1>1, <1>2, <1>3, <1>4 DEF TypeOK, CC_OP

LEMMA AdcxAdoxStep ==
  ASSUME CpuInv, AdcxAdox
  PROVE  CpuInv' /\ Processor!Next
<1>1. PICK i \in Available : AdcxAdox!(i)
  BY DEF AdcxAdox
<1>2. PICK kept \in BOOLEAN : kept <=> IF i.op = "ADCX" THEN cc_op \in {"ADCX", "ADCOX"} ELSE cc_op \in {"ADOX", "ADCOX"}
  OBVIOUS
<1>3. PICK other \in BOOLEAN : other <=> (cc_op \in {"ADCX", "ADOX", "ADCOX"} /\ (cc_op # i.op))
  OBVIOUS
<1>4. PICK c : c = IF kept THEN (IF i.op = "ADCX" THEN cc_dst ELSE cc_src2)
                ELSE IF (IF i.op = "ADCX" THEN "C" ELSE "O") \in eflags THEN 1 ELSE 0
  OBVIOUS
<1>5. PICK sum : sum = lo + i.src + c
  OBVIOUS
<1>6. PICK out : out = IF sum > Max THEN 1 ELSE 0
  OBVIOUS
<1>7. /\ Executes(i, {"ADCX", "ADOX"})
      /\ SetResult(Wrap(sum))
      /\ SetCC(IF other THEN "ADCOX" ELSE i.op,
               IF i.op = "ADCX" THEN out ELSE cc_dst,
               IF kept \/ other THEN cc_src ELSE eflags,
               IF i.op = "ADOX" THEN out ELSE cc_src2)
      /\ decimal' = None
  <2>1. Executes(i, {"ADCX", "ADOX"}) /\ decimal' = None
    BY <1>1 DEF NotDecimal
  <2>2. SetResult(Wrap(sum))
    BY <1>1, <1>2, <1>3, <1>4, <1>5
  <2>3. SetCC(IF other THEN "ADCOX" ELSE i.op,
               IF i.op = "ADCX" THEN out ELSE cc_dst,
               IF kept \/ other THEN cc_src ELSE eflags,
               IF i.op = "ADOX" THEN out ELSE cc_src2)
    BY <1>1, <1>2, <1>3, <1>4, <1>5, <1>6
  <2>4. QED BY <2>1, <2>2, <2>3
<1>8. /\ lo \in Word /\ hi \in Word /\ cc_op \in CC_OP /\ FlagsHeld /\ eflags \subseteq Flag
      /\ i.op \in {"ADCX", "ADOX"} /\ i.src \in Word
  BY <1>7, FetchedPlain, FlagsKnown DEF CpuInv, TypeOK
<1>9. c = IF i.op = "ADCX" THEN Processor!Carry ELSE Processor!Overflow
  BY <1>2, <1>4, <1>8
     DEF FlagsHeld, Processor!Carry, Processor!Overflow, eflags, helper_cc_compute_all, If
<1>10. c \in {0, 1} /\ sum \in Int /\ out \in {0, 1} /\ (out = 1 <=> sum >= N)
  <2>1. c \in {0, 1}
    BY <1>9 DEF Processor!Carry, Processor!Overflow
  <2>2. Max = N - 1
    BY DEF Max, N
  <2>3. QED BY <1>5, <1>6, <1>8, <2>1, <2>2, WordSize
<1>11. PICK r \in Word : r = Wrap(sum)
  BY <1>10, WrapCases
<1>12. lo' = r /\ hi' = hi /\ UNCHANGED fault
  BY <1>7, <1>11 DEF SetResult
<1>13. cc_op' \in CC_OP /\ FlagsHeld'
  BY <1>2, <1>3, <1>7, <1>8, <1>10 DEF SetCC, CC_OP, FlagsHeld
<1>14. CASE i.op = "ADCX"
  <2>1. eflags' = (eflags \ {"C"}) \cup If(sum >= N, "C")
    <3>1. CASE cc_op \notin {"ADCX", "ADOX", "ADCOX"}
      <4>1. eflags' = helper_cc_compute_all(out, eflags, cc_src2, "ADCX")
        BY <1>2, <1>3, <1>7, <1>8, <1>14, <3>1, FlagsSet
      <4>2. QED BY <1>10, <4>1 DEF helper_cc_compute_all, If
    <3>2. CASE cc_op = "ADCX"
      <4>1. eflags' = helper_cc_compute_all(out, cc_src, cc_src2, "ADCX")
        BY <1>2, <1>3, <1>7, <1>8, <1>14, <3>2, FlagsSet
      <4>2. QED BY <1>10, <3>2, <4>1 DEF eflags, helper_cc_compute_all, If
    <3>3. CASE cc_op \in {"ADOX", "ADCOX"}
      <4>1. eflags' = helper_cc_compute_all(out, cc_src, cc_src2, "ADCOX")
        BY <1>2, <1>3, <1>7, <1>8, <1>14, <3>3, FlagsSet
      <4>2. QED BY <1>10, <3>3, <4>1 DEF eflags, helper_cc_compute_all, If
    <3>4. QED BY <1>8, <3>1, <3>2, <3>3
  <2>2. Processor!Effect(i) = Processor!Does(r, eflags')
    <3>1. Processor!Effect(i) = Processor!Does(Processor!Wrap(lo + i.src + Processor!Carry),
            (eflags \ {"C"}) \cup Processor!If(lo + i.src + Processor!Carry >= 2^W, "C"))
      BY <1>14 DEF Processor!Effect
    <3>2. sum = lo + i.src + Processor!Carry
      BY <1>5, <1>9, <1>14
    <3>3. QED BY <1>11, <2>1, <3>1, <3>2, SameNames, Zenon DEF N
  <2>3. Processor!Effect(i) = Effect(r, hi, eflags', {}, FALSE, None, control, image)
    BY <2>2, DoesIs, Zenon
  <2>4. QED BY <1>7, <1>8, <1>12, <1>13, <1>14, <2>3, PlainStep
<1>15. CASE i.op = "ADOX"
  <2>1. eflags' = (eflags \ {"O"}) \cup If(sum >= N, "O")
    <3>1. CASE cc_op \notin {"ADCX", "ADOX", "ADCOX"}
      <4>1. eflags' = helper_cc_compute_all(cc_dst, eflags, out, "ADOX")
        BY <1>2, <1>3, <1>7, <1>8, <1>15, <3>1, FlagsSet
      <4>2. QED BY <1>10, <4>1 DEF helper_cc_compute_all, If
    <3>2. CASE cc_op = "ADOX"
      <4>1. eflags' = helper_cc_compute_all(cc_dst, cc_src, out, "ADOX")
        BY <1>2, <1>3, <1>7, <1>8, <1>15, <3>2, FlagsSet
      <4>2. QED BY <1>10, <3>2, <4>1 DEF eflags, helper_cc_compute_all, If
    <3>3. CASE cc_op \in {"ADCX", "ADCOX"}
      <4>1. eflags' = helper_cc_compute_all(cc_dst, cc_src, out, "ADCOX")
        BY <1>2, <1>3, <1>7, <1>8, <1>15, <3>3, FlagsSet
      <4>2. QED BY <1>10, <3>3, <4>1 DEF eflags, helper_cc_compute_all, If
    <3>4. QED BY <1>8, <3>1, <3>2, <3>3
  <2>2. Processor!Effect(i) = Processor!Does(r, eflags')
    <3>1. Processor!Effect(i) = Processor!Does(Processor!Wrap(lo + i.src + Processor!Overflow),
            (eflags \ {"O"}) \cup Processor!If(lo + i.src + Processor!Overflow >= 2^W, "O"))
      BY <1>15 DEF Processor!Effect
    <3>2. sum = lo + i.src + Processor!Overflow
      BY <1>5, <1>9, <1>15
    <3>3. QED BY <1>11, <2>1, <3>1, <3>2, SameNames, Zenon DEF N
  <2>3. Processor!Effect(i) = Effect(r, hi, eflags', {}, FALSE, None, control, image)
    BY <2>2, DoesIs, Zenon
  <2>4. QED BY <1>7, <1>8, <1>12, <1>13, <1>15, <2>3, PlainStep
<1>16. QED BY <1>8, <1>14, <1>15

LEMMA RandomStep ==
  ASSUME CpuInv, Random
  PROVE  CpuInv' /\ Processor!Next
<1>1. PICK i \in Available, r \in Word, ok \in BOOLEAN :
        /\ Executes(i, {"RDRAND"}) /\ SetResult(IF ok THEN r ELSE 0)
        /\ SetCC("EFLAGS", cc_dst, If(ok, "C"), cc_src2) /\ decimal' = None
  BY DEF Random, NotDecimal
<1>2. /\ insn' = i /\ i \in UNION Range(Program) /\ i.op = "RDRAND"
      /\ fault = FALSE /\ control' = control /\ image' = image /\ system' \subseteq System
      /\ step' \in 0..Len(Program)
  <2>1. Executes(i, {"RDRAND"}) /\ i \in Available
    BY <1>1
  <2>2. i.op \in {"RDRAND"} => i.op = "RDRAND"
    OBVIOUS
  <2>3. QED BY <2>1, <2>2, FetchedPlain, Zenon
<1>3. lo' = (IF ok THEN r ELSE 0) /\ lo' \in Word /\ hi' = hi /\ hi \in Word /\ fault' = fault
  BY <1>1, HalfWord DEF SetResult, CpuInv, TypeOK
<1>4. eflags' = If(ok, "C")
  BY <1>1, FlagsSet DEF helper_cc_compute_all
<1>5. cc_op' \in CC_OP /\ FlagsHeld'
  BY <1>1 DEF SetCC, CC_OP, FlagsHeld, If, Flag
<1>6. CpuInv'
  BY <1>1, <1>2, <1>3, <1>5, TypeKept, NoDecimal DEF CpuInv
<1>7. Processor!Execute(i)
  <2>1. eflags' \in {{"C"}, {}} /\ (eflags' = {} => lo' = 0)
    BY <1>3, <1>4 DEF If
  <2>2. QED BY <1>1, <1>2, <1>3, <2>1, SameNames
           DEF Processor!Execute, Processor!Adjustments, Processor!None, None, control
<1>8. QED BY <1>2, <1>6, <1>7 DEF Processor!Next

LEMMA BaseConversionStep ==
  ASSUME CpuInv, BaseConversion
  PROVE  CpuInv' /\ Processor!Next
<1>1. PICK i \in Available : BaseConversion!(i)
  BY DEF BaseConversion
<1>2. PICK r : r = IF i.op = "AAM" THEN lo % Ten ELSE Wrap(hi * Ten + lo)
  OBVIOUS
<1>3. PICK h : h = IF i.op = "AAM" THEN lo \div Ten ELSE 0
  OBVIOUS
<1>4. /\ Executes(i, {"AAM", "AAD"}) /\ lo' = r /\ hi' = h
      /\ SetCC("LOGIC", r, cc_src, cc_src2) /\ UNCHANGED fault /\ decimal' = None
  BY <1>1, <1>2, <1>3 DEF NotDecimal
<1>5. lo \in Word /\ hi \in Word /\ i.op \in {"AAM", "AAD"}
  BY <1>4, FetchedPlain DEF CpuInv, TypeOK
<1>6. Ten \in Nat /\ Ten > 0 /\ Ten <= D /\ D <= N
  <2>1. PICK K \in Nat : N = D * (2 * K)
    BY WordOfDigits
  <2>2. Ten \in 1..D
    BY WordAssumption DEF D
  <2>3. K >= 1 => D * (2 * K) >= D
    BY DigitSize
  <2>4. QED BY <2>1, <2>2, <2>3, DigitSize, WordSize
<1>7. r \in Word /\ h \in Word
  <2>1. PICK n \in Nat : n = N /\ Word = 0..(n - 1) /\ n >= 4
    BY WordSize, HalfWord
  <2>2. PICK x \in 0..(n - 1) : x = lo
    BY <1>5, <2>1
  <2>3. (x % Ten) \in 0..(n - 1) /\ x \div Ten \in 0..(n - 1)
    <3>1. (x % Ten) \in 0..(Ten - 1) /\ x \div Ten \in Nat /\ x \div Ten <= x
      BY <1>6
    <3>2. QED BY <1>6, <2>1, <3>1
  <2>4. hi * Ten + lo \in Int
    BY <1>5, <1>6, WordSize
  <2>5. QED BY <1>2, <1>3, <2>1, <2>2, <2>3, <2>4, WrapCases
<1>8. cc_op' \in CC_OP /\ FlagsHeld'
  BY <1>4 DEF SetCC, CC_OP, FlagsHeld
<1>9. eflags' = Processor!OfResult(r)
  BY <1>4, <1>7, FlagsSet, ResultFlags DEF helper_cc_compute_all, compute_all_logic
<1>10. Processor!Effect(i) = Processor!Undefined([Processor!Does(r, Processor!OfResult(r)) EXCEPT !.hi = h],
                                                  {"C", "A", "O"})
  <2>1. CASE i.op = "AAM"
    BY <1>2, <1>3, <2>1 DEF Processor!Effect
  <2>2. CASE i.op = "AAD"
    <3>1. Ten * hi + lo = hi * Ten + lo
      BY <1>5, <1>6, WordSize
    <3>2. QED BY <1>2, <1>3, <2>2, <3>1, SameNames DEF Processor!Effect
  <2>3. QED BY <1>5, <2>1, <2>2
<1>11. Processor!Effect(i) = Effect(r, h, Processor!OfResult(r), {"C", "A", "O"}, FALSE, None, control, image)
  BY <1>10, HighIs, Zenon
<1>12. QED BY <1>4, <1>5, <1>7, <1>8, <1>9, <1>11, PlainStep

-------------------------------------------------------------------------------
(* The flags together.                                                       *)

\* The instructions for flags change nothing else, and raise no exception.
LEMMA FlagStep ==
  ASSUME CpuInv, NEW i \in Available, NEW ops, Fetches(i, ops),
         i.op \notin {"DAA", "DAS", "AAA", "AAS", "RDRAND"},
         UNCHANGED <<lo, hi, fault>>, decimal' = None,
         cc_op' \in CC_OP, FlagsHeld', system' \subseteq System,
         Processor!Effect(i) = Effect(lo, hi, eflags', {}, FALSE, None, control', image')
  PROVE  CpuInv' /\ Processor!Next
<1>1. insn' = i /\ i \in UNION Range(Program) /\ fault = FALSE /\ step' \in 0..Len(Program)
  BY Fetched
<1>2. lo' = lo /\ hi' = hi /\ fault' = FALSE /\ lo \in Word /\ hi \in Word
  BY <1>1 DEF CpuInv, TypeOK
<1>3. TypeOK'
  BY <1>1, <1>2, TypeKept
<1>4. Processor!Execute(i)
  BY <1>2, Executed
<1>5. QED BY <1>1, <1>3, <1>4, NoDecimal DEF CpuInv, Processor!Next

LEMMA PushedIs ==
  ASSUME NEW im
  PROVE  [Processor!Does(lo, eflags) EXCEPT !.image = im]
           = Effect(lo, hi, eflags, {}, FALSE, None, control, im)
<1>1. PICK c, none, no, empty, f : c = control /\ none = None /\ no = FALSE /\ empty = {} /\ f = eflags
  OBVIOUS
<1>2. PICK e : e = Effect(lo, hi, f, empty, no, none, c, image)
  OBVIOUS
<1>3. Processor!Does(lo, eflags) = e
  BY <1>1, <1>2, DoesIs
<1>4. [e EXCEPT !.image = im] = Effect(lo, hi, f, empty, no, none, c, im)
  BY <1>2 DEF Effect
<1>5. QED BY <1>1, <1>3, <1>4, Zenon

LEMMA ControlIs ==
  ASSUME NEW flags, NEW c
  PROVE  [Processor!Does(lo, flags) EXCEPT !.control = c]
           = Effect(lo, hi, flags, {}, FALSE, None, c, image)
<1>1. PICK c0, none, no, empty : c0 = control /\ none = None /\ no = FALSE /\ empty = {}
  OBVIOUS
<1>2. PICK e : e = Effect(lo, hi, flags, empty, no, none, c0, image)
  OBVIOUS
<1>3. Processor!Does(lo, flags) = e
  BY <1>1, <1>2, DoesIs
<1>4. [e EXCEPT !.control = c] = Effect(lo, hi, flags, empty, no, none, c, image)
  BY <1>2 DEF Effect
<1>5. QED BY <1>1, <1>3, <1>4, Zenon

LEMMA FlagsImageStep ==
  ASSUME CpuInv, FlagsImage
  PROVE  CpuInv' /\ Processor!Next
<1>1. PICK i \in Available : FlagsImage!(i)
  BY DEF FlagsImage
<1>2. /\ Fetches(i, {"PUSHF", "POPF_USER", "POPF_KERNEL"})
      /\ UNCHANGED <<lo, hi, fault>> /\ decimal' = None
  BY <1>1 DEF NotDecimal
<1>3. /\ i.op \in {"PUSHF", "POPF_USER", "POPF_KERNEL"}
      /\ cc_op \in CC_OP /\ FlagsHeld /\ system \subseteq System /\ eflags \subseteq Flag
  BY <1>2, Fetched, FlagsKnown DEF CpuInv, TypeOK
<1>4. CASE i.op = "PUSHF"
  <2>1. image' = helper_read_eflags /\ UNCHANGED <<cc, system, df>>
    BY <1>1, <1>4
  <2>2. /\ cc_op' \in CC_OP /\ FlagsHeld' /\ system' \subseteq System
        /\ eflags' = eflags /\ control' = control
    BY <1>3, <2>1 DEF cc, FlagsHeld, eflags, control
  <2>3. eflags \cup (control \ {"RF"}) = image'
    BY <2>1 DEF helper_read_eflags, control, If
  <2>4. Processor!Effect(i) = [Processor!Does(lo, eflags) EXCEPT !.image = eflags \cup (control \ {"RF"})]
    BY <1>4, Zenon DEF Processor!Effect, Processor!Pushed, control
  <2>5. Processor!Effect(i) = Effect(lo, hi, eflags', {}, FALSE, None, control', image')
    <3>1. PICK im : im = image'
      OBVIOUS
    <3>2. Processor!Effect(i) = [Processor!Does(lo, eflags) EXCEPT !.image = im]
      BY <2>3, <2>4, <3>1
    <3>3. Processor!Effect(i) = Effect(lo, hi, eflags, {}, FALSE, None, control, im)
      BY <3>2, PushedIs, Zenon
    <3>4. QED BY <2>2, <3>1, <3>3, Zenon
  <2>6. QED BY <1>2, <1>4, <2>2, <2>5, FlagStep
<1>5. CASE i.op \in {"POPF_USER", "POPF_KERNEL"}
  <2>1. PICK mask : mask = IF i.op = "POPF_USER" THEN {"AC"} ELSE {"AC", "I"}
    OBVIOUS
  <2>2. helper_write_eflags(image, mask) /\ image' = image
    BY <1>1, <1>5, <2>1
  <2>3. /\ SetCC("EFLAGS", cc_dst, image \cap Flag, cc_src2)
        /\ df' = (IF "D" \in image THEN -1 ELSE 1)
        /\ system' = (system \ mask) \cup (image \cap mask)
    BY <2>2 DEF helper_write_eflags
  <2>4. cc_op' \in CC_OP /\ FlagsHeld'
    BY <2>3 DEF SetCC, CC_OP, FlagsHeld
  <2>5. eflags' = image \cap Flag
    BY <2>3, FlagsSet DEF helper_cc_compute_all
  <2>6. system' \subseteq System
    BY <1>3, <2>1, <2>3 DEF System
  <2>7. PICK all : all = {"D"} \cup mask
    OBVIOUS
  <2>8. control' = (control \ all) \cup (image \cap all)
    <3>1. "D" \notin system
      BY <1>3 DEF System
    <3>2. control' = system' \cup If("D" \in image, "D")
      BY <2>3 DEF control, If
    <3>3. QED BY <2>1, <2>3, <2>7, <3>1, <3>2 DEF control, If
  <2>9. Processor!Effect(i) = Processor!Popped(all)
    <3>1. CASE i.op = "POPF_USER"
      <4>1. all = {"D", "AC"}
        BY <2>1, <2>7, <3>1
      <4>2. Processor!Effect(i) = Processor!Popped({"D", "AC"})
        BY <3>1 DEF Processor!Effect
      <4>3. QED BY <4>1, <4>2
    <3>2. CASE i.op = "POPF_KERNEL"
      <4>1. all = {"D", "AC", "I"}
        BY <2>1, <2>7, <3>2
      <4>2. Processor!Effect(i) = Processor!Popped({"D", "AC", "I"})
        BY <3>2 DEF Processor!Effect
      <4>3. QED BY <4>1, <4>2
    <3>3. QED BY <1>5, <3>1, <3>2
  <2>10. Processor!Popped(all)
           = [Processor!Does(lo, image \cap Flag) EXCEPT !.control = (control \ all) \cup (image \cap all)]
    BY SameNames, Zenon DEF Processor!Popped, control
  <2>11. Processor!Effect(i) = Effect(lo, hi, eflags', {}, FALSE, None, control', image')
    <3>1. PICK c : c = control'
      OBVIOUS
    <3>2. PICK f : f = eflags'
      OBVIOUS
    <3>3. Processor!Effect(i) = [Processor!Does(lo, f) EXCEPT !.control = c]
      BY <2>5, <2>8, <2>9, <2>10, <3>1, <3>2
    <3>4. Processor!Effect(i) = Effect(lo, hi, f, {}, FALSE, None, c, image)
      BY <3>3, ControlIs, Zenon
    <3>5. QED BY <2>2, <3>1, <3>2, <3>4, Zenon
  <2>12. QED BY <1>2, <1>5, <2>4, <2>6, <2>11, FlagStep
<1>6. QED BY <1>3, <1>4, <1>5

LEMMA SystemFlagStep ==
  ASSUME CpuInv, SystemFlag
  PROVE  CpuInv' /\ Processor!Next
<1>1. PICK i \in Available : SystemFlag!(i)
  BY DEF SystemFlag
<1>2. /\ Fetches(i, {"CLI", "STI", "CLAC", "STAC", "RESUMED"})
      /\ UNCHANGED <<cc, df, image, lo, hi, fault>> /\ decimal' = None
  BY <1>1 DEF NotDecimal
<1>3. /\ i.op \in {"CLI", "STI", "CLAC", "STAC", "RESUMED"}
      /\ cc_op \in CC_OP /\ FlagsHeld /\ system \subseteq System
  BY <1>2, Fetched DEF CpuInv, TypeOK
<1>4. PICK f : f = IF i.op \in {"CLI", "STI"} THEN "I" ELSE IF i.op \in {"CLAC", "STAC"} THEN "AC" ELSE "RF"
  OBVIOUS
<1>5. system' = IF i.op \in {"STI", "STAC"} THEN system \cup {f} ELSE system \ {f}
  BY <1>1, <1>3, <1>4
<1>6. /\ cc_op' \in CC_OP /\ FlagsHeld' /\ system' \subseteq System
      /\ eflags' = eflags /\ image' = image
  BY <1>2, <1>3, <1>4, <1>5 DEF cc, FlagsHeld, eflags, System
<1>7. control' = IF i.op \in {"STI", "STAC"} THEN control \cup {f} ELSE control \ {f}
  BY <1>2, <1>4, <1>5 DEF control, If
<1>8. PICK c : c = control'
  OBVIOUS
<1>9. Processor!Effect(i) = [Processor!Does(lo, eflags) EXCEPT !.control = c]
  <2>1. Processor!Does(lo, eflags).control = control
    BY DoesIs DEF Effect
  <2>2. CASE i.op \in {"STI", "STAC"}
    <3>1. Processor!Effect(i) = Processor!Sets(f)
      BY <1>4, <2>2 DEF Processor!Effect
    <3>2. QED BY <1>7, <1>8, <2>1, <2>2, <3>1 DEF Processor!Sets
  <2>3. CASE i.op \notin {"STI", "STAC"}
    <3>1. Processor!Effect(i) = Processor!Clears(f)
      BY <1>3, <1>4, <2>3 DEF Processor!Effect
    <3>2. QED BY <1>7, <1>8, <2>1, <2>3, <3>1 DEF Processor!Clears
  <2>4. QED BY <2>2, <2>3
<1>10. Processor!Effect(i) = Effect(lo, hi, eflags, {}, FALSE, None, c, image)
  BY <1>9, ControlIs, Zenon
<1>11. QED BY <1>2, <1>3, <1>6, <1>8, <1>10, FlagStep

-------------------------------------------------------------------------------
(* Divisions of C.                                                           *)

\* A division that raises an exception, or leaves quotient and remainder.
LEMMA DividesStep ==
  ASSUME CpuInv, NEW i \in Available, NEW ops, Executes(i, ops), UNCHANGED cc,
         i.op \notin {"DAA", "DAS", "AAA", "AAS", "RDRAND"},
         NEW n \in Int, NEW d \in Int, NEW q \in Int, NEW inRange \in BOOLEAN,
         Processor!Effect(i) = Processor!Divide(n, d, q, inRange),
         IF d = 0 \/ ~inRange THEN Raise
         ELSE lo' = Wrap(q) /\ hi' = Wrap(n - q * d) /\ UNCHANGED fault /\ decimal' = None
  PROVE  CpuInv' /\ Processor!Next
<1>1. /\ insn' = i /\ i \in UNION Range(Program) /\ i.op \in ops
      /\ fault = FALSE /\ control' = control /\ image' = image /\ system' \subseteq System
      /\ step' \in 0..Len(Program)
  BY FetchedPlain
<1>2. lo \in Word /\ hi \in Word /\ cc_op \in CC_OP /\ FlagsHeld
  BY DEF CpuInv, TypeOK
<1>3. eflags' = eflags /\ cc_op' \in CC_OP /\ FlagsHeld' /\ eflags \subseteq Flag
  BY <1>2, FlagsKnown DEF cc, eflags, FlagsHeld, CpuInv
<1>4. CASE d = 0 \/ ~inRange
  <2>1. fault' = TRUE /\ UNCHANGED <<lo, hi, decimal>>
    BY <1>4 DEF Raise
  <2>2. TypeOK'
    BY <1>1, <1>2, <1>3, <2>1, TypeKept
  <2>3. DecimalInv'
    BY <1>3, <2>1 DEF CpuInv, DecimalInv
  <2>4. Processor!Execute(i)
    <3>1. PICK yes, no, none, c, empty : yes = TRUE /\ no = FALSE /\ none = None /\ c = control /\ empty = {}
      OBVIOUS
    <3>2. PICK e : e = Effect(lo, hi, empty, empty, no, none, c, image)
      OBVIOUS
    <3>3. Processor!Does(lo, empty) = e
      BY <3>1, <3>2, DoesIs
    <3>4. PICK e1 : e1 = [e EXCEPT !.fault = yes]
      OBVIOUS
    <3>5. e1 = Effect(lo, hi, empty, empty, yes, none, c, image)
      BY <3>2, <3>4 DEF Effect
    <3>6. e1.fault = yes /\ e1.control = c /\ e1.image = image
      BY <3>5 DEF Effect
    <3>7. Processor!Effect(i) = e1
      BY <1>4, <3>1, <3>3, <3>4, Zenon DEF Processor!Divide
    <3>8. e1.fault /\ fault' = e1.fault /\ control' = e1.control /\ image' = e1.image
      BY <1>1, <2>1, <3>1, <3>6
    <3>9. QED BY <1>3, <2>1, <3>7, <3>8, Zenon DEF Processor!Execute, Processor!Adjustments, control
  <2>5. QED BY <1>1, <2>2, <2>3, <2>4 DEF CpuInv, Processor!Next
<1>5. CASE ~(d = 0 \/ ~inRange)
  <2>1. n - q * d \in Int
    OBVIOUS
  <2>2. PICK r \in Word : r = Wrap(q)
    BY WrapCases
  <2>3. PICK h \in Word : h = Wrap(n - q * d)
    BY <2>1, WrapCases
  <2>4. Processor!Effect(i) = Processor!Undefined([Processor!Does(r, {}) EXCEPT !.hi = h], Flag)
    BY <1>5, <2>2, <2>3, SameNames DEF Processor!Divide
  <2>5. Processor!Effect(i) = Effect(r, h, {}, Flag, FALSE, None, control, image)
    BY <2>4, HighIs, Zenon
  <2>6. eflags' \ Flag = {} \ Flag
    BY <1>3
  <2>7. lo' = r /\ hi' = h /\ UNCHANGED fault /\ decimal' = None
    BY <1>5, <2>2, <2>3
  <2>8. QED BY <1>3, <2>5, <2>6, <2>7, PlainStep
<1>6. QED BY <1>4, <1>5

LEMMA QuotientOfWords ==
  ASSUME NEW n \in Nat, NEW d \in Nat, d > 0
  PROVE  /\ n \div d \in Nat /\ (n % d) = n - (n \div d) * d
         /\ (n % d) \in 0..(d - 1)
<1>1. n = d * (n \div d) + (n % d) /\ n \div d \in Nat /\ (n % d) \in 0..(d - 1)
  OBVIOUS
<1>2. QED BY <1>1

LEMMA DoubleWord ==
  ASSUME NEW h \in Word, NEW l \in Word
  PROVE  h * N + l \in Nat /\ N * h + l = h * N + l /\ N * h + l \in Nat
  BY WordSize

LEMMA Div32Step ==
  ASSUME CpuInv, Div32
  PROVE  CpuInv' /\ Processor!Next
<1>1. PICK i \in Available : Div32!(i)
  BY DEF Div32
<1>2. Executes(i, {"DIV"}) /\ UNCHANGED cc
  BY <1>1
<1>3. i.op \in {"DIV"} /\ i.src \in Word /\ lo \in Word /\ hi \in Word
  BY <1>2, FetchedPlain DEF CpuInv, TypeOK
<1>4. PICK n \in Nat : n = hi * N + lo /\ n = N * hi + lo
  BY <1>3, DoubleWord
<1>5. PICK d \in Nat : d = i.src
  BY <1>3, WordSize
<1>6. PICK q \in Nat : q = IF d = 0 THEN 0 ELSE n \div d
  BY <1>5, QuotientOfWords
<1>7. d # 0 => (n % d) = n - q * d
  BY <1>6, QuotientOfWords
<1>8. PICK inRange \in BOOLEAN : inRange <=> (d # 0 /\ q \in Word)
  OBVIOUS
<1>9. Processor!Effect(i) = Processor!Divide(n, d, q, inRange)
  <2>1. Processor!Effect(i) = Processor!Divide(2^W * hi + lo, i.src,
           IF i.src = 0 THEN 0 ELSE (2^W * hi + lo) \div i.src,
           i.src # 0 /\ (2^W * hi + lo) \div i.src \in Processor!Word)
    BY <1>3 DEF Processor!Effect
  <2>2. n = 2^W * hi + lo
    BY <1>4 DEF N
  <2>3. inRange = (i.src # 0 /\ (2^W * hi + lo) \div i.src \in Processor!Word)
    BY <1>5, <1>6, <1>8, <2>2, SameNames
  <2>4. QED BY <1>5, <1>6, <2>1, <2>2, <2>3
<1>10. IF d = 0 \/ ~inRange THEN Raise
       ELSE lo' = Wrap(q) /\ hi' = Wrap(n - q * d) /\ UNCHANGED fault /\ decimal' = None
  <2>1. n = hi * 2^W + lo
    BY <1>4 DEF N
  <2>2. q > Max <=> q \notin Word
    BY <1>6, WordSize DEF Max, N
  <2>3. IF d = 0 THEN Raise ELSE IF n \div d > Max THEN Raise ELSE Quotient(n \div d, n % d)
    BY <1>1, <1>5, <2>1
  <2>4. QED BY <1>6, <1>7, <1>8, <2>2, <2>3 DEF Quotient, NotDecimal
<1>11. QED BY <1>2, <1>3, <1>9, <1>10, DividesStep

LEMMA SignedQuotient ==
  ASSUME NEW n \in Int, NEW d \in Int, d # 0
  PROVE  Div(n, d) \in Int /\ Processor!Quot(n, d) = Div(n, d)
<1>1. Abs(n) \in Nat /\ Abs(d) \in Nat /\ Abs(d) > 0
  BY DEF Abs
<1>2. Abs(n) \div Abs(d) \in Nat
  BY <1>1, QuotientOfWords
<1>3. Sign(n) \in Int /\ Sign(d) \in Int
  BY DEF Sign
<1>4. Processor!Sign(n) = Sign(n) /\ Processor!Sign(d) = Sign(d)
      /\ Processor!Abs(n) = Abs(n) /\ Processor!Abs(d) = Abs(d)
  BY DEF Processor!Sign, Sign, Processor!Abs, Abs
<1>5. Processor!Quot(n, d) = Div(n, d)
  BY <1>4, Zenon DEF Processor!Quot, Div
<1>6. QED BY <1>2, <1>3, <1>5 DEF Div

LEMMA Idiv32Step ==
  ASSUME CpuInv, Idiv32
  PROVE  CpuInv' /\ Processor!Next
<1>1. PICK i \in Available : Idiv32!(i)
  BY DEF Idiv32
<1>2. Executes(i, {"IDIV"}) /\ UNCHANGED cc
  BY <1>1
<1>3. i.op \in {"IDIV"} /\ i.src \in Word /\ lo \in Word /\ hi \in Word
  BY <1>2, FetchedPlain DEF CpuInv, TypeOK
<1>4. PICK n \in Int : n = Signed(hi) * N + lo /\ n = N * Signed(hi) + lo
  BY <1>3, SignedInt, WordSize
<1>5. PICK d \in Int : d = Signed(i.src)
  BY <1>3, SignedInt
<1>6. d = 0 <=> i.src = 0
  BY <1>3, <1>5, SignedN, WordSize
<1>7. PICK q \in Int : q = IF d = 0 THEN 0 ELSE Div(n, d)
  BY SignedQuotient
<1>8. PICK inRange \in BOOLEAN : inRange <=> Processor!Fits(q)
  BY DEF Processor!Fits
<1>9. Processor!Effect(i) = Processor!Divide(n, d, q, inRange)
  <2>1. PICK squot : squot = IF i.src = 0 THEN 0
           ELSE Processor!Quot(2^W * Processor!Signed(hi) + lo, Processor!Signed(i.src))
    OBVIOUS
  <2>2. Processor!Effect(i) = Processor!Divide(2^W * Processor!Signed(hi) + lo, Processor!Signed(i.src),
                                                squot, Processor!Fits(squot))
    BY <1>3, <2>1 DEF Processor!Effect
  <2>3. n = 2^W * Processor!Signed(hi) + lo /\ d = Processor!Signed(i.src)
    BY <1>4, <1>5, SameNames DEF N
  <2>4. squot = q
    BY <1>6, <1>7, <2>1, <2>3, SignedQuotient
  <2>5. inRange = Processor!Fits(squot)
    BY <1>8, <2>4 DEF Processor!Fits
  <2>6. QED BY <2>2, <2>3, <2>4, <2>5
<1>10. IF d = 0 \/ ~inRange THEN Raise
       ELSE lo' = Wrap(q) /\ hi' = Wrap(n - q * d) /\ UNCHANGED fault /\ decimal' = None
  <2>1. n = Signed(hi) * 2^W + lo
    BY <1>4 DEF N
  <2>2. inRange <=> q = Signed(Wrap(q))
    BY <1>8, SignedWrap
  <2>3. IF d = 0 THEN Raise ELSE IF Div(n, d) # Signed(Wrap(Div(n, d))) THEN Raise
        ELSE Quotient(Div(n, d), Mod(n, d))
    BY <1>1, <1>5, <2>1
  <2>4. d # 0 => Mod(n, d) = n - q * d
    BY <1>7 DEF Mod
  <2>5. QED BY <1>7, <2>2, <2>3, <2>4 DEF Quotient, NotDecimal
<1>11. QED BY <1>2, <1>3, <1>9, <1>10, DividesStep

-------------------------------------------------------------------------------
(* The loop of div64.                                                        *)

\* The function of the loop exists, and its values are the steps.
IsDivLoop(f, a, b, n) == f = [i \in 0..n |-> IF i = 0 THEN a ELSE DivStep(f[i - 1], b)]

LEMMA DivLoopExists ==
  ASSUME NEW a, NEW b
  PROVE  \A k \in Nat : \E f : IsDivLoop(f, a, b, k)
<1> DEFINE Unrolled(n) == \E f : f = [i \in 0..n |-> IF i = 0 THEN a ELSE DivStep(f[i - 1], b)]
           A == {n \in Nat : Unrolled(n)}
<1>1. 0 \in A
  <2>1. PICK f : f = [i \in 0..0 |-> a]
    OBVIOUS
  <2>2. f = [i \in 0..0 |-> IF i = 0 THEN a ELSE DivStep(f[i - 1], b)]
    BY <2>1
  <2>3. QED BY <2>2
<1>2. ASSUME NEW n \in Nat, n \in A PROVE n + 1 \in A
  <2>1. PICK f : f = [i \in 0..n |-> IF i = 0 THEN a ELSE DivStep(f[i - 1], b)]
    BY <1>2
  <2>2. PICK g : g = [i \in 0..(n + 1) |-> IF i = n + 1 THEN DivStep(f[n], b) ELSE f[i]]
    OBVIOUS
  <2>3. \A i \in 0..(n + 1) : g[i] = IF i = 0 THEN a ELSE DivStep(g[i - 1], b)
    BY <2>1, <2>2
  <2>4. g = [i \in 0..(n + 1) |-> IF i = 0 THEN a ELSE DivStep(g[i - 1], b)]
    BY <2>2, <2>3
  <2>5. QED BY <2>4
<1>3. Nat \subseteq A
  BY ONLY <1>1, <1>2, Induction
<1>4. QED BY <1>3 DEF IsDivLoop

LEMMA DivLoop ==
  ASSUME NEW plow, NEW phigh, NEW b
  PROVE  \E f : /\ f[0] = [a0 |-> plow, a1 |-> phigh]
                /\ \A i \in 1..W : f[i] = DivStep(f[i - 1], b)
                /\ div64(plow, phigh, b) =
                     IF phigh = 0 THEN [overflow |-> FALSE, low |-> plow \div b, high |-> plow % b]
                     ELSE IF phigh >= b THEN [overflow |-> TRUE, low |-> plow, high |-> phigh]
                     ELSE [overflow |-> FALSE, low |-> f[W].a0, high |-> f[W].a1]
<1>1. PICK a : a = [a0 |-> plow, a1 |-> phigh]
  OBVIOUS
<1>2. PICK f : f = CHOOSE loop : IsDivLoop(loop, a, b, W)
  OBVIOUS
<1>3. W \in Nat
  BY WordAssumption
<1>4. IsDivLoop(f, a, b, W)
  <2>1. \E loop : IsDivLoop(loop, a, b, W)
    BY <1>3, DivLoopExists
  <2>2. QED BY <1>2, <2>1, Zenon
<1>5. f[0] = a /\ \A i \in 1..W : f[i] = DivStep(f[i - 1], b)
  BY <1>3, <1>4 DEF IsDivLoop
<1>6. div64(plow, phigh, b) =
                     IF phigh = 0 THEN [overflow |-> FALSE, low |-> plow \div b, high |-> plow % b]
                     ELSE IF phigh >= b THEN [overflow |-> TRUE, low |-> plow, high |-> phigh]
                     ELSE [overflow |-> FALSE, low |-> f[W].a0, high |-> f[W].a1]
  BY <1>1, <1>2, Zenon DEF div64, IsDivLoop
<1>7. QED BY <1>1, <1>5, <1>6

\* One bit: the remainder is shifted, with the next bit of the number, and reduced.
QuotientBit(s, b) == IF 2 * s.a1 + Msb(s.a0) >= b THEN 1 ELSE 0

LEMMA DivRemainder ==
  ASSUME NEW b \in Word, NEW s, s.a0 \in Word, s.a1 \in 0..(b - 1)
  PROVE  /\ DivStep(s, b).a1 = 2 * s.a1 + Msb(s.a0) - QuotientBit(s, b) * b
         /\ DivStep(s, b).a1 \in 0..(b - 1)
         /\ DivStep(s, b).a0 = Wrap(2 * s.a0 + QuotientBit(s, b))
<1>0. PICK a0 \in Word, a1 \in 0..(b - 1), c \in {0, 1}, qb \in {0, 1} :
         s.a0 = a0 /\ s.a1 = a1 /\ c = Msb(a0) /\ qb = IF 2 * a1 + c >= b THEN 1 ELSE 0
  BY MsbN
<1>1. b \in Int /\ a1 \in Int /\ a0 \in Int /\ a1 \in Word /\ b <= N - 1
  BY WordSize
<1>2. PICK m \in Int : m = 2 * a1 + c
  BY <1>1
<1>3. PICK r \in Word : r = Wrap(m)
  BY <1>2, WrapCases
<1>4. m \in 0..(2 * N - 1) /\ r = m - (IF m >= N THEN N ELSE 0)
  BY <1>1, <1>2, <1>3, WrapCases, WordSize
<1>5. (Msb(a1) = 1 \/ r >= b) <=> m >= b
  BY <1>1, <1>2, <1>4, MsbN, WordSize
<1>6. m >= b => Wrap(r - b) = m - b
  <2>1. m >= b => m - b \in 0..(N - 1)
    BY <1>1, <1>2, WordSize
  <2>2. CASE m >= N
    <3>1. r - b \in (-N)..(-1) /\ r - b \in Int
      BY <1>1, <1>2, <1>4, <2>2, WordSize
    <3>2. QED BY <1>1, <1>4, <2>2, <3>1, WrapCases, WordSize
  <2>3. CASE m < N
    <3>1. m >= b => r - b \in 0..(N - 1) /\ r - b \in Int
      BY <1>1, <1>2, <1>4, <2>1, <2>3, WordSize
    <3>2. m >= b => Wrap(r - b) = r - b
      BY <3>1, WrapCases
    <3>3. r = m
      BY <1>4, <2>3, WordSize
    <3>4. QED BY <3>2, <3>3
  <2>4. QED BY <1>4, <2>2, <2>3, WordSize
<1>9. DivStep(s, b) = [a1 |-> IF m >= b THEN Wrap(r - b) ELSE r, a0 |-> Wrap(2 * a0 + (IF m >= b THEN 1 ELSE 0))]
  BY <1>0, <1>2, <1>3, <1>5 DEF DivStep
<1>10. DivStep(s, b).a1 = (IF m >= b THEN Wrap(r - b) ELSE r) /\ DivStep(s, b).a0 = Wrap(2 * a0 + (IF m >= b THEN 1 ELSE 0))
  BY <1>9
<1>11. ASSUME m >= b
      PROVE  DivStep(s, b).a1 = 2 * a1 + c - qb * b /\ DivStep(s, b).a1 \in 0..(b - 1) /\ DivStep(s, b).a0 = Wrap(2 * a0 + qb)
  <2>1. qb = 1
    BY <1>0, <1>2, <1>11
  <2>2. DivStep(s, b).a1 = m - b /\ DivStep(s, b).a0 = Wrap(2 * a0 + 1)
    BY <1>6, <1>10, <1>11
  <2>3. m - b \in 0..(b - 1) /\ qb * b = b
    BY <1>1, <1>2, <1>11, <2>1
  <2>4. 2 * a0 + qb = 2 * a0 + 1 /\ 2 * a1 + c - qb * b = m - b
    BY <1>1, <1>2, <2>1, <2>3
  <2>5. QED BY <2>2, <2>3, <2>4
<1>12. ASSUME m < b
      PROVE  DivStep(s, b).a1 = 2 * a1 + c - qb * b /\ DivStep(s, b).a1 \in 0..(b - 1) /\ DivStep(s, b).a0 = Wrap(2 * a0 + qb)
  <2>1. qb = 0
    BY <1>0, <1>1, <1>2, <1>12
  <2>2. m < N
    BY <1>1, <1>12, WordSize
  <2>3. DivStep(s, b).a1 = m /\ DivStep(s, b).a0 = Wrap(2 * a0 + qb)
    <3>1. r = m /\ ~(m >= b)
      BY <1>1, <1>2, <1>4, <1>12, <2>2, WordSize
    <3>2. DivStep(s, b).a1 = r /\ DivStep(s, b).a0 = Wrap(2 * a0 + 0)
      BY <1>10, <3>1
    <3>3. QED BY <2>1, <3>1, <3>2
  <2>4. m \in 0..(b - 1) /\ qb * b = 0
    BY <1>1, <1>2, <1>4, <1>12, <2>1
  <2>5. QED BY <1>2, <2>1, <2>3, <2>4
<1>13. m >= b \/ m < b
  BY <1>1, <1>2
<1>14. QED BY <1>0, <1>11, <1>12, <1>13 DEF QuotientBit

\* After k bits: q is the quotient so far, t the bits of the number that were shifted out.
DivInv(s, k, plow, phigh, b, q, rest, t) ==
  /\ q \in 0..(2^k - 1) /\ rest \in 0..(2^(W - k) - 1) /\ t \in Nat
  /\ plow = t * 2^(W - k) + rest
  /\ s.a0 = rest * 2^k + q
  /\ s.a1 \in 0..(b - 1)
  /\ phigh * 2^k + t = q * b + s.a1

LEMMA RestOfNumber ==
  ASSUME NEW P \in Nat, NEW rest \in 0..(2 * P - 1), NEW Q \in Nat, NEW q \in 0..(Q - 1)
  PROVE  \E c \in {0, 1}, r \in 0..(P - 1) :
           rest = c * P + r /\ r * Q \in 0..(P * Q - Q) /\ rest * Q + q = c * (P * Q) + r * Q + q
<1>1. PICK c \in {0, 1} : c = IF rest >= P THEN 1 ELSE 0
  OBVIOUS
<1>2. PICK r \in 0..(P - 1) : r = rest - c * P
  BY <1>1
<1>3. r * Q \in Nat /\ r * Q <= (P - 1) * Q
  OBVIOUS
<1>4. (P - 1) * Q = P * Q - Q /\ P * Q \in Nat
  OBVIOUS
<1>5. rest * Q = c * (P * Q) + r * Q
  <2>1. c = 0 => rest * Q = r * Q
    BY <1>2
  <2>2. c = 1 => rest = P + r
    BY <1>2
  <2>3. (P + r) * Q = P * Q + r * Q
    OBVIOUS
  <2>4. QED BY <1>3, <1>4, <2>1, <2>2, <2>3
<1>6. QED BY <1>2, <1>3, <1>4, <1>5

\* A step keeps the invariant of the loop.
LEMMA DivStepInv ==
  ASSUME NEW b \in Word, NEW plow \in Word, NEW phigh \in Word, NEW k \in 0..(W - 1),
         NEW a0 \in Word, NEW a1, NEW q, NEW rest, NEW t,
         DivInv([a0 |-> a0, a1 |-> a1], k, plow, phigh, b, q, rest, t)
  PROVE  LET s == DivStep([a0 |-> a0, a1 |-> a1], b)
         IN s.a0 \in Word /\ \E q1, rest1, t1 : DivInv(s, k + 1, plow, phigh, b, q1, rest1, t1)
<1>1. W - (k + 1) \in 0..W /\ k \in 0..W /\ W - k = (W - (k + 1)) + 1 /\ (W - (k + 1)) + k = W - 1
      /\ W - (k + 1) \in Nat /\ k \in Nat /\ W - 1 <= W
  BY WordAssumption
<1>2. PICK P \in Nat : P = 2^(W - (k + 1)) /\ 2^(W - k) = 2 * P /\ P > 0
  BY <1>1, PowersOfTwo, Powers
<1>3. PICK Q \in Nat : Q = 2^k /\ 2^(k + 1) = 2 * Q /\ Q > 0
  BY <1>1, PowersOfTwo, Powers
<1>4. P * Q = H
  <2>1. 2^((W - (k + 1)) + k) = 2^(W - (k + 1)) * 2^k
    BY <1>1, PowerSum
  <2>2. QED BY <1>1, <1>2, <1>3, <2>1 DEF H
<1>5. /\ q \in 0..(Q - 1) /\ rest \in 0..(2 * P - 1) /\ t \in Nat
      /\ plow = t * (2 * P) + rest
      /\ a0 = rest * Q + q
      /\ a1 \in 0..(b - 1)
      /\ phigh * Q + t = q * b + a1
  BY <1>2, <1>3 DEF DivInv
<1>6. PICK c \in {0, 1}, r \in 0..(P - 1) :
        rest = c * P + r /\ r * Q \in 0..(H - Q) /\ rest * Q + q = c * H + r * Q + q
  BY <1>4, <1>5, RestOfNumber
<1>7. PICK e \in Nat : e = r * Q /\ e <= H - Q
  BY <1>6
<1>8. Msb(a0) = c /\ a0 = c * H + e + q /\ b \in Int /\ a1 \in Int
  BY <1>3, <1>5, <1>6, <1>7, MsbN, WordSize
<1>9. PICK qb \in {0, 1} : qb = IF 2 * a1 + c >= b THEN 1 ELSE 0
  OBVIOUS
<1>10. PICK s0, s : s0 = [a0 |-> a0, a1 |-> a1] /\ s = DivStep(s0, b)
  OBVIOUS
<1>11. s.a1 = 2 * a1 + c - qb * b /\ s.a1 \in 0..(b - 1) /\ s.a0 = Wrap(2 * a0 + qb)
  <2>1. s0.a0 = a0 /\ s0.a1 = a1 /\ a0 \in Word /\ a1 \in 0..(b - 1) /\ Msb(a0) = c
    BY <1>5, <1>8, <1>10
  <2>2. QuotientBit(s0, b) = qb
    BY <1>9, <2>1 DEF QuotientBit
  <2>3. QED BY <1>10, <2>1, <2>2, DivRemainder
<1>12. Wrap(2 * a0 + qb) = 2 * e + 2 * q + qb
  <2>1. 2 * e + 2 * q + qb \in 0..(N - 1)
    BY <1>3, <1>5, <1>7, WordSize
  <2>2. 2 * a0 + qb = c * N + (2 * e + 2 * q + qb)
    BY <1>5, <1>7, <1>8, WordSize
  <2>3. PICK m \in 0..(N - 1) : m = 2 * e + 2 * q + qb
    BY <2>1
  <2>4. Wrap(c * N + m) = m
    <3>1. c = 0 => c * N + m = m
      BY <2>3, WordSize
    <3>2. c = 1 => c * N + m = m + N
      BY <2>3, WordSize
    <3>3. Wrap(m) = m /\ Wrap(m + N) = m
      BY <2>3, WrapCases, WordSize
    <3>4. QED BY <3>1, <3>2, <3>3
  <2>5. QED BY <2>2, <2>3, <2>4
<1>13. DivInv(s, k + 1, plow, phigh, b, 2 * q + qb, r, 2 * t + c)
  <2>1. 2 * q + qb \in 0..(2 * Q - 1) /\ 2 * t + c \in Nat
    BY <1>5
  <2>2. plow = (2 * t + c) * P + r
    <3>1. t * (2 * P) + (c * P + r) = (2 * t + c) * P + r
      BY <1>5
    <3>2. QED BY <1>5, <1>6, <3>1
  <2>3. s.a0 = r * (2 * Q) + (2 * q + qb)
    <3>1. r * (2 * Q) = 2 * (r * Q)
      OBVIOUS
    <3>2. QED BY <1>5, <1>7, <1>11, <1>12, <3>1
  <2>4. phigh * (2 * Q) + (2 * t + c) = (2 * q + qb) * b + s.a1
    <3>1. phigh * (2 * Q) = 2 * (phigh * Q) /\ phigh * Q \in Int
      BY WordSize
    <3>2. (2 * q + qb) * b = 2 * (q * b) + qb * b /\ q * b \in Int /\ qb * b \in Int
      BY <1>5, <1>8
    <3>3. QED BY <1>5, <1>8, <1>11, <3>1, <3>2
  <2>5. QED BY <1>2, <1>3, <1>11, <2>1, <2>2, <2>3, <2>4 DEF DivInv
<1>14. s.a0 \in Word
  BY <1>3, <1>5, <1>7, <1>11, <1>12, WordSize
<1>15. QED BY <1>10, <1>13, <1>14

-------------------------------------------------------------------------------
(* div64: what the loop has computed in the end.                             *)

\* The invariant holds after k steps, for some quotient so far.
Reached(s, k, plow, phigh, b) ==
  \E a0, a1, q, rest, t :
    a0 \in Word /\ s = [a0 |-> a0, a1 |-> a1] /\ DivInv([a0 |-> a0, a1 |-> a1], k, plow, phigh, b, q, rest, t)

LEMMA DivReached ==
  ASSUME NEW plow \in Word, NEW phigh \in Word, NEW b \in Word, phigh < b,
         NEW f, f[0] = [a0 |-> plow, a1 |-> phigh], \A i \in 1..W : f[i] = DivStep(f[i - 1], b)
  PROVE  Reached(f[W], W, plow, phigh, b)
<1> DEFINE A == {k \in Nat : k <= W => Reached(f[k], k, plow, phigh, b)}
<1>1. 0 \in A
  <2>1. W - 0 = W /\ W \in Nat /\ plow \in 0..(2^W - 1)
    BY WordAssumption DEF Word
  <2>2. DivInv([a0 |-> plow, a1 |-> phigh], 0, plow, phigh, b, 0, plow, 0)
    <3>1. PICK n \in Nat : n = 2^W /\ plow \in 0..(n - 1)
      BY <2>1, WordSize DEF N
    <3>2. 0 \in 0..(1 - 1) /\ plow = 0 * n + plow /\ plow = plow * 1 + 0 /\ phigh * 1 + 0 = 0 * b + phigh
          /\ phigh \in 0..(b - 1) /\ 0 \in Nat
      BY <3>1, WordSize
    <3>3. QED BY <2>1, <3>1, <3>2, PowerZero DEF DivInv
  <2>3. QED BY <2>2 DEF Reached
<1>2. ASSUME NEW k \in Nat, k \in A PROVE k + 1 \in A
  <2> SUFFICES ASSUME k + 1 <= W PROVE Reached(f[k + 1], k + 1, plow, phigh, b)
    OBVIOUS
  <2>1. k \in 0..(W - 1) /\ k + 1 \in 1..W /\ (k + 1) - 1 = k
    BY WordAssumption
  <2>2. Reached(f[k], k, plow, phigh, b)
    BY <1>2, <2>1, WordAssumption
  <2>3. PICK a0, a1, q, rest, t :
          a0 \in Word /\ f[k] = [a0 |-> a0, a1 |-> a1] /\ DivInv([a0 |-> a0, a1 |-> a1], k, plow, phigh, b, q, rest, t)
    BY <2>2 DEF Reached
  <2>4. PICK s : s = DivStep([a0 |-> a0, a1 |-> a1], b)
    OBVIOUS
  <2>5. f[k + 1] = s
    BY <2>1, <2>3, <2>4
  <2>6. s.a0 \in Word /\ \E q1, rest1, t1 : DivInv(s, k + 1, plow, phigh, b, q1, rest1, t1)
    BY <2>1, <2>3, <2>4, DivStepInv
  <2>7. s = [a0 |-> s.a0, a1 |-> s.a1]
    BY <2>4 DEF DivStep
  <2>8. PICK b0, b1 : b0 \in Word /\ s = [a0 |-> b0, a1 |-> b1]
    BY <2>6, <2>7
  <2>9. \E q1, rest1, t1 : DivInv([a0 |-> b0, a1 |-> b1], k + 1, plow, phigh, b, q1, rest1, t1)
    BY <2>6, <2>8
  <2>10. QED BY <2>5, <2>8, <2>9 DEF Reached
<1>3. Nat \subseteq A
  BY ONLY <1>1, <1>2, Induction
<1>4. QED BY <1>3, WordAssumption

\* What a division promises.
Divides(d, n, b) ==
  /\ d.overflow \in BOOLEAN
  /\ d.overflow <=> n >= b * N
  /\ ~d.overflow => d.low \in Word /\ d.high \in 0..(b - 1) /\ n = d.low * b + d.high

LEMMA Div64Exact ==
  ASSUME NEW plow \in Word, NEW phigh \in Word, NEW b \in Word, b # 0
  PROVE  Divides(div64(plow, phigh, b), phigh * N + plow, b)
<1>0. plow \in Int /\ phigh \in Int /\ b \in Int /\ b > 0 /\ plow \in Nat /\ b \in Nat
  BY WordSize
<1>1. PICK f : /\ f[0] = [a0 |-> plow, a1 |-> phigh]
               /\ \A i \in 1..W : f[i] = DivStep(f[i - 1], b)
               /\ div64(plow, phigh, b) =
                     IF phigh = 0 THEN [overflow |-> FALSE, low |-> plow \div b, high |-> plow % b]
                     ELSE IF phigh >= b THEN [overflow |-> TRUE, low |-> plow, high |-> phigh]
                     ELSE [overflow |-> FALSE, low |-> f[W].a0, high |-> f[W].a1]
  BY DivLoop
<1>2. PICK d : d = div64(plow, phigh, b)
  OBVIOUS
<1>3. CASE phigh = 0
  <2>1. PICK q, r : q = plow \div b /\ r = plow % b
    OBVIOUS
  <2>2. q \in Nat /\ r \in 0..(b - 1) /\ plow = b * q + r
    BY <1>0, <2>1, DivisionOf, QuotientOfWords
  <2>3. d.overflow = FALSE /\ d.low = q /\ d.high = r
    BY <1>1, <1>2, <1>3, <2>1
  <2>4. b * q >= q /\ b * q = q * b /\ b * N >= N
    BY <1>0, <2>2, WordSize
  <2>5. q \in Word /\ phigh * N + plow = plow /\ ~(plow >= b * N)
    BY <1>0, <1>3, <2>2, <2>4, WordSize
  <2>6. QED BY <1>0, <1>2, <2>2, <2>3, <2>4, <2>5 DEF Divides
<1>4. CASE phigh # 0 /\ phigh >= b
  <2>1. d.overflow = TRUE
    BY <1>1, <1>2, <1>4
  <2>2. phigh * N >= b * N
    <3>1. PICK k \in Nat : phigh = b + k
      BY <1>0, <1>4
    <3>2. phigh * N = b * N + k * N /\ k * N >= 0 /\ b * N \in Int
      BY <1>0, <3>1, WordSize
    <3>3. QED BY <1>0, <3>2, WordSize
  <2>3. phigh * N + plow >= b * N
    BY <1>0, <2>2, WordSize
  <2>4. QED BY <1>2, <2>1, <2>3 DEF Divides
<1>5. CASE phigh # 0 /\ phigh < b
  <2>1. Reached(f[W], W, plow, phigh, b)
    BY <1>1, <1>5, DivReached
  <2>2. PICK a0, a1, q, rest, t :
          a0 \in Word /\ f[W] = [a0 |-> a0, a1 |-> a1] /\ DivInv([a0 |-> a0, a1 |-> a1], W, plow, phigh, b, q, rest, t)
    BY <2>1 DEF Reached
  <2>3. W - W = 0 /\ 2^W = N
    BY WordSize DEF N
  <2>4. /\ q \in 0..(N - 1) /\ rest \in 0..(1 - 1) /\ t \in Nat
        /\ plow = t * 1 + rest /\ a0 = rest * N + q
        /\ a1 \in 0..(b - 1)
        /\ phigh * N + t = q * b + a1
    BY <2>2, <2>3, PowerZero DEF DivInv
  <2>5. plow = t /\ a0 = q
    BY <2>4, WordSize
  <2>6. d.overflow = FALSE /\ d.low = a0 /\ d.high = a1
    <3>1. f[W].a0 = a0 /\ f[W].a1 = a1
      BY <2>2
    <3>2. PICK no : no = FALSE
      OBVIOUS
    <3>3. d = [overflow |-> no, low |-> a0, high |-> a1]
      <4>1. ~(phigh = 0) /\ ~(phigh >= b)
        BY <1>0, <1>5
      <4>2. QED BY <1>1, <1>2, <3>1, <3>2, <4>1, Zenon
    <3>4. d.overflow = no /\ d.low = a0 /\ d.high = a1
      BY <3>3
    <3>5. QED BY <3>2, <3>4
  <2>7. a0 * b + a1 = phigh * N + plow
    BY <2>4, <2>5
  <2>8. ~(phigh * N + plow >= b * N)
    <3>1. PICK k \in Nat : k = b - 1 - phigh
      BY <1>0, <1>5
    <3>2. b * N = phigh * N + N + k * N /\ k * N \in Nat /\ phigh * N \in Int
      <4>1. b = phigh + 1 + k
        BY <1>0, <3>1
      <4>2. (phigh + 1 + k) * N = phigh * N + N + k * N
        BY <1>0, WordSize
      <4>3. QED BY <1>0, <4>1, <4>2, WordSize
    <3>3. QED BY <1>0, <3>2, WordSize
  <2>9. QED BY <1>2, <2>2, <2>4, <2>6, <2>7, <2>8 DEF Divides
<1>6. QED BY <1>0, <1>3, <1>4, <1>5

-------------------------------------------------------------------------------
(* idiv64: numbers of two words with a sign.                                 *)

\* The negative of a number of two words.
LEMMA Neg128 ==
  ASSUME NEW plow \in Word, NEW phigh \in Word, phigh >= H
  PROVE  /\ neg128(plow, phigh).low \in Word /\ neg128(plow, phigh).high \in Word
         /\ neg128(plow, phigh).high * N + neg128(plow, phigh).low = -((phigh - N) * N + plow)
<1>0. plow \in Int /\ phigh \in Int /\ N \in Int
  BY WordSize
<1>1. PICK l \in Word : l = Wrap((N - 1 - plow) + 1)
  <2>1. PICK x \in Int : x = (N - 1 - plow) + 1
    BY <1>0
  <2>2. QED BY <2>1, WrapCases
<1>2. l = IF plow = 0 THEN 0 ELSE N - plow
  <2>1. (N - 1 - plow) + 1 = N - plow
    BY <1>0
  <2>2. plow = 0 => N - plow \in N..(2 * N - 1)
    BY WordSize
  <2>3. plow # 0 => N - plow \in 0..(N - 1)
    BY <1>0, WordSize
  <2>4. N - plow \in Int
    BY <1>0
  <2>5. QED BY <1>1, <2>1, <2>2, <2>3, <2>4, WrapCases, WordSize
<1>3. PICK z \in {0, 1} : z = IF l < 1 THEN 1 ELSE 0
  OBVIOUS
<1>4. z = IF plow = 0 THEN 1 ELSE 0
  BY <1>0, <1>2, <1>3, WordSize
<1>5. PICK h \in Word : h = Wrap((N - 1 - phigh) + z)
  <2>1. PICK x \in Int : x = (N - 1 - phigh) + z
    BY <1>0
  <2>2. QED BY <2>1, WrapCases
<1>6. h = N - 1 - phigh + z
  <2>1. (N - 1 - phigh) + z \in 0..(N - 1) /\ (N - 1 - phigh) + z \in Int
    BY <1>0, WordSize
  <2>2. QED BY <1>5, <2>1, WrapCases
<1>7. h * N + l = -((phigh - N) * N + plow)
  <2>1. CASE plow = 0
    <3>1. h = N - phigh /\ l = 0
      BY <1>0, <1>2, <1>4, <1>6, <2>1
    <3>2. (N - phigh) * N + 0 = -((phigh - N) * N + 0)
      BY <1>0
    <3>3. QED BY <2>1, <3>1, <3>2
  <2>2. CASE plow # 0
    <3>1. h = N - 1 - phigh /\ l = N - plow
      BY <1>0, <1>2, <1>4, <1>6, <2>2
    <3>2. (N - 1 - phigh) * N + (N - plow) = -((phigh - N) * N + plow)
      BY <1>0
    <3>3. QED BY <3>1, <3>2
  <2>3. QED BY <2>1, <2>2
<1>8. neg128(plow, phigh) = [low |-> l, high |-> h]
  <2>1. neg128(plow, phigh) =
          [low |-> Wrap((N - 1 - plow) + 1),
           high |-> Wrap((N - 1 - phigh) + (IF Wrap((N - 1 - plow) + 1) < 1 THEN 1 ELSE 0))]
    BY DEF neg128, N
  <2>2. QED BY <1>1, <1>3, <1>5, <2>1
<1>9. neg128(plow, phigh).low = l /\ neg128(plow, phigh).high = h
  BY <1>8
<1>10. QED BY <1>7, <1>9

LEMMA AbsoluteWord ==
  ASSUME NEW b \in Word
  PROVE  LET m == IF Msb(b) = 1 THEN Wrap(-b) ELSE b
         IN m \in Word /\ m = Abs(Signed(b)) /\ (Signed(b) < 0 <=> Msb(b) = 1)
<1>0. b \in Int /\ -b \in Int
  BY WordSize
<1>1. PICK s \in Int : s = Signed(b)
  BY SignedInt
<1>2. s = IF b >= H THEN b - N ELSE b
  BY <1>1, SignedN
<1>3. b >= H => Wrap(-b) = N - b
  <2>1. b >= H => -b \in (-N)..(-1)
    BY <1>0, WordSize
  <2>2. QED BY <1>0, <2>1, WrapCases, WordSize
<1>4. Abs(s) = IF s < 0 THEN -s ELSE s
  BY DEF Abs
<1>5. CASE b >= H
  <2>1. Msb(b) = 1 /\ s < 0 /\ Abs(s) = N - b /\ N - b \in Word
    BY <1>0, <1>2, <1>4, <1>5, MsbN, WordSize
  <2>2. QED BY <1>1, <1>3, <1>5, <2>1
<1>6. CASE b < H
  <2>1. Msb(b) # 1 /\ ~(s < 0) /\ Abs(s) = b
    BY <1>0, <1>2, <1>4, <1>6, MsbN, WordSize
  <2>2. QED BY <1>1, <1>6, <2>1
<1>7. QED BY <1>0, <1>5, <1>6, WordSize

\* The sign of a quotient and of a remainder.
LEMMA QuotientOfSigned ==
  ASSUME NEW n \in Int, NEW d \in Int, d # 0, NEW Q \in Nat, NEW R \in Nat,
         R < Abs(d), Abs(n) = Q * Abs(d) + R
  PROVE  /\ Div(n, d) = IF (n < 0) # (d < 0) THEN -Q ELSE Q
         /\ n - Div(n, d) * d = IF n < 0 THEN -R ELSE R
<1>1. PICK an \in Nat : an = Abs(n) /\ an = IF n < 0 THEN -n ELSE n
  BY DEF Abs
<1>2. PICK ad \in Nat : ad = Abs(d) /\ ad = (IF d < 0 THEN -d ELSE d) /\ ad > 0
  BY DEF Abs
<1>3. an \div ad = Q
  <2>1. ad * Q = Q * ad /\ R \in 0..(ad - 1)
    BY <1>2
  <2>2. an = ad * Q + R
    BY <1>1, <1>2, <2>1
  <2>3. (ad * Q + R) \div ad = Q
    BY <1>2, <2>1
  <2>4. QED BY <2>2, <2>3
<1>4. Div(n, d) = Sign(n) * Sign(d) * Q
  BY <1>1, <1>2, <1>3 DEF Div
<1>5. PICK q \in Int : q = IF (n < 0) # (d < 0) THEN -Q ELSE Q
  OBVIOUS
<1>6. Div(n, d) = q
  <2>1. n < 0 => Sign(n) = -1
    BY DEF Sign
  <2>2. ~(n < 0) => Sign(n) = 1
    BY DEF Sign
  <2>3. d < 0 => Sign(d) = -1
    BY DEF Sign
  <2>4. ~(d < 0) => Sign(d) = 1
    BY DEF Sign
  <2>5. (-1) * (-1) * Q = Q /\ 1 * (-1) * Q = -Q /\ (-1) * 1 * Q = -Q /\ 1 * 1 * Q = Q
    OBVIOUS
  <2>6. QED BY <1>4, <1>5, <2>1, <2>2, <2>3, <2>4, <2>5
<1>7. PICK p \in Int : p = Q * ad
  BY <1>2
<1>8. q * d = IF n < 0 THEN -p ELSE p
  <2>1. (-Q) * (-ad) = Q * ad /\ (-Q) * ad = -(Q * ad) /\ Q * (-ad) = -(Q * ad)
    BY <1>2
  <2>2. CASE d < 0
    <3>1. d = -ad
      BY <1>2, <2>2
    <3>2. QED BY <1>5, <1>7, <2>1, <2>2, <3>1
  <2>3. CASE ~(d < 0)
    <3>1. d = ad
      BY <1>2, <2>3
    <3>2. QED BY <1>5, <1>7, <2>1, <2>3, <3>1
  <2>4. QED BY <2>2, <2>3
<1>9. n - q * d = IF n < 0 THEN -R ELSE R
  BY <1>1, <1>2, <1>7, <1>8
<1>10. QED BY <1>5, <1>6, <1>9

LEMMA QuotientAndRest ==
  ASSUME NEW a \in Nat, NEW d \in Nat, d > 0
  PROVE  \E q \in Nat, r \in 0..(d - 1) : a = q * d + r
<1>1. a \div d \in Nat /\ (a % d) = a - (a \div d) * d /\ (a % d) \in 0..(d - 1)
  BY QuotientOfWords
<1>2. PICK q \in Nat : q = a \div d
  BY <1>1
<1>3. PICK r \in 0..(d - 1) : r = a - q * d
  BY <1>1, <1>2
<1>4. a = q * d + r
  BY <1>3
<1>5. QED BY <1>4

LEMMA QuotientTooLarge ==
  ASSUME NEW n \in Int, NEW d \in Int, d # 0, Abs(n) >= Abs(d) * N
  PROVE  Div(n, d) \in Int /\ ~Processor!Fits(Div(n, d))
<1>1. PICK an \in Nat : an = Abs(n)
  BY DEF Abs
<1>2. PICK ad \in Nat : ad = Abs(d) /\ ad > 0
  BY DEF Abs
<1>3. PICK Q \in Nat, R \in 0..(ad - 1) : an = Q * ad + R
  BY <1>1, <1>2, QuotientAndRest
<1>4. Q >= N
  <2> SUFFICES ASSUME Q < N PROVE FALSE
    BY WordSize
  <2>1. PICK k \in Nat : N = Q + 1 + k
    <3>1. N - Q - 1 \in Nat /\ N = Q + 1 + (N - Q - 1)
      BY WordSize
    <3>2. QED BY <3>1
  <2>2. ad * N = Q * ad + ad + ad * k /\ ad * k >= 0 /\ Q * ad \in Int /\ ad * k \in Int
    <3>1. ad * (Q + 1 + k) = Q * ad + ad + ad * k
      BY <1>2
    <3>2. QED BY <1>2, <2>1, <3>1
  <2>3. QED BY <1>1, <1>2, <1>3, <2>2
<1>5. Div(n, d) = IF (n < 0) # (d < 0) THEN -Q ELSE Q
  <2>1. R < Abs(d) /\ Abs(n) = Q * Abs(d) + R /\ R \in Nat
    BY <1>1, <1>2, <1>3
  <2>2. QED BY <2>1, QuotientOfSigned
<1>6. QED BY <1>4, <1>5, WordSize DEF Processor!Fits, H, N

-------------------------------------------------------------------------------
(* idiv64 divides.                                                           *)

\* The absolute value of a number of two words.
LEMMA Absolute128 ==
  ASSUME NEW plow \in Word, NEW phigh \in Word
  PROVE  LET num == IF Msb(phigh) = 1 THEN neg128(plow, phigh) ELSE [low |-> plow, high |-> phigh]
             n == Signed(phigh) * N + plow
         IN /\ num.low \in Word /\ num.high \in Word /\ num.high * N + num.low = Abs(n)
            /\ n \in Int /\ (n < 0 <=> Msb(phigh) = 1)
<1>0. plow \in Int /\ phigh \in Int /\ N \in Int
  BY WordSize
<1>1. PICK s \in Int : s = Signed(phigh)
  BY SignedInt
<1>2. s = IF phigh >= H THEN phigh - N ELSE phigh
  BY <1>1, SignedN
<1>3. PICK n \in Int : n = s * N + plow
  BY <1>0
<1>4. Abs(n) = IF n < 0 THEN -n ELSE n
  BY DEF Abs
<1>5. PICK num : num = IF Msb(phigh) = 1 THEN neg128(plow, phigh) ELSE [low |-> plow, high |-> phigh]
  OBVIOUS
<1>6. CASE phigh >= H
  <2>1. Msb(phigh) = 1 /\ s = phigh - N
    BY <1>2, <1>6, MsbN
  <2>2. num.low \in Word /\ num.high \in Word /\ num.high * N + num.low = -((phigh - N) * N + plow)
    BY <1>5, <1>6, <2>1, Neg128
  <2>3. n < 0
    <3>1. PICK k \in Nat : N - phigh = 1 + k
      <4>1. N - phigh - 1 \in Nat /\ N - phigh = 1 + (N - phigh - 1)
        BY <1>0, WordSize
      <4>2. QED BY <4>1
    <3>2. phigh - N = -(1 + k)
      BY <1>0, <3>1
    <3>3. s * N = -N - k * N /\ k * N >= 0 /\ k * N \in Int
      <4>1. (-(1 + k)) * N = -N - k * N /\ k * N >= 0 /\ k * N \in Int
        BY <1>0, WordSize
      <4>2. QED BY <2>1, <3>2, <4>1
    <3>4. QED BY <1>0, <1>3, <3>3, WordSize
  <2>4. num.high * N + num.low = -n
    BY <1>3, <2>1, <2>2
  <2>5. QED BY <1>1, <1>3, <1>4, <1>5, <2>1, <2>2, <2>3, <2>4
<1>7. CASE phigh < H
  <2>1. Msb(phigh) # 1 /\ s = phigh
    BY <1>0, <1>2, <1>7, MsbN, WordSize
  <2>2. num.low = plow /\ num.high = phigh
    BY <1>5, <2>1
  <2>3. phigh * N >= 0
    BY <1>0, WordSize
  <2>4. ~(n < 0) /\ n = phigh * N + plow
    BY <1>0, <1>3, <2>1, <2>3, WordSize
  <2>5. QED BY <1>1, <1>3, <1>4, <1>5, <2>1, <2>2, <2>4
<1>8. QED BY <1>0, <1>6, <1>7, WordSize

\* What a signed division promises.
DividesSigned(d, n, b) ==
  /\ d.overflow \in BOOLEAN
  /\ d.overflow <=> ~Processor!Fits(Div(n, b))
  /\ ~d.overflow => d.low = Wrap(Div(n, b)) /\ d.high = Wrap(n - Div(n, b) * b)

LEMMA Idiv64Exact ==
  ASSUME NEW plow \in Word, NEW phigh \in Word, NEW b \in Word, b # 0
  PROVE  DividesSigned(idiv64(plow, phigh, b), Signed(phigh) * N + plow, Signed(b))
<1>1. PICK num : num = IF Msb(phigh) = 1 THEN neg128(plow, phigh) ELSE [low |-> plow, high |-> phigh]
  OBVIOUS
<1>2. PICK m : m = IF Msb(b) = 1 THEN Wrap(-b) ELSE b
  OBVIOUS
<1>3. PICK d : d = div64(num.low, num.high, m)
  OBVIOUS
<1>4. PICK sa \in BOOLEAN, sb \in BOOLEAN : (sa <=> Msb(phigh) = 1) /\ (sb <=> Msb(b) = 1)
  OBVIOUS
<1>5. PICK tooLarge \in BOOLEAN :
        tooLarge <=> IF (Msb(phigh) = 1) # (Msb(b) = 1) THEN d.low > 2^(W - 1) ELSE d.low >= 2^(W - 1)
  OBVIOUS
<1>6. PICK e : e = idiv64(plow, phigh, b)
  OBVIOUS
<1>7. e = [overflow |-> d.overflow \/
                        (IF (Msb(phigh) = 1) # (Msb(b) = 1) THEN d.low > 2^(W - 1) ELSE d.low >= 2^(W - 1)),
           low |-> IF (Msb(phigh) = 1) # (Msb(b) = 1) THEN Wrap(-d.low) ELSE d.low,
           high |-> IF Msb(phigh) = 1 THEN Wrap(-d.high) ELSE d.high]
  BY <1>1, <1>2, <1>3, <1>6, Zenon DEF idiv64
<1>8. /\ e.overflow = (d.overflow \/
                        (IF (Msb(phigh) = 1) # (Msb(b) = 1) THEN d.low > 2^(W - 1) ELSE d.low >= 2^(W - 1)))
      /\ e.low = (IF (Msb(phigh) = 1) # (Msb(b) = 1) THEN Wrap(-d.low) ELSE d.low)
      /\ e.high = (IF Msb(phigh) = 1 THEN Wrap(-d.high) ELSE d.high)
  BY <1>7, Zenon
<1>9. PICK n \in Int : n = Signed(phigh) * N + plow
  BY Absolute128
<1>10. num.low \in Word /\ num.high \in Word /\ num.high * N + num.low = Abs(n) /\ (n < 0 <=> sa)
  BY <1>1, <1>4, <1>9, Absolute128
<1>11. PICK y \in Int : y = Signed(b)
  BY SignedInt
<1>12. m \in Word /\ m = Abs(y) /\ (y < 0 <=> sb)
  BY <1>2, <1>4, <1>11, AbsoluteWord
<1>13. y # 0 /\ m # 0
  <2>1. y # 0
    BY <1>11, SignedN, WordSize
  <2>2. QED BY <1>12, <2>1 DEF Abs
<1>14. Divides(d, Abs(n), m)
  BY <1>3, <1>10, <1>12, <1>13, Div64Exact
<1>15. CASE d.overflow
  <2>1. Abs(n) >= Abs(y) * N
    BY <1>12, <1>14, <1>15 DEF Divides
  <2>2. ~Processor!Fits(Div(n, y))
    BY <1>13, <2>1, QuotientTooLarge
  <2>3. e.overflow = TRUE
    BY <1>8, <1>15, Zenon
  <2>4. QED BY <1>6, <1>9, <1>11, <2>2, <2>3 DEF DividesSigned
<1>16. CASE ~d.overflow
  <2>1. PICK Q \in Word, R \in 0..(m - 1) : d.low = Q /\ d.high = R /\ Abs(n) = Q * m + R
    BY <1>14, <1>16 DEF Divides
  <2>2. Q \in Nat /\ R \in Nat /\ R \in Word /\ m \in Int /\ R < Abs(y) /\ Abs(n) = Q * Abs(y) + R
    BY <1>12, <2>1, WordSize
  <2>3. /\ Div(n, y) = IF (n < 0) # (y < 0) THEN -Q ELSE Q
        /\ n - Div(n, y) * y = IF n < 0 THEN -R ELSE R
    BY <1>13, <2>2, QuotientOfSigned
  <2>4. PICK q \in Int, r \in Int : q = Div(n, y) /\ r = n - q * y
    BY <2>2, <2>3
  <2>5. q = (IF sa # sb THEN -Q ELSE Q) /\ r = (IF sa THEN -R ELSE R)
    BY <1>10, <1>12, <2>3, <2>4
  <2>6. e.low = (IF sa # sb THEN Wrap(-Q) ELSE Q) /\ e.high = (IF sa THEN Wrap(-R) ELSE R)
    BY <1>4, <1>8, <2>1
  <2>7. e.low = Wrap(q) /\ e.high = Wrap(r)
    BY <2>2, <2>5, <2>6, WrapCases, WordSize
  <2>8. Processor!Fits(q) <=> q \in (-H)..(H - 1)
    BY DEF Processor!Fits, H
  <2>11. e.overflow \in BOOLEAN
    BY <1>8, Zenon
  <2>13. e.overflow <=> IF (Msb(phigh) = 1) # (Msb(b) = 1) THEN d.low > 2^(W - 1) ELSE d.low >= 2^(W - 1)
    BY <1>8, <1>16, Zenon
  <2>9. e.overflow <=> IF sa # sb THEN Q > H ELSE Q >= H
    BY <1>4, <2>1, <2>13 DEF H
  <2>10. e.overflow <=> ~Processor!Fits(q)
    BY <2>2, <2>5, <2>8, <2>9, WordSize
  <2>12. QED BY <1>6, <1>9, <1>11, <2>4, <2>7, <2>10, <2>11 DEF DividesSigned
<1>17. QED BY <1>15, <1>16

-------------------------------------------------------------------------------
(* DIVQ and IDIVQ.                                                           *)

LEMMA Div64Step ==
  ASSUME CpuInv, Div64
  PROVE  CpuInv' /\ Processor!Next
<1>1. PICK i \in Available : Div64!(i)
  BY DEF Div64
<1>2. Executes(i, {"DIVQ", "IDIVQ"}) /\ UNCHANGED cc
  BY <1>1
<1>3. i.op \in {"DIVQ", "IDIVQ"} /\ i.src \in Word /\ lo \in Word /\ hi \in Word
  BY <1>2, FetchedPlain DEF CpuInv, TypeOK
<1>4. CASE i.op = "DIVQ"
  <2>1. PICK n \in Nat : n = hi * N + lo /\ n = N * hi + lo
    BY <1>3, DoubleWord
  <2>2. PICK d \in Nat : d = i.src
    BY <1>3, WordSize
  <2>3. PICK q \in Nat : q = IF d = 0 THEN 0 ELSE n \div d
    BY <2>2, QuotientOfWords
  <2>4. PICK inRange \in BOOLEAN : inRange <=> (d # 0 /\ q \in Word)
    OBVIOUS
  <2>5. Processor!Effect(i) = Processor!Divide(n, d, q, inRange)
    <3>1. Processor!Effect(i) = Processor!Divide(2^W * hi + lo, i.src,
             IF i.src = 0 THEN 0 ELSE (2^W * hi + lo) \div i.src,
             i.src # 0 /\ (2^W * hi + lo) \div i.src \in Processor!Word)
      BY <1>4 DEF Processor!Effect
    <3>2. n = 2^W * hi + lo
      BY <2>1 DEF N
    <3>3. inRange = (i.src # 0 /\ (2^W * hi + lo) \div i.src \in Processor!Word)
      BY <2>2, <2>3, <2>4, <3>2, SameNames
    <3>4. QED BY <2>2, <2>3, <3>1, <3>2, <3>3
  <2>6. IF d = 0 \/ ~inRange THEN Raise
        ELSE lo' = Wrap(q) /\ hi' = Wrap(n - q * d) /\ UNCHANGED fault /\ decimal' = None
    <3>1. CASE d = 0
      BY <1>1, <2>2, <3>1
    <3>2. CASE d # 0
      <4>1. PICK e : e = div64(lo, hi, i.src)
        OBVIOUS
      <4>2. IF e.overflow THEN Raise ELSE Quotient(e.low, e.high)
        BY <1>1, <1>4, <2>2, <3>2, <4>1
      <4>3. Divides(e, n, d)
        BY <1>3, <2>1, <2>2, <3>2, <4>1, Div64Exact
      <4>4. q = n \div d /\ q \in Nat /\ (n % d) \in 0..(d - 1) /\ (n % d) = n - q * d
        BY <2>3, <3>2, QuotientOfWords
      <4>5. CASE e.overflow
        <5>1. n >= d * N
          BY <4>3, <4>5 DEF Divides
        <5>2. q \notin Word
          <6> SUFFICES ASSUME q <= N - 1 PROVE FALSE
            BY WordSize
          <6>1. PICK k \in Nat : N = q + 1 + k
            <7>1. N - q - 1 \in Nat /\ N = q + 1 + (N - q - 1)
              BY WordSize
            <7>2. QED BY <7>1
          <6>2. d * N = q * d + d + d * k /\ d * k >= 0 /\ q * d \in Int /\ d * k \in Int
            <7>1. d * (q + 1 + k) = q * d + d + d * k
              OBVIOUS
            <7>2. QED BY <6>1, <7>1
          <6>3. QED BY <4>4, <5>1, <6>2
        <5>3. QED BY <2>4, <4>2, <4>5, <5>2
      <4>6. CASE ~e.overflow
        <5>1. PICK Q \in Word, R \in 0..(d - 1) : e.low = Q /\ e.high = R /\ n = Q * d + R
          BY <4>3, <4>6 DEF Divides
        <5>2. Q = q
          <6>1. Q \in Nat /\ R \in Int
            BY <5>1, WordSize
          <6>2. Q * d = d * Q /\ d \in Nat /\ d > 0
            BY <3>2, <6>1
          <6>3. (d * Q + R) \div d = Q
            BY <6>1, <6>2
          <6>4. QED BY <4>4, <5>1, <6>2, <6>3
        <5>3. R = n - q * d
          <6>1. Q * d \in Int
            BY <5>1, WordSize
          <6>2. QED BY <5>1, <5>2, <6>1
        <5>4. Quotient(q, n - q * d)
          BY <4>2, <4>6, <5>1, <5>2, <5>3
        <5>5. inRange
          BY <2>4, <3>2, <5>1, <5>2
        <5>6. QED BY <3>2, <5>4, <5>5 DEF Quotient, NotDecimal
      <4>7. QED BY <4>5, <4>6
    <3>3. QED BY <3>1, <3>2
  <2>7. QED BY <1>2, <1>3, <2>5, <2>6, DividesStep
<1>5. CASE i.op = "IDIVQ"
  <2>1. PICK n \in Int : n = Signed(hi) * N + lo /\ n = N * Signed(hi) + lo
    BY <1>3, SignedInt, WordSize
  <2>2. PICK d \in Int : d = Signed(i.src)
    BY <1>3, SignedInt
  <2>3. d = 0 <=> i.src = 0
    BY <1>3, <2>2, SignedN, WordSize
  <2>4. PICK q \in Int : q = IF d = 0 THEN 0 ELSE Div(n, d)
    BY SignedQuotient
  <2>5. PICK inRange \in BOOLEAN : inRange <=> Processor!Fits(q)
    BY DEF Processor!Fits
  <2>6. Processor!Effect(i) = Processor!Divide(n, d, q, inRange)
    <3>1. PICK squot : squot = IF i.src = 0 THEN 0
             ELSE Processor!Quot(2^W * Processor!Signed(hi) + lo, Processor!Signed(i.src))
      OBVIOUS
    <3>2. Processor!Effect(i) = Processor!Divide(2^W * Processor!Signed(hi) + lo, Processor!Signed(i.src),
                                                  squot, Processor!Fits(squot))
      BY <1>5, <3>1 DEF Processor!Effect
    <3>3. n = 2^W * Processor!Signed(hi) + lo /\ d = Processor!Signed(i.src)
      BY <2>1, <2>2, SameNames DEF N
    <3>4. squot = q
      BY <2>3, <2>4, <3>1, <3>3, SignedQuotient
    <3>5. inRange = Processor!Fits(squot)
      BY <2>5, <3>4 DEF Processor!Fits
    <3>6. QED BY <3>2, <3>3, <3>4, <3>5
  <2>7. IF d = 0 \/ ~inRange THEN Raise
        ELSE lo' = Wrap(q) /\ hi' = Wrap(n - q * d) /\ UNCHANGED fault /\ decimal' = None
    <3>1. CASE d = 0
      BY <1>1, <2>3, <3>1
    <3>2. CASE d # 0
      <4>1. PICK e : e = idiv64(lo, hi, i.src)
        OBVIOUS
      <4>2. IF e.overflow THEN Raise ELSE Quotient(e.low, e.high)
        BY <1>1, <1>5, <2>3, <3>2, <4>1
      <4>3. DividesSigned(e, n, d)
        BY <1>3, <2>1, <2>2, <2>3, <3>2, <4>1, Idiv64Exact
      <4>4. q = Div(n, d)
        BY <2>4, <3>2
      <4>5. CASE e.overflow
        <5>1. ~inRange
          BY <2>5, <4>3, <4>4, <4>5 DEF DividesSigned
        <5>2. QED BY <4>2, <4>5, <5>1
      <4>6. CASE ~e.overflow
        <5>1. inRange /\ e.low = Wrap(q) /\ e.high = Wrap(n - q * d)
          BY <2>5, <4>3, <4>4, <4>6 DEF DividesSigned
        <5>2. Wrap(Wrap(q)) = Wrap(q) /\ Wrap(Wrap(n - q * d)) = Wrap(n - q * d)
          <6>1. PICK x \in Int : x = n - q * d
            OBVIOUS
          <6>2. \A z \in Int : Wrap(Wrap(z)) = Wrap(z)
            BY WrapCases, WordSize
          <6>3. QED BY <6>1, <6>2
        <5>3. QED BY <3>2, <4>2, <4>6, <5>1, <5>2 DEF Quotient, NotDecimal
      <4>7. QED BY <4>5, <4>6
    <3>3. QED BY <3>1, <3>2
  <2>8. QED BY <1>2, <1>3, <2>6, <2>7, DividesStep
<1>6. QED BY <1>3, <1>4, <1>5

-------------------------------------------------------------------------------
(* Bits of a number.                                                         *)

Ones(x) == {i \in 0..(W - 1) : Bit(x, i) = 1}

LEMMA OnesIs == \A x : Processor!OneBits(x) = Ones(x)
  BY DEF Processor!OneBits, Ones, Bit

LEMMA BitValue ==
  ASSUME NEW x \in Int, NEW j \in 0..W
  PROVE  Bit(x, j) \in {0, 1}
<1>1. PICK P \in Nat : P = 2^j /\ P > 0
  BY Powers
<1>2. PICK q \in Int : q = x \div P
  BY <1>1
<1>3. (q % 2) \in {0, 1}
  OBVIOUS
<1>4. QED BY <1>1, <1>2, <1>3 DEF Bit

\* Multiples of a power do not change the bits below it.
LEMMA BitLow ==
  ASSUME NEW b \in 0..W, NEW j \in 0..(b - 1), NEW K \in Nat, NEW l \in Nat
  PROVE  Bit(K * 2^b + l, j) = Bit(l, j)
<1>1. b = (j + 1) + (b - (j + 1)) /\ j + 1 \in Nat /\ b - (j + 1) \in Nat /\ j \in 0..W /\ j + 1 \in 0..W
      /\ b - (j + 1) \in 0..W /\ (j + 1) + (b - (j + 1)) <= W
  BY WordAssumption
<1>2. PICK J \in Nat : J = 2^j /\ J > 0 /\ 2^(j + 1) = 2 * J
  BY <1>1, Powers, PowersOfTwo
<1>3. PICK M \in Nat : M = 2^(b - (j + 1))
  BY <1>1, Powers
<1>4. 2^b = (2 * J) * M
  BY <1>1, <1>2, <1>3, PowerSum
<1>5. PICK q \in Nat, r \in 0..(J - 1) : l = q * J + r
  BY <1>2, QuotientAndRest
<1>6. PICK KM \in Nat : KM = K * M
  BY <1>3
<1>7. K * ((2 * J) * M) = J * (2 * KM) /\ q * J = J * q
  BY <1>2, <1>3, <1>5, <1>6
<1>8. K * 2^b + l = J * (2 * KM + q) + r
  <2>1. J * (2 * KM + q) = J * (2 * KM) + J * q
    BY <1>2, <1>5, <1>6
  <2>2. QED BY <1>4, <1>5, <1>7, <2>1
<1>9. (J * (2 * KM + q) + r) \div J = 2 * KM + q
  BY <1>2, <1>5, <1>6
<1>10. l \div J = q
  <2>1. (J * q + r) \div J = q
    BY <1>2, <1>5
  <2>2. QED BY <1>5, <1>7, <2>1
<1>11. (2 * KM + q) % 2 = q % 2
  BY <1>5, <1>6
<1>12. QED BY <1>2, <1>8, <1>9, <1>10, <1>11 DEF Bit

\* What is below a power does not change the bits above it.
LEMMA BitHigh ==
  ASSUME NEW b \in 0..W, NEW j \in b..(W - 1), NEW h \in Nat, NEW l \in 0..(2^b - 1)
  PROVE  Bit(h * 2^b + l, j) = Bit(h, j - b)
<1>1. j = b + (j - b) /\ j - b \in 0..W /\ b \in Nat /\ j - b \in Nat /\ b + (j - b) <= W
  BY WordAssumption
<1>2. PICK P \in Nat : P = 2^b /\ P > 0
  BY Powers
<1>3. PICK M \in Nat : M = 2^(j - b) /\ M > 0
  BY <1>1, Powers
<1>4. 2^j = P * M
  BY <1>1, <1>2, <1>3, PowerSum
<1>5. PICK q \in Nat, r \in 0..(M - 1) : h = q * M + r
  BY <1>3, QuotientAndRest
<1>6. PICK J \in Nat : J = P * M /\ J > 0
  BY <1>2, <1>3
<1>7. PICK rest \in 0..(J - 1) : rest = r * P + l
  <2>1. PICK k \in Nat : M = r + 1 + k
    <3>1. M - r - 1 \in Nat /\ M = r + 1 + (M - r - 1)
      BY <1>3, <1>5
    <3>2. QED BY <3>1
  <2>2. J = r * P + P + k * P /\ r * P \in Nat /\ k * P \in Nat
    <3>1. P * (r + 1 + k) = r * P + P + k * P /\ r * P \in Nat /\ k * P \in Nat
      BY <1>2, <1>5, <2>1
    <3>2. QED BY <1>6, <2>1, <3>1
  <2>3. l \in 0..(P - 1)
    BY <1>2
  <2>4. r * P + l \in 0..(J - 1)
    BY <1>2, <2>2, <2>3
  <2>5. QED BY <2>4
<1>8. h * P + l = J * q + rest
  <2>1. (q * M + r) * P = (P * M) * q + r * P
    BY <1>2, <1>3, <1>5
  <2>2. J * q \in Nat /\ r * P \in Nat
    BY <1>2, <1>5, <1>6
  <2>3. l \in Int
    BY <1>2
  <2>4. QED BY <1>5, <1>6, <1>7, <2>1, <2>2, <2>3
<1>9. (J * q + rest) \div J = q
  BY <1>5, <1>6, <1>7
<1>10. h \div M = q
  <2>1. (M * q + r) \div M = q /\ M * q = q * M
    BY <1>3, <1>5
  <2>2. QED BY <1>5, <2>1
<1>11. QED BY <1>2, <1>3, <1>4, <1>6, <1>8, <1>9, <1>10 DEF Bit

\* A bit of a number that is split at it.
LEMMA BitAt ==
  ASSUME NEW b \in 0..W, NEW h \in Nat, NEW c \in {0, 1}, NEW l \in 0..(2^b - 1)
  PROVE  Bit((2 * h + c) * 2^b + l, b) = c
<1>1. PICK P \in Nat : P = 2^b /\ P > 0
  BY Powers
<1>2. (P * (2 * h + c) + l) \div P = 2 * h + c
  BY <1>1
<1>3. P * (2 * h + c) = (2 * h + c) * P
  BY <1>1
<1>4. (2 * h + c) % 2 = c
  OBVIOUS
<1>5. QED BY <1>1, <1>2, <1>3, <1>4 DEF Bit

-------------------------------------------------------------------------------
(* Numbers that differ in one bit.                                           *)

\* A number around one of its bits.
LEMMA Around ==
  ASSUME NEW x \in Word, NEW b \in 0..(W - 1)
  PROVE  \E h \in Nat, c \in {0, 1}, l \in 0..(2^b - 1) :
           x = (2 * h + c) * 2^b + l /\ (h + 1) * (2 * 2^b) <= N
<1>1. W = (b + 1) + (W - (b + 1)) /\ b + 1 \in Nat /\ W - (b + 1) \in Nat /\ b \in 0..W /\ W - (b + 1) \in 0..W
      /\ (b + 1) + (W - (b + 1)) <= W
  BY WordAssumption
<1>2. PICK P \in Nat : P = 2^b /\ P > 0 /\ 2^(b + 1) = 2 * P
  BY <1>1, Powers, PowersOfTwo
<1>3. PICK M \in Nat : M = 2^(W - (b + 1)) /\ M > 0
  BY <1>1, Powers
<1>4. N = (2 * P) * M
  BY <1>1, <1>2, <1>3, PowerSum DEF N
<1>5. PICK q \in Nat, l \in 0..(P - 1) : x = q * P + l
  <2>1. x \in Nat
    BY WordSize
  <2>2. QED BY <1>2, <2>1, QuotientAndRest
<1>6. PICK h \in Nat, c \in 0..(2 - 1) : q = h * 2 + c
  <2>1. q \div 2 \in Nat /\ (q % 2) \in 0..(2 - 1) /\ q = (q \div 2) * 2 + (q % 2)
    BY <1>5
  <2>2. QED BY <2>1
<1>7. h + 1 <= M
  <2> SUFFICES ASSUME h >= M PROVE FALSE
    BY <1>3, <1>6
  <2>1. PICK k \in Nat : h = M + k
    <3>1. h - M \in Nat /\ h = M + (h - M)
      BY <1>3, <1>6
    <3>2. QED BY <3>1
  <2>2. q * P = N + (2 * k + c) * P /\ (2 * k + c) * P \in Nat
    <3>1. q = 2 * M + (2 * k + c)
      BY <1>3, <1>6, <2>1
    <3>2. (2 * M + (2 * k + c)) * P = (2 * P) * M + (2 * k + c) * P /\ (2 * k + c) * P \in Nat
      BY <1>2, <1>3, <1>6, <2>1
    <3>3. QED BY <1>4, <3>1, <3>2
  <2>3. QED BY <1>2, <1>5, <2>2, WordSize
<1>8. (h + 1) * (2 * P) <= N
  <2>1. PICK k \in Nat : M = (h + 1) + k
    <3>1. M - (h + 1) \in Nat /\ M = (h + 1) + (M - (h + 1))
      BY <1>3, <1>6, <1>7
    <3>2. QED BY <3>1
  <2>2. (2 * P) * ((h + 1) + k) = (h + 1) * (2 * P) + (2 * P) * k /\ (2 * P) * k \in Nat
        /\ (h + 1) * (2 * P) \in Nat
    BY <1>2, <1>6, <2>1
  <2>3. QED BY <1>4, <2>1, <2>2
<1>9. c \in {0, 1} /\ q = 2 * h + c
  BY <1>6
<1>10. QED BY <1>2, <1>5, <1>8, <1>9

LEMMA BitsAround ==
  ASSUME NEW b \in 0..(W - 1), NEW h \in Nat, NEW c \in {0, 1}, NEW l \in 0..(2^b - 1),
         (h + 1) * (2 * 2^b) <= N
  PROVE  /\ (2 * h + c) * 2^b + l \in Word
         /\ Bit((2 * h + c) * 2^b + l, b) = c
         /\ \A j \in 0..(b - 1) : Bit((2 * h + c) * 2^b + l, j) = Bit(l, j)
         /\ \A j \in (b + 1)..(W - 1) : Bit((2 * h + c) * 2^b + l, j) = Bit(h, j - (b + 1))
<1>1. b + 1 \in 0..W /\ b \in 0..W
  BY WordAssumption
<1>2. PICK P \in Nat : P = 2^b /\ P > 0 /\ 2^(b + 1) = 2 * P
  BY <1>1, Powers, PowersOfTwo
<1>3. PICK x \in Nat : x = (2 * h + c) * P + l
  <2>1. (2 * h + c) * P \in Nat /\ l \in Nat
    BY <1>2
  <2>2. QED BY <2>1
<1>4. x \in Word
  <2>1. (h + 1) * (2 * P) = (2 * h + c) * P + (2 - c) * P /\ (2 * h + c) * P \in Int /\ (2 - c) * P \in Int
    BY <1>2
  <2>2. (2 - c) * P >= P
    BY <1>2
  <2>3. (h + 1) * (2 * P) <= N /\ l \in 0..(P - 1)
    BY <1>2
  <2>4. x <= N - 1
    BY <1>2, <1>3, <2>1, <2>2, <2>3, WordSize
  <2>5. QED BY <1>3, <2>4, WordSize
<1>5. Bit(x, b) = c
  BY <1>1, <1>2, <1>3, BitAt
<1>6. ASSUME NEW j \in 0..(b - 1) PROVE Bit(x, j) = Bit(l, j)
  <2>1. PICK K \in Nat : K = 2 * h + c
    OBVIOUS
  <2>2. l \in Nat
    BY <1>2
  <2>3. QED BY <1>1, <1>2, <1>3, <2>1, <2>2, BitLow
<1>7. ASSUME NEW j \in (b + 1)..(W - 1) PROVE Bit(x, j) = Bit(h, j - (b + 1))
  <2>1. PICK d \in 0..W : d = b + 1
    BY <1>1
  <2>2. PICK r \in 0..(2 * P - 1) : r = c * P + l
    <3>1. l \in 0..(P - 1)
      BY <1>2
    <3>2. c = 0 => c * P = 0
      BY <1>2
    <3>3. c = 1 => c * P = P
      BY <1>2
    <3>4. QED BY <1>2, <3>1, <3>2, <3>3
  <2>3. x = h * (2 * P) + r
    <3>1. (2 * h + c) * P = h * (2 * P) + c * P /\ h * (2 * P) \in Int /\ c * P \in Int
      BY <1>2
    <3>2. l \in Int
      BY <1>2
    <3>3. QED BY <1>3, <2>2, <3>1, <3>2
  <2>4. r \in 0..(2^d - 1) /\ x = h * 2^d + r /\ j \in d..(W - 1)
    BY <1>2, <2>1, <2>2, <2>3
  <2>5. Bit(x, j) = Bit(h, j - d)
    BY <2>4, BitHigh
  <2>6. QED BY <2>1, <2>5
<1>8. QED BY <1>2, <1>3, <1>4, <1>5, <1>6, <1>7

\* Subtracting or adding a power removes or adds one bit.
LEMMA ChangeBit ==
  ASSUME NEW x \in Word, NEW b \in 0..(W - 1), NEW c \in {0, 1}, NEW y,
         y = x + (c - Bit(x, b)) * 2^b
  PROVE  y \in Word /\ Bit(y, b) = c /\ \A j \in 0..(W - 1) : j # b => Bit(y, j) = Bit(x, j)
<1>1. PICK h \in Nat, a \in {0, 1}, l \in 0..(2^b - 1) :
        x = (2 * h + a) * 2^b + l /\ (h + 1) * (2 * 2^b) <= N
  BY Around
<1>2. Bit(x, b) = a
  BY <1>1, BitsAround
<1>3. y = (2 * h + c) * 2^b + l
  <2>1. PICK P \in Nat : P = 2^b
    BY Powers, WordAssumption
  <2>2. (2 * h + a) * P + (c - a) * P = (2 * h + c) * P /\ (2 * h + a) * P \in Int /\ (c - a) * P \in Int
    BY <2>1
  <2>3. l \in Int
    BY <2>1
  <2>4. QED BY <1>1, <1>2, <2>1, <2>2, <2>3
<1>4. y \in Word /\ Bit(y, b) = c
  <2>1. (2 * h + c) * 2^b + l \in Word /\ Bit((2 * h + c) * 2^b + l, b) = c
    BY <1>1, BitsAround, Zenon
  <2>2. QED BY <1>3, <2>1
<1>5. /\ \A j \in 0..(b - 1) : Bit((2 * h + c) * 2^b + l, j) = Bit(l, j)
      /\ \A j \in (b + 1)..(W - 1) : Bit((2 * h + c) * 2^b + l, j) = Bit(h, j - (b + 1))
  BY <1>1, BitsAround, Zenon
<1>6. /\ \A j \in 0..(b - 1) : Bit((2 * h + a) * 2^b + l, j) = Bit(l, j)
      /\ \A j \in (b + 1)..(W - 1) : Bit((2 * h + a) * 2^b + l, j) = Bit(h, j - (b + 1))
  BY <1>1, BitsAround, Zenon
<1>7. ASSUME NEW j \in 0..(W - 1), j # b PROVE Bit(y, j) = Bit(x, j)
  <2>1. j \in 0..(b - 1) \/ j \in (b + 1)..(W - 1)
    BY <1>7, WordAssumption
  <2>2. CASE j \in 0..(b - 1)
    BY <1>1, <1>3, <1>5, <1>6, <2>2, Zenon
  <2>3. CASE j \in (b + 1)..(W - 1)
    BY <1>1, <1>3, <1>5, <1>6, <2>3, Zenon
  <2>4. QED BY <2>1, <2>2, <2>3
<1>8. QED BY <1>4, <1>7

-------------------------------------------------------------------------------
(* Numbers and sets of bits.                                                 *)

\* Numbers with the same bits are equal.
LEMMA SameBits ==
  ASSUME NEW x \in Word, NEW y \in Word, Ones(x) = Ones(y)
  PROVE  x = y
<1> DEFINE Same(n) == \A u, v \in 0..(2^n - 1) : (\A j \in 0..(n - 1) : Bit(u, j) = Bit(v, j)) => u = v
           A == {n \in Nat : n <= W => Same(n)}
<1>1. 0 \in A
  <2>1. Same(0)
    BY PowerZero
  <2>2. QED BY <2>1
<1>2. ASSUME NEW n \in Nat, n \in A PROVE n + 1 \in A
  <2> SUFFICES ASSUME n + 1 <= W, NEW u \in 0..(2^(n + 1) - 1), NEW v \in 0..(2^(n + 1) - 1),
                      \A j \in 0..((n + 1) - 1) : Bit(u, j) = Bit(v, j)
               PROVE  u = v
    OBVIOUS
  <2>1. n \in 0..W /\ n <= W /\ n \in 0..(W - 1)
    BY WordAssumption
  <2>2. PICK P \in Nat : P = 2^n /\ P > 0 /\ 2^(n + 1) = 2 * P
    BY <2>1, Powers, PowersOfTwo
  <2>3. \A w \in 0..(2^(n + 1) - 1) : \E a \in {0, 1}, l \in 0..(P - 1) : w = a * P + l
    <3> SUFFICES ASSUME NEW w \in 0..(2 * P - 1) PROVE \E a \in {0, 1}, l \in 0..(P - 1) : w = a * P + l
      BY <2>2
    <3>1. CASE w < P
      <4>1. w \in 0..(P - 1) /\ w = 0 * P + w
        BY <2>2, <3>1
      <4>2. QED BY <4>1
    <3>2. CASE w >= P
      <4>1. w - P \in 0..(P - 1) /\ w = 1 * P + (w - P)
        BY <2>2, <3>2
      <4>2. QED BY <4>1
    <3>3. QED BY <2>2, <3>1, <3>2
  <2>4. PICK a \in {0, 1}, l \in 0..(P - 1) : u = a * P + l
    BY <2>3
  <2>5. PICK b \in {0, 1}, m \in 0..(P - 1) : v = b * P + m
    BY <2>3
  <2>6. Bit(u, n) = a /\ Bit(v, n) = b
    <3>1. (P * a + l) \div P = a /\ (P * b + m) \div P = b /\ P * a = a * P /\ P * b = b * P
      BY <2>2
    <3>2. a % 2 = a /\ b % 2 = b
      OBVIOUS
    <3>3. QED BY <2>2, <2>4, <2>5, <3>1, <3>2 DEF Bit
  <2>7. a = b
    <3>1. n \in 0..((n + 1) - 1)
      OBVIOUS
    <3>2. QED BY <2>6, <3>1
  <2>8. \A j \in 0..(n - 1) : Bit(l, j) = Bit(m, j)
    <3> SUFFICES ASSUME NEW j \in 0..(n - 1) PROVE Bit(l, j) = Bit(m, j)
      OBVIOUS
    <3>1. Bit(a * 2^n + l, j) = Bit(l, j)
      <4>1. a \in Nat /\ l \in Nat
        BY <2>2
      <4>2. QED BY <2>1, <4>1, BitLow
    <3>2. Bit(b * 2^n + m, j) = Bit(m, j)
      <4>1. b \in Nat /\ m \in Nat
        BY <2>2
      <4>2. QED BY <2>1, <4>1, BitLow
    <3>3. Bit(u, j) = Bit(v, j)
      OBVIOUS
    <3>4. QED BY <2>2, <2>4, <2>5, <3>1, <3>2, <3>3
  <2>9. l = m
    <3>1. l \in 0..(2^n - 1) /\ m \in 0..(2^n - 1) /\ Same(n)
      BY <1>2, <2>1, <2>2
    <3>2. QED BY <2>8, <3>1
  <2>10. QED BY <2>4, <2>5, <2>7, <2>9
<1>3. Nat \subseteq A
  BY ONLY <1>1, <1>2, Induction
<1>4. Same(W)
  BY <1>3, WordAssumption
<1>5. \A j \in 0..(W - 1) : Bit(x, j) = Bit(y, j)
  <2> SUFFICES ASSUME NEW j \in 0..(W - 1) PROVE Bit(x, j) = Bit(y, j)
    OBVIOUS
  <2>1. Bit(x, j) \in {0, 1} /\ Bit(y, j) \in {0, 1}
    <3>1. j \in 0..W /\ x \in Int /\ y \in Int
      BY WordSize
    <3>2. QED BY <3>1, BitValue
  <2>2. Bit(x, j) = 1 <=> Bit(y, j) = 1
    BY DEF Ones
  <2>3. QED BY <2>1, <2>2
<1>6. x \in 0..(2^W - 1) /\ y \in 0..(2^W - 1)
  BY DEF Word
<1>7. QED BY <1>4, <1>5, <1>6

LEMMA NoBits ==
  /\ 0 \in Word /\ Ones(0) = {}
  /\ \A x \in Word : Ones(x) = {} <=> x = 0
<1>1. 0 \in Word
  BY WordSize
<1>2. Ones(0) = {}
  <2> SUFFICES ASSUME NEW j \in 0..(W - 1) PROVE Bit(0, j) # 1
    BY DEF Ones
  <2>1. PICK P \in Nat : P = 2^j /\ P > 0
    BY Powers, WordAssumption
  <2>2. 0 \div P = 0 /\ 0 % 2 = 0
    BY <2>1
  <2>3. QED BY <2>1, <2>2 DEF Bit
<1>3. QED BY <1>1, <1>2, SameBits

\* A number is the one that its bits make.
LEMMA FromBitsIs ==
  ASSUME NEW x \in Word, NEW S, Ones(x) = S
  PROVE  Processor!FromBits(S) = x
<1>1. PICK z : z = Processor!FromBits(S)
  OBVIOUS
<1>2. z = CHOOSE w \in Word : Ones(w) = S
  BY <1>1, OnesIs, SameNames DEF Processor!FromBits
<1>3. z \in Word /\ Ones(z) = S
  BY <1>2
<1>4. QED BY <1>1, <1>3, SameBits

LEMMA AddBit ==
  ASSUME NEW x \in Word, NEW b \in 0..(W - 1), b \notin Ones(x)
  PROVE  x + 2^b \in Word /\ Ones(x + 2^b) = Ones(x) \cup {b}
<1>1. Bit(x, b) = 0
  <2>1. b \in 0..W /\ x \in Int
    BY WordSize
  <2>2. QED BY <2>1, BitValue DEF Ones
<1>2. PICK P \in Nat : P = 2^b
  BY Powers, WordAssumption
<1>3. PICK y : y = x + (1 - Bit(x, b)) * 2^b
  OBVIOUS
<1>4. y = x + P
  BY <1>1, <1>2, <1>3
<1>5. y \in Word /\ Bit(y, b) = 1 /\ \A j \in 0..(W - 1) : j # b => Bit(y, j) = Bit(x, j)
  BY <1>1, <1>3, ChangeBit
<1>6. Ones(y) = Ones(x) \cup {b}
  BY <1>5 DEF Ones
<1>7. QED BY <1>2, <1>4, <1>5, <1>6

LEMMA RemoveBit ==
  ASSUME NEW x \in Word, NEW b \in Ones(x)
  PROVE  x - 2^b \in Word /\ Ones(x - 2^b) = Ones(x) \ {b}
<1>1. Bit(x, b) = 1 /\ b \in 0..(W - 1)
  BY DEF Ones
<1>2. PICK P \in Nat : P = 2^b
  BY <1>1, Powers, WordAssumption
<1>3. PICK y : y = x + (0 - Bit(x, b)) * 2^b
  OBVIOUS
<1>4. y = x - P
  BY <1>1, <1>2, <1>3, WordSize
<1>5. y \in Word /\ Bit(y, b) = 0 /\ \A j \in 0..(W - 1) : j # b => Bit(y, j) = Bit(x, j)
  BY <1>1, <1>3, ChangeBit
<1>6. Ones(y) = Ones(x) \ {b}
  BY <1>5 DEF Ones
<1>7. QED BY <1>2, <1>4, <1>5, <1>6

\* A set of numbers has a smallest.
LEMMA Smallest ==
  ASSUME NEW S \in SUBSET Nat, S # {}
  PROVE  \E m \in S : \A k \in S : m <= k
<1> SUFFICES ASSUME \A m \in S : \E k \in S : k < m PROVE FALSE
  OBVIOUS
<1> DEFINE A == {n \in Nat : \A k \in S : k >= n}
<1>1. 0 \in A
  OBVIOUS
<1>2. ASSUME NEW n \in Nat, n \in A PROVE n + 1 \in A
  <2> SUFFICES ASSUME NEW k \in S, ~(k >= n + 1) PROVE FALSE
    OBVIOUS
  <2>1. k = n
    BY <1>2
  <2>2. PICK j \in S : j < k
    OBVIOUS
  <2>3. QED BY <1>2, <2>1, <2>2
<1>3. Nat \subseteq A
  BY ONLY <1>1, <1>2, Induction
<1>4. PICK s \in S : TRUE
  OBVIOUS
<1>5. s + 1 \in A
  BY <1>3
<1>6. QED BY <1>5

\* ctz.
LEMMA LowestBit ==
  ASSUME NEW x \in Word, x # 0
  PROVE  /\ ctz(x) \in Ones(x) /\ \A j \in Ones(x) : ctz(x) <= j
         /\ WithoutLowest(x) \in Word /\ Ones(WithoutLowest(x)) = Ones(x) \ {ctz(x)}
<1>1. Ones(x) # {} /\ Ones(x) \in SUBSET Nat
  BY NoBits, WordAssumption DEF Ones
<1>2. PICK m \in Ones(x) : \A k \in Ones(x) : m <= k
  BY <1>1, Smallest
<1>3. m \in 0..(W - 1) /\ Bit(x, m) = 1 /\ \A j \in 0..(m - 1) : Bit(x, j) = 0
  <2>1. m \in 0..(W - 1) /\ Bit(x, m) = 1
    BY DEF Ones
  <2>2. ASSUME NEW j \in 0..(m - 1) PROVE Bit(x, j) = 0
    <3>1. j \in 0..(W - 1) /\ j \notin Ones(x) /\ j \in 0..W /\ x \in Int
      BY <1>2, <2>1, WordSize
    <3>2. QED BY <3>1, BitValue DEF Ones
  <2>3. QED BY <2>1, <2>2
<1>4. PICK c : c = ctz(x)
  OBVIOUS
<1>5. c \in 0..(W - 1) /\ Bit(x, c) = 1 /\ \A j \in 0..(c - 1) : Bit(x, j) = 0
  BY <1>3, <1>4 DEF ctz
<1>6. c \in Ones(x)
  BY <1>5 DEF Ones
<1>7. ASSUME NEW j \in Ones(x) PROVE c <= j
  BY <1>5, WordAssumption DEF Ones
<1>8. WithoutLowest(x) \in Word /\ Ones(WithoutLowest(x)) = Ones(x) \ {c}
  BY <1>4, <1>6, RemoveBit DEF WithoutLowest
<1>9. QED BY <1>4, <1>6, <1>7, <1>8

\* BLSR: all bits but the lowest.
LEMMA AllButLowest ==
  ASSUME NEW x \in Word
  PROVE  LET r == IF x = 0 THEN 0 ELSE WithoutLowest(x)
         IN r \in Word /\ r = Processor!FromBits({b \in Processor!OneBits(x) : \E j \in Processor!OneBits(x) : j < b})
<1>1. PICK S : S = {b \in Ones(x) : \E j \in Ones(x) : j < b}
  OBVIOUS
<1>2. CASE x = 0
  <2>1. S = {} /\ 0 \in Word /\ Ones(0) = S
    BY <1>1, <1>2, NoBits
  <2>2. QED BY <1>1, <1>2, <2>1, FromBitsIs, OnesIs
<1>3. CASE x # 0
  <2>1. PICK r : r = WithoutLowest(x)
    OBVIOUS
  <2>2. PICK c : c = ctz(x)
    OBVIOUS
  <2>3. c \in Ones(x) /\ (\A j \in Ones(x) : c <= j) /\ r \in Word /\ Ones(r) = Ones(x) \ {c}
    BY <1>3, <2>1, <2>2, LowestBit
  <2>4. Ones(x) \in SUBSET Nat
    BY WordAssumption DEF Ones
  <2>5. Ones(x) \ {c} = S
    BY <1>1, <2>3, <2>4
  <2>6. r = Processor!FromBits(S)
    BY <2>3, <2>5, FromBitsIs
  <2>7. QED BY <1>1, <1>3, <2>1, <2>3, <2>6, OnesIs
<1>4. QED BY <1>2, <1>3

-------------------------------------------------------------------------------
(* The loops of helper_pdep and helper_pext, and ranks in a mask.            *)

\* How many elements are below.
RankIn(b, S) == Cardinality({j \in S : j < b})

LEMMA RankIs == \A b, m : Processor!Rank(b, m) = RankIn(b, Ones(m))
<1> SUFFICES ASSUME NEW b, NEW m PROVE Processor!Rank(b, m) = RankIn(b, Ones(m))
  OBVIOUS
<1>1. PICK S : S = {j \in Ones(m) : j < b}
  OBVIOUS
<1>2. Processor!Rank(b, m) = Processor!Cardinality(S)
  BY <1>1, OnesIs, Zenon DEF Processor!Rank
<1>3. QED BY <1>1, <1>2, SameCardinality DEF RankIn

LEMMA BitSets ==
  ASSUME NEW S \in SUBSET (0..(W - 1))
  PROVE  IsFiniteSet(S) /\ Cardinality(S) \in Nat /\ Cardinality(S) <= W
<1>1. 0 \in Int /\ W - 1 \in Int /\ IsFiniteSet(0..(W - 1)) /\ Cardinality(0..(W - 1)) = W
  BY FS_Interval, WordAssumption
<1>2. IsFiniteSet(S) /\ Cardinality(S) <= W
  BY <1>1, FS_Subset
<1>3. QED BY <1>2, FS_CardinalityType

\* The lowest of the remaining elements has as many below it as were removed.
LEMMA RankOfNext ==
  ASSUME NEW M \in SUBSET (0..(W - 1)), NEW K \in SUBSET M, NEW b \in K,
         \A k \in K : b <= k, \A a \in M \ K, k \in K : a < k
  PROVE  /\ RankIn(b, M) = Cardinality(M \ K)
         /\ RankIn(b, M) \in 0..(W - 1)
         /\ Cardinality(M \ (K \ {b})) = RankIn(b, M) + 1
<1>1. M \ K \in SUBSET (0..(W - 1)) /\ b \notin M \ K /\ b \in 0..(W - 1)
  OBVIOUS
<1>2. {j \in M : j < b} = M \ K
  <2>1. ASSUME NEW j \in M PROVE j < b <=> j \notin K
    <3>1. j \in Int /\ b \in Int
      BY WordAssumption
    <3>2. j \in K => ~(j < b)
      BY <3>1
    <3>3. j \notin K => j < b
      OBVIOUS
    <3>4. QED BY <3>2, <3>3
  <2>2. QED BY <2>1
<1>3. RankIn(b, M) = Cardinality(M \ K)
  BY <1>2 DEF RankIn
<1>4. M \ (K \ {b}) = (M \ K) \cup {b}
  OBVIOUS
<1>5. IsFiniteSet(M \ K) /\ Cardinality(M \ K) \in Nat
  BY <1>1, BitSets
<1>6. Cardinality((M \ K) \cup {b}) = Cardinality(M \ K) + 1
  BY <1>1, <1>5, FS_AddElement
<1>7. (M \ K) \cup {b} \in SUBSET (0..(W - 1))
  BY <1>1
<1>8. Cardinality((M \ K) \cup {b}) <= W
  BY <1>7, BitSets
<1>9. PICK r \in Nat : r = Cardinality(M \ K)
  BY <1>5
<1>10. Cardinality(M \ (K \ {b})) = r + 1
  BY <1>4, <1>6, <1>9
<1>11. r + 1 <= W
  BY <1>6, <1>8, <1>9
<1>12. r \in 0..(W - 1)
  BY <1>11, WordAssumption
<1>13. QED BY <1>3, <1>9, <1>10, <1>12

LEMMA RankMonotone ==
  ASSUME NEW M \in SUBSET (0..(W - 1)), NEW a \in M, NEW b \in M, a < b
  PROVE  RankIn(a, M) < RankIn(b, M)
<1>1. PICK A, B : A = {j \in M : j < a} /\ B = {j \in M : j < b}
  OBVIOUS
<1>2. a \in Int /\ b \in Int /\ \A j \in M : j \in Int
  BY WordAssumption
<1>3. A \subseteq B /\ a \in B /\ a \notin A
  <2>1. \A j \in M : j < a => j < b
    BY <1>2
  <2>2. ~(a < a)
    BY <1>2
  <2>3. QED BY <1>1, <2>1, <2>2
<1>4. A \in SUBSET (0..(W - 1)) /\ B \in SUBSET (0..(W - 1))
  BY <1>1
<1>5. IsFiniteSet(A) /\ IsFiniteSet(B) /\ Cardinality(A) \in Nat /\ Cardinality(B) \in Nat
  BY <1>4, BitSets
<1>6. Cardinality(A) <= Cardinality(B) /\ Cardinality(A) # Cardinality(B)
  BY <1>3, <1>5, FS_Subset
<1>7. QED BY <1>1, <1>5, <1>6 DEF RankIn

LEMMA RankInjective ==
  ASSUME NEW M \in SUBSET (0..(W - 1)), NEW a \in M, NEW b \in M, RankIn(a, M) = RankIn(b, M)
  PROVE  a = b
<1>1. a \in Int /\ b \in Int
  BY WordAssumption
<1>2. RankIn(a, M) \in Nat
  <2>1. PICK A \in SUBSET (0..(W - 1)) : A = {j \in M : j < a}
    OBVIOUS
  <2>2. QED BY <2>1, BitSets DEF RankIn
<1>3. ~(a < b)
  BY <1>2, RankMonotone
<1>4. ~(b < a)
  BY <1>2, RankMonotone
<1>5. QED BY <1>1, <1>3, <1>4

LEMMA OnesAreBits == \A x : Ones(x) \in SUBSET (0..(W - 1))
  BY DEF Ones

IsPdepLoop(f, m, src, n) ==
  f = [k \in 0..n |-> IF k = 0 THEN [i |-> 0, mask |-> m, dest |-> 0] ELSE PdepStep(f[k - 1], src)]

IsPextLoop(f, m, src, n) ==
  f = [k \in 0..n |-> IF k = 0 THEN [o |-> 0, mask |-> m, dest |-> 0] ELSE PextStep(f[k - 1], src)]

\* After n steps: the lowest i bits of the mask are gone, and dest has the bits for them.
PdepInv(i, mask, dest, n, src, m) ==
  /\ mask \in Word /\ dest \in Word /\ i = Cardinality(Ones(m) \ Ones(mask))
  /\ Ones(mask) \subseteq Ones(m) /\ Ones(mask) \subseteq n..(W - 1)
  /\ \A a \in Ones(m) \ Ones(mask), k \in Ones(mask) : a < k
  /\ Ones(dest) = {b \in Ones(m) \ Ones(mask) : RankIn(b, Ones(m)) \in Ones(src)}

LEMMA PdepStepInv ==
  ASSUME NEW src \in Word, NEW m \in Word, NEW n \in 0..(W - 1), NEW s,
         PdepInv(s.i, s.mask, s.dest, n, src, m)
  PROVE  LET t == PdepStep(s, src) IN PdepInv(t.i, t.mask, t.dest, n + 1, src, m)
<1>0. PICK M \in SUBSET (0..(W - 1)) : M = Ones(m)
  BY OnesAreBits
<1>1. PICK K \in SUBSET M : K = Ones(s.mask)
  BY <1>0 DEF PdepInv
<1>2. PICK mask \in Word, dest \in Word : mask = s.mask /\ dest = s.dest
  BY DEF PdepInv
<1>20. PICK i : i = s.i
  OBVIOUS
<1>3. /\ i = Cardinality(M \ K) /\ K \subseteq n..(W - 1)
      /\ \A a \in M \ K, k \in K : a < k
      /\ Ones(dest) = {b \in M \ K : RankIn(b, M) \in Ones(src)}
      /\ K = Ones(mask)
  BY <1>0, <1>1, <1>2, <1>20 DEF PdepInv
<1>4. CASE mask = 0
  <2>1. K = {}
    BY <1>3, <1>4, NoBits
  <2>2. PdepStep(s, src) = s
    BY <1>2, <1>20, <1>4 DEF PdepStep
  <2>3. PdepInv(i, mask, dest, n + 1, src, m)
    BY <1>0, <1>1, <1>3, <2>1 DEF PdepInv
  <2>4. QED BY <1>2, <1>20, <2>2, <2>3
<1>5. CASE mask # 0
  <2>1. PICK b : b = ctz(mask)
    OBVIOUS
  <2>2. PICK mask1 : mask1 = WithoutLowest(mask)
    OBVIOUS
  <2>3. b \in K /\ (\A k \in K : b <= k) /\ mask1 \in Word /\ Ones(mask1) = K \ {b}
    BY <1>3, <1>5, <2>1, <2>2, LowestBit
  <2>4. RankIn(b, M) = i /\ i \in 0..(W - 1) /\ Cardinality(M \ (K \ {b})) = i + 1
    <3>1. RankIn(b, M) = Cardinality(M \ K) /\ RankIn(b, M) \in 0..(W - 1)
          /\ Cardinality(M \ (K \ {b})) = RankIn(b, M) + 1
      BY <1>3, <2>3, RankOfNext, Zenon
    <3>2. QED BY <1>3, <3>1, Zenon
  <2>5. b \in 0..(W - 1) /\ b \notin Ones(dest)
    BY <1>3, <2>3
  <2>6. PICK dest1 : dest1 = dest + Bit(src, i) * 2^b
    OBVIOUS
  <2>7. PICK P \in Nat : P = 2^b
    BY <2>5, Powers, WordAssumption
  <2>8. Bit(src, i) \in {0, 1} /\ (Bit(src, i) = 1 <=> i \in Ones(src)) /\ dest \in Int
    <3>1. i \in 0..W /\ src \in Int /\ dest \in Int
      BY <2>4, WordSize
    <3>2. QED BY <2>4, <3>1, BitValue DEF Ones
  <2>9. dest1 \in Word /\ Ones(dest1) = IF i \in Ones(src) THEN Ones(dest) \cup {b} ELSE Ones(dest)
    <3>1. CASE i \in Ones(src)
      <4>1. dest1 = dest + 2^b
        BY <2>6, <2>7, <2>8, <3>1
      <4>2. QED BY <2>5, <3>1, <4>1, AddBit
    <3>2. CASE i \notin Ones(src)
      <4>1. dest1 = dest
        BY <2>6, <2>7, <2>8, <3>2
      <4>2. QED BY <3>2, <4>1
    <3>3. QED BY <3>1, <3>2
  <2>10. PICK K1 : K1 = K \ {b}
    OBVIOUS
  <2>11. M \ K1 = (M \ K) \cup {b}
    BY <2>3, <2>10
  <2>12. Ones(dest1) = {a \in M \ K1 : RankIn(a, M) \in Ones(src)}
    BY <1>3, <2>3, <2>4, <2>9, <2>11
  <2>13. K1 \subseteq M /\ K1 \subseteq (n + 1)..(W - 1)
    <3>1. K1 \subseteq M
      BY <2>10
    <3>2. ASSUME NEW k \in K1 PROVE k \in (n + 1)..(W - 1)
      <4>1. b <= k /\ b # k /\ k \in n..(W - 1) /\ b \in n..(W - 1)
        BY <1>3, <2>3, <2>10
      <4>2. QED BY <4>1, WordAssumption
    <3>3. QED BY <3>1, <3>2
  <2>14. \A a \in M \ K1, k \in K1 : a < k
    <3>1. \A k \in K1 : b < k
      BY <2>3, <2>10, WordAssumption
    <3>2. QED BY <1>3, <2>10, <2>11, <3>1
  <2>15. PdepInv(i + 1, mask1, dest1, n + 1, src, m)
    BY <1>0, <2>3, <2>4, <2>9, <2>10, <2>12, <2>13, <2>14 DEF PdepInv
  <2>16. PdepStep(s, src) = [i |-> i + 1, mask |-> mask1, dest |-> dest1]
    BY <1>2, <1>20, <1>5, <2>1, <2>2, <2>6 DEF PdepStep
  <2>17. QED BY <2>15, <2>16
<1>6. QED BY <1>4, <1>5

-------------------------------------------------------------------------------
(* helper_pdep and helper_pext.                                              *)

LEMMA PdepLoopExists ==
  ASSUME NEW m, NEW src
  PROVE  \A k \in Nat : \E f : IsPdepLoop(f, m, src, k)
<1> DEFINE First == [i |-> 0, mask |-> m, dest |-> 0]
           A == {n \in Nat : \E f : f = [k \in 0..n |-> IF k = 0 THEN First ELSE PdepStep(f[k - 1], src)]}
<1> HIDE DEF First
<1>1. 0 \in A
  <2>1. PICK f : f = [k \in 0..0 |-> First]
    OBVIOUS
  <2>2. f = [k \in 0..0 |-> IF k = 0 THEN First ELSE PdepStep(f[k - 1], src)]
    BY <2>1
  <2>3. QED BY <2>2
<1>2. ASSUME NEW n \in Nat, n \in A PROVE n + 1 \in A
  <2>1. PICK f : f = [k \in 0..n |-> IF k = 0 THEN First ELSE PdepStep(f[k - 1], src)]
    BY <1>2
  <2>2. PICK g : g = [k \in 0..(n + 1) |-> IF k = n + 1 THEN PdepStep(f[n], src) ELSE f[k]]
    OBVIOUS
  <2>3. \A k \in 0..(n + 1) : g[k] = IF k = 0 THEN First ELSE PdepStep(g[k - 1], src)
    BY <2>1, <2>2
  <2>4. g = [k \in 0..(n + 1) |-> IF k = 0 THEN First ELSE PdepStep(g[k - 1], src)]
    BY <2>2, <2>3
  <2>5. QED BY <2>4
<1>3. Nat \subseteq A
  BY ONLY <1>1, <1>2, Induction
<1>4. QED BY <1>3 DEF IsPdepLoop, First

LEMMA PextLoopExists ==
  ASSUME NEW m, NEW src
  PROVE  \A k \in Nat : \E f : IsPextLoop(f, m, src, k)
<1> DEFINE First == [o |-> 0, mask |-> m, dest |-> 0]
           A == {n \in Nat : \E f : f = [k \in 0..n |-> IF k = 0 THEN First ELSE PextStep(f[k - 1], src)]}
<1> HIDE DEF First
<1>1. 0 \in A
  <2>1. PICK f : f = [k \in 0..0 |-> First]
    OBVIOUS
  <2>2. f = [k \in 0..0 |-> IF k = 0 THEN First ELSE PextStep(f[k - 1], src)]
    BY <2>1
  <2>3. QED BY <2>2
<1>2. ASSUME NEW n \in Nat, n \in A PROVE n + 1 \in A
  <2>1. PICK f : f = [k \in 0..n |-> IF k = 0 THEN First ELSE PextStep(f[k - 1], src)]
    BY <1>2
  <2>2. PICK g : g = [k \in 0..(n + 1) |-> IF k = n + 1 THEN PextStep(f[n], src) ELSE f[k]]
    OBVIOUS
  <2>3. \A k \in 0..(n + 1) : g[k] = IF k = 0 THEN First ELSE PextStep(g[k - 1], src)
    BY <2>1, <2>2
  <2>4. g = [k \in 0..(n + 1) |-> IF k = 0 THEN First ELSE PextStep(g[k - 1], src)]
    BY <2>2, <2>3
  <2>5. QED BY <2>4
<1>3. Nat \subseteq A
  BY ONLY <1>1, <1>2, Induction
<1>4. QED BY <1>3 DEF IsPextLoop, First

LEMMA PdepIs ==
  ASSUME NEW src \in Word, NEW m \in Word
  PROVE  /\ helper_pdep(src, m) \in Word
         /\ Ones(helper_pdep(src, m)) = {b \in Ones(m) : RankIn(b, Ones(m)) \in Ones(src)}
<1>0. W \in Nat
  BY WordAssumption
<1>1. PICK f : f = CHOOSE loop : IsPdepLoop(loop, m, src, W)
  OBVIOUS
<1>2. IsPdepLoop(f, m, src, W)
  <2>1. \E loop : IsPdepLoop(loop, m, src, W)
    BY <1>0, PdepLoopExists
  <2>2. QED BY <1>1, <2>1, Zenon
<1>3. helper_pdep(src, m) = f[W].dest
  BY <1>1, Zenon DEF helper_pdep, IsPdepLoop
<1>4. /\ f[0] = [i |-> 0, mask |-> m, dest |-> 0]
      /\ \A k \in 1..W : f[k] = PdepStep(f[k - 1], src)
  BY <1>0, <1>2 DEF IsPdepLoop
<1> DEFINE A == {k \in Nat : k <= W => PdepInv(f[k].i, f[k].mask, f[k].dest, k, src, m)}
<1>5. 0 \in A
  <2>1. f[0].i = 0 /\ f[0].mask = m /\ f[0].dest = 0
    BY <1>4
  <2>2. PICK M \in SUBSET (0..(W - 1)) : M = Ones(m)
    BY OnesAreBits
  <2>3. M \ M = {} /\ Cardinality({}) = 0
    BY FS_EmptySet
  <2>4. PdepInv(0, m, 0, 0, src, m)
    BY <2>2, <2>3, NoBits DEF PdepInv
  <2>5. QED BY <2>1, <2>4
<1>6. ASSUME NEW k \in Nat, k \in A PROVE k + 1 \in A
  <2> SUFFICES ASSUME k + 1 <= W PROVE PdepInv(f[k + 1].i, f[k + 1].mask, f[k + 1].dest, k + 1, src, m)
    OBVIOUS
  <2>1. k \in 0..(W - 1) /\ k + 1 \in 1..W /\ (k + 1) - 1 = k /\ k <= W
    BY <1>0
  <2>2. PICK s, t : s = f[k] /\ t = f[k + 1]
    OBVIOUS
  <2>3. t = PdepStep(s, src)
    BY <1>4, <2>1, <2>2
  <2>4. PdepInv(s.i, s.mask, s.dest, k, src, m)
    BY <1>6, <2>1, <2>2
  <2>5. PdepInv(t.i, t.mask, t.dest, k + 1, src, m)
    BY <2>1, <2>3, <2>4, PdepStepInv
  <2>6. QED BY <2>2, <2>5
<1>7. Nat \subseteq A
  BY ONLY <1>5, <1>6, Induction
<1>8. PICK i, mask, dest : i = f[W].i /\ mask = f[W].mask /\ dest = f[W].dest
  OBVIOUS
<1>9. PdepInv(i, mask, dest, W, src, m)
  BY <1>0, <1>7, <1>8
<1>10. Ones(mask) = {}
  <2>1. W..(W - 1) = {}
    BY <1>0
  <2>2. QED BY <1>9, <2>1 DEF PdepInv
<1>11. dest \in Word /\ Ones(dest) = {b \in Ones(m) \ Ones(mask) : RankIn(b, Ones(m)) \in Ones(src)}
  BY <1>9 DEF PdepInv
<1>12. Ones(dest) = {b \in Ones(m) : RankIn(b, Ones(m)) \in Ones(src)}
  BY <1>10, <1>11
<1>13. QED BY <1>3, <1>8, <1>11, <1>12

\* After n steps: dest has the bits of the o places of the mask that are gone.
PextInv(o, mask, dest, n, src, m) ==
  /\ mask \in Word /\ dest \in Word /\ o = Cardinality(Ones(m) \ Ones(mask))
  /\ Ones(mask) \subseteq Ones(m) /\ Ones(mask) \subseteq n..(W - 1)
  /\ \A a \in Ones(m) \ Ones(mask), k \in Ones(mask) : a < k
  /\ \A a \in Ones(m) \ Ones(mask) : RankIn(a, Ones(m)) < o
  /\ Ones(dest) = {RankIn(b, Ones(m)) : b \in (Ones(m) \ Ones(mask)) \cap Ones(src)}

LEMMA PextStepInv ==
  ASSUME NEW src \in Word, NEW m \in Word, NEW n \in 0..(W - 1), NEW s,
         PextInv(s.o, s.mask, s.dest, n, src, m)
  PROVE  LET t == PextStep(s, src) IN PextInv(t.o, t.mask, t.dest, n + 1, src, m)
<1>0. PICK M \in SUBSET (0..(W - 1)) : M = Ones(m)
  BY OnesAreBits
<1>1. PICK K \in SUBSET M : K = Ones(s.mask)
  BY <1>0 DEF PextInv
<1>2. PICK mask \in Word, dest \in Word : mask = s.mask /\ dest = s.dest
  BY DEF PextInv
<1>20. PICK o : o = s.o
  OBVIOUS
<1>3. /\ o = Cardinality(M \ K) /\ K \subseteq n..(W - 1)
      /\ \A a \in M \ K, k \in K : a < k
      /\ \A a \in M \ K : RankIn(a, M) < o
      /\ Ones(dest) = {RankIn(b, M) : b \in (M \ K) \cap Ones(src)}
      /\ K = Ones(mask)
  BY <1>0, <1>1, <1>2, <1>20 DEF PextInv
<1>4. CASE mask = 0
  <2>1. K = {}
    BY <1>3, <1>4, NoBits
  <2>2. PextStep(s, src) = s
    BY <1>2, <1>20, <1>4 DEF PextStep
  <2>3. PextInv(o, mask, dest, n + 1, src, m)
    BY <1>0, <1>1, <1>3, <2>1 DEF PextInv
  <2>4. QED BY <1>2, <1>20, <2>2, <2>3
<1>5. CASE mask # 0
  <2>1. PICK b : b = ctz(mask)
    OBVIOUS
  <2>2. PICK mask1 : mask1 = WithoutLowest(mask)
    OBVIOUS
  <2>3. b \in K /\ (\A k \in K : b <= k) /\ mask1 \in Word /\ Ones(mask1) = K \ {b}
    BY <1>3, <1>5, <2>1, <2>2, LowestBit
  <2>4. RankIn(b, M) = o /\ o \in 0..(W - 1) /\ Cardinality(M \ (K \ {b})) = o + 1
    <3>1. RankIn(b, M) = Cardinality(M \ K) /\ RankIn(b, M) \in 0..(W - 1)
          /\ Cardinality(M \ (K \ {b})) = RankIn(b, M) + 1
      BY <1>3, <2>3, RankOfNext, Zenon
    <3>2. QED BY <1>3, <3>1, Zenon
  <2>5. o \notin Ones(dest)
    <3>1. \A a \in M \ K : RankIn(a, M) # o
      <4>1. ~(o < o)
        BY <2>4
      <4>2. QED BY <1>3, <4>1
    <3>2. QED BY <1>3, <3>1
  <2>6. PICK dest1 : dest1 = dest + Bit(src, b) * 2^o
    OBVIOUS
  <2>7. PICK P \in Nat : P = 2^o
    BY <2>4, Powers, WordAssumption
  <2>8. Bit(src, b) \in {0, 1} /\ (Bit(src, b) = 1 <=> b \in Ones(src)) /\ dest \in Int
    <3>1. b \in 0..(W - 1) /\ b \in 0..W /\ src \in Int /\ dest \in Int
      BY <2>3, WordSize
    <3>2. QED BY <3>1, BitValue DEF Ones
  <2>9. dest1 \in Word /\ Ones(dest1) = IF b \in Ones(src) THEN Ones(dest) \cup {o} ELSE Ones(dest)
    <3>1. CASE b \in Ones(src)
      <4>1. dest1 = dest + 2^o
        BY <2>6, <2>7, <2>8, <3>1
      <4>2. QED BY <2>4, <2>5, <3>1, <4>1, AddBit
    <3>2. CASE b \notin Ones(src)
      <4>1. dest1 = dest
        BY <2>6, <2>7, <2>8, <3>2
      <4>2. QED BY <3>2, <4>1
    <3>3. QED BY <3>1, <3>2
  <2>10. PICK K1 : K1 = K \ {b}
    OBVIOUS
  <2>11. M \ K1 = (M \ K) \cup {b}
    BY <2>3, <2>10
  <2>12. Ones(dest1) = {RankIn(a, M) : a \in (M \ K1) \cap Ones(src)}
    <3>1. CASE b \in Ones(src)
      <4>1. (M \ K1) \cap Ones(src) = ((M \ K) \cap Ones(src)) \cup {b}
        BY <2>11, <3>1
      <4>2. {RankIn(a, M) : a \in ((M \ K) \cap Ones(src)) \cup {b}} =
              {RankIn(a, M) : a \in (M \ K) \cap Ones(src)} \cup {RankIn(b, M)}
        OBVIOUS
      <4>3. QED BY <1>3, <2>4, <2>9, <3>1, <4>1, <4>2
    <3>2. CASE b \notin Ones(src)
      <4>1. (M \ K1) \cap Ones(src) = (M \ K) \cap Ones(src)
        BY <2>11, <3>2
      <4>2. QED BY <1>3, <2>9, <3>2, <4>1
    <3>3. QED BY <3>1, <3>2
  <2>13. K1 \subseteq M /\ K1 \subseteq (n + 1)..(W - 1)
    <3>1. K1 \subseteq M
      BY <2>10
    <3>2. ASSUME NEW k \in K1 PROVE k \in (n + 1)..(W - 1)
      <4>1. b <= k /\ b # k /\ k \in n..(W - 1) /\ b \in n..(W - 1)
        BY <1>3, <2>3, <2>10
      <4>2. QED BY <4>1, WordAssumption
    <3>3. QED BY <3>1, <3>2
  <2>14. \A a \in M \ K1, k \in K1 : a < k
    <3>1. \A k \in K1 : b < k
      BY <2>3, <2>10, WordAssumption
    <3>2. QED BY <1>3, <2>10, <2>11, <3>1
  <2>15. \A a \in M \ K1 : RankIn(a, M) < o + 1
    <3>1. ASSUME NEW a \in M \ K PROVE RankIn(a, M) < o + 1
      <4>1. RankIn(a, M) < o
        BY <1>3
      <4>2. PICK A \in SUBSET (0..(W - 1)) : A = {j \in M : j < a}
        OBVIOUS
      <4>3. RankIn(a, M) \in Nat
        BY <4>2, BitSets DEF RankIn
      <4>4. QED BY <2>4, <4>1, <4>3
    <3>2. RankIn(b, M) < o + 1
      BY <2>4
    <3>3. QED BY <2>11, <3>1, <3>2
  <2>16. PextInv(o + 1, mask1, dest1, n + 1, src, m)
    BY <1>0, <2>3, <2>4, <2>9, <2>10, <2>12, <2>13, <2>14, <2>15 DEF PextInv
  <2>17. PextStep(s, src) = [o |-> o + 1, mask |-> mask1, dest |-> dest1]
    BY <1>2, <1>20, <1>5, <2>1, <2>2, <2>6 DEF PextStep
  <2>18. QED BY <2>16, <2>17
<1>6. QED BY <1>4, <1>5

LEMMA PextIs ==
  ASSUME NEW src \in Word, NEW m \in Word
  PROVE  /\ helper_pext(src, m) \in Word
         /\ Ones(helper_pext(src, m)) = {RankIn(b, Ones(m)) : b \in Ones(m) \cap Ones(src)}
<1>0. W \in Nat
  BY WordAssumption
<1>1. PICK f : f = CHOOSE loop : IsPextLoop(loop, m, src, W)
  OBVIOUS
<1>2. IsPextLoop(f, m, src, W)
  <2>1. \E loop : IsPextLoop(loop, m, src, W)
    BY <1>0, PextLoopExists
  <2>2. QED BY <1>1, <2>1, Zenon
<1>3. helper_pext(src, m) = f[W].dest
  BY <1>1, Zenon DEF helper_pext, IsPextLoop
<1>4. /\ f[0] = [o |-> 0, mask |-> m, dest |-> 0]
      /\ \A k \in 1..W : f[k] = PextStep(f[k - 1], src)
  BY <1>0, <1>2 DEF IsPextLoop
<1> DEFINE A == {k \in Nat : k <= W => PextInv(f[k].o, f[k].mask, f[k].dest, k, src, m)}
<1>5. 0 \in A
  <2>1. f[0].o = 0 /\ f[0].mask = m /\ f[0].dest = 0
    BY <1>4
  <2>2. PICK M \in SUBSET (0..(W - 1)) : M = Ones(m)
    BY OnesAreBits
  <2>3. M \ M = {} /\ Cardinality({}) = 0
    BY FS_EmptySet
  <2>4. PextInv(0, m, 0, 0, src, m)
    BY <2>2, <2>3, NoBits DEF PextInv
  <2>5. QED BY <2>1, <2>4
<1>6. ASSUME NEW k \in Nat, k \in A PROVE k + 1 \in A
  <2> SUFFICES ASSUME k + 1 <= W PROVE PextInv(f[k + 1].o, f[k + 1].mask, f[k + 1].dest, k + 1, src, m)
    OBVIOUS
  <2>1. k \in 0..(W - 1) /\ k + 1 \in 1..W /\ (k + 1) - 1 = k /\ k <= W
    BY <1>0
  <2>2. PICK s, t : s = f[k] /\ t = f[k + 1]
    OBVIOUS
  <2>3. t = PextStep(s, src)
    BY <1>4, <2>1, <2>2
  <2>4. PextInv(s.o, s.mask, s.dest, k, src, m)
    BY <1>6, <2>1, <2>2
  <2>5. PextInv(t.o, t.mask, t.dest, k + 1, src, m)
    BY <2>1, <2>3, <2>4, PextStepInv
  <2>6. QED BY <2>2, <2>5
<1>7. Nat \subseteq A
  BY ONLY <1>5, <1>6, Induction
<1>8. PICK o, mask, dest : o = f[W].o /\ mask = f[W].mask /\ dest = f[W].dest
  OBVIOUS
<1>9. PextInv(o, mask, dest, W, src, m)
  BY <1>0, <1>7, <1>8
<1>10. Ones(mask) = {}
  <2>1. W..(W - 1) = {}
    BY <1>0
  <2>2. QED BY <1>9, <2>1 DEF PextInv
<1>11. dest \in Word /\ Ones(dest) = {RankIn(b, Ones(m)) : b \in (Ones(m) \ Ones(mask)) \cap Ones(src)}
  BY <1>9 DEF PextInv
<1>12. Ones(m) \ Ones(mask) = Ones(m)
  BY <1>10
<1>13. QED BY <1>3, <1>8, <1>11, <1>12

\* A bit of both is gathered to its rank, and spread from there.
LEMMA AndIs ==
  ASSUME NEW x \in Word, NEW y \in Word
  PROVE  And(x, y) \in Word /\ Ones(And(x, y)) = Ones(x) \cap Ones(y)
<1>1. PICK M \in SUBSET (0..(W - 1)) : M = Ones(y)
  BY OnesAreBits
<1>2. PICK e \in Word : e = helper_pext(x, y) /\ Ones(e) = {RankIn(b, M) : b \in M \cap Ones(x)}
  BY <1>1, PextIs
<1>3. And(x, y) = helper_pdep(e, y)
  BY <1>2 DEF And
<1>4. And(x, y) \in Word /\ Ones(And(x, y)) = {b \in M : RankIn(b, M) \in Ones(e)}
  BY <1>1, <1>3, PdepIs
<1>5. ASSUME NEW b \in M PROVE RankIn(b, M) \in Ones(e) <=> b \in Ones(x)
  <2>1. ASSUME RankIn(b, M) \in Ones(e) PROVE b \in Ones(x)
    <3>1. PICK a \in M \cap Ones(x) : RankIn(a, M) = RankIn(b, M)
      BY <1>2, <2>1
    <3>2. a = b
      BY <3>1, RankInjective
    <3>3. QED BY <3>2
  <2>2. ASSUME b \in Ones(x) PROVE RankIn(b, M) \in Ones(e)
    BY <1>2, <2>2
  <2>3. QED BY <2>1, <2>2
<1>6. QED BY <1>1, <1>4, <1>5

-------------------------------------------------------------------------------
(* PDEP, PEXT and the logical instructions.                                  *)

LEMMA BitFieldStep ==
  ASSUME CpuInv, BitField
  PROVE  CpuInv' /\ Processor!Next
<1>1. PICK i \in Available : BitField!(i)
  BY DEF BitField
<1>2. PICK r : r = IF i.op = "PDEP" THEN helper_pdep(lo, i.src) ELSE helper_pext(lo, i.src)
  OBVIOUS
<1>3. Executes(i, {"PDEP", "PEXT"}) /\ SetResult(r) /\ UNCHANGED cc /\ decimal' = None
  BY <1>1, <1>2 DEF NotDecimal
<1>4. i.op \in {"PDEP", "PEXT"} /\ i.src \in Word /\ lo \in Word /\ hi \in Word /\ cc_op \in CC_OP /\ FlagsHeld
  BY <1>3, FetchedPlain DEF CpuInv, TypeOK
<1>5. cc_op' \in CC_OP /\ FlagsHeld' /\ eflags' = eflags
  BY <1>3, <1>4 DEF cc, FlagsHeld, eflags
<1>6. lo' = r /\ hi' = hi /\ UNCHANGED fault
  BY <1>3 DEF SetResult
<1>7. CASE i.op = "PDEP"
  <2>1. PICK S : S = {b \in Ones(i.src) : RankIn(b, Ones(i.src)) \in Ones(lo)}
    OBVIOUS
  <2>2. r \in Word /\ Ones(r) = S
    BY <1>2, <1>4, <1>7, <2>1, PdepIs
  <2>3. Processor!FromBits(S) = r
    BY <2>2, FromBitsIs
  <2>4. {b \in Processor!OneBits(i.src) : Processor!Rank(b, i.src) \in Processor!OneBits(lo)} = S
    BY <2>1, OnesIs, RankIs
  <2>5. Processor!Effect(i) = Processor!Undefined(Processor!Does(Processor!FromBits(
          {b \in Processor!OneBits(i.src) : Processor!Rank(b, i.src) \in Processor!OneBits(lo)}), eflags), {})
    BY <1>7 DEF Processor!Effect
  <2>6. Processor!Effect(i) = Processor!Undefined(Processor!Does(r, eflags), {})
    BY <2>3, <2>4, <2>5, Zenon
  <2>7. Processor!Effect(i) = Effect(r, hi, eflags, {}, FALSE, None, control, image)
    BY <2>6, UndefinedIs, Zenon
  <2>8. QED BY <1>3, <1>4, <1>5, <1>6, <1>7, <2>2, <2>7, PlainStep
<1>8. CASE i.op = "PEXT"
  <2>1. PICK S : S = {RankIn(b, Ones(i.src)) : b \in Ones(i.src) \cap Ones(lo)}
    OBVIOUS
  <2>2. r \in Word /\ Ones(r) = S
    <3>1. r = helper_pext(lo, i.src)
      BY <1>2, <1>8
    <3>2. QED BY <1>4, <2>1, <3>1, PextIs
  <2>3. Processor!FromBits(S) = r
    BY <2>2, FromBitsIs
  <2>4. {Processor!Rank(b, i.src) : b \in Processor!OneBits(lo) \cap Processor!OneBits(i.src)} = S
    <3>1. Processor!OneBits(lo) \cap Processor!OneBits(i.src) = Ones(i.src) \cap Ones(lo)
      BY OnesIs
    <3>2. QED BY <2>1, <3>1, RankIs
  <2>5. Processor!Effect(i) = Processor!Undefined(Processor!Does(Processor!FromBits(
          {Processor!Rank(b, i.src) : b \in Processor!OneBits(lo) \cap Processor!OneBits(i.src)}), eflags), {})
    BY <1>8 DEF Processor!Effect
  <2>6. Processor!Effect(i) = Processor!Undefined(Processor!Does(r, eflags), {})
    BY <2>3, <2>4, <2>5, Zenon
  <2>7. Processor!Effect(i) = Effect(r, hi, eflags, {}, FALSE, None, control, image)
    BY <2>6, UndefinedIs, Zenon
  <2>8. QED BY <1>3, <1>4, <1>5, <1>6, <1>8, <2>2, <2>7, PlainStep
<1>9. QED BY <1>4, <1>7, <1>8

LEMMA LogicStep ==
  ASSUME CpuInv, Logic
  PROVE  CpuInv' /\ Processor!Next
<1>1. PICK i \in Available : Logic!(i)
  BY DEF Logic
<1>2. PICK r : r = CASE i.op = "AND" -> And(lo, i.src)
                  [] i.op = "XOR_SELF" -> 0
                  [] i.op = "SHL" -> Wrap(2 * lo)
                  [] i.op = "SAR" -> Wrap(Signed(lo) \div 2)
                  [] i.op = "BLSR" -> IF lo = 0 THEN 0 ELSE WithoutLowest(lo)
                  [] i.op = "POPCNT" -> Cardinality({b \in 0..(W - 1) : Bit(lo, b) = 1})
  OBVIOUS
<1>3. PICK op : op = CASE i.op = "AND" -> "LOGIC" [] i.op = "XOR_SELF" -> "CLR"
                   [] i.op = "BLSR" -> "BMILG" [] OTHER -> i.op
  OBVIOUS
<1>4. /\ Executes(i, {"AND", "XOR_SELF", "SHL", "SAR", "BLSR", "POPCNT"}) /\ SetResult(r)
      /\ SetCC(op, r, lo, cc_src2) /\ decimal' = None
  BY <1>1, <1>2, <1>3, Zenon DEF NotDecimal
<1>5. /\ i.op \in {"AND", "XOR_SELF", "SHL", "SAR", "BLSR", "POPCNT"}
      /\ i.src \in Word /\ lo \in Word /\ hi \in Word
  BY <1>4, FetchedPlain DEF CpuInv, TypeOK
<1>6. lo' = r /\ hi' = hi /\ UNCHANGED fault
  BY <1>4 DEF SetResult
<1>7. op \in {"LOGIC", "CLR", "BMILG", "SHL", "SAR", "POPCNT"}
  BY <1>3, <1>5
<1>8. cc_op' \in CC_OP /\ FlagsHeld'
  BY <1>4, <1>7 DEF SetCC, CC_OP, FlagsHeld
<1>9. eflags' = helper_cc_compute_all(r, lo, cc_src2, op)
  BY <1>4, FlagsSet
<1>10. CASE i.op = "AND"
  <2>1. r = And(lo, i.src) /\ op = "LOGIC"
    BY <1>2, <1>3, <1>10
  <2>2. r \in Word /\ Ones(r) = Ones(lo) \cap Ones(i.src)
    BY <1>5, <2>1, AndIs
  <2>3. Processor!FromBits(Processor!OneBits(lo) \cap Processor!OneBits(i.src)) = r
    BY <2>2, FromBitsIs, OnesIs
  <2>4. eflags' = Processor!OfResult(r)
    BY <1>9, <2>1, <2>2, ResultFlags DEF helper_cc_compute_all, compute_all_logic
  <2>5. Processor!Effect(i) = Processor!Undefined(Processor!Does(r, Processor!OfResult(r)), {"A"})
    <3>1. Processor!Effect(i) = Processor!Undefined(Processor!Does(
             Processor!FromBits(Processor!OneBits(lo) \cap Processor!OneBits(i.src)),
             Processor!OfResult(Processor!FromBits(Processor!OneBits(lo) \cap Processor!OneBits(i.src)))), {"A"})
      BY <1>10 DEF Processor!Effect
    <3>2. QED BY <2>3, <3>1, Zenon
  <2>6. Processor!Effect(i) = Effect(r, hi, Processor!OfResult(r), {"A"}, FALSE, None, control, image)
    BY <2>5, UndefinedIs, Zenon
  <2>7. QED BY <1>4, <1>5, <1>6, <1>8, <1>10, <2>2, <2>4, <2>6, PlainStep
<1>11. CASE i.op = "XOR_SELF"
  <2>1. r = 0 /\ op = "CLR" /\ r \in Word
    BY <1>2, <1>3, <1>11, WordSize
  <2>2. eflags' = {"Z", "P"}
    BY <1>9, <2>1 DEF helper_cc_compute_all
  <2>3. Processor!Effect(i) = Processor!Undefined(Processor!Does(0, {"Z", "P"}), {"A"})
    BY <1>11 DEF Processor!Effect
  <2>4. Processor!Effect(i) = Effect(r, hi, {"Z", "P"}, {"A"}, FALSE, None, control, image)
    BY <2>1, <2>3, UndefinedIs, Zenon
  <2>5. QED BY <1>4, <1>5, <1>6, <1>8, <1>11, <2>1, <2>2, <2>4, PlainStep
<1>12. CASE i.op = "SHL"
  <2>1. r = Wrap(2 * lo) /\ op = "SHL" /\ r \in Word
    BY <1>2, <1>3, <1>5, <1>12, ShiftLeft
  <2>2. PICK flags : flags = Processor!OfResult(r) \cup If(2 * lo >= N, "C") \cup If(Signed(r) # 2 * Signed(lo), "O")
    OBVIOUS
  <2>3. eflags' = flags
    <3>1. eflags' = compute_all_shl(r, lo)
      BY <1>9, <2>1 DEF helper_cc_compute_all
    <3>2. QED BY <1>5, <2>1, <2>2, <3>1, ShiftLeft, ResultFlags DEF compute_all_shl, compute_c_shl, If
  <2>4. Processor!Effect(i) = Processor!Undefined(Processor!Does(r, flags), {"A"})
    <3>1. Processor!Effect(i) = Processor!Undefined(Processor!Does(Processor!Wrap(2 * lo),
             Processor!OfResult(Processor!Wrap(2 * lo)) \cup Processor!If(2 * lo >= 2^W, "C")
               \cup Processor!If(Processor!Signed(Processor!Wrap(2 * lo)) # 2 * Processor!Signed(lo), "O")), {"A"})
      BY <1>12 DEF Processor!Effect
    <3>2. QED BY <2>1, <2>2, <3>1, SameNames, Zenon DEF N
  <2>5. Processor!Effect(i) = Effect(r, hi, flags, {"A"}, FALSE, None, control, image)
    BY <2>4, UndefinedIs, Zenon
  <2>6. QED BY <1>4, <1>5, <1>6, <1>8, <1>12, <2>1, <2>3, <2>5, PlainStep
<1>13. CASE i.op = "SAR"
  <2>1. r = Wrap(Signed(lo) \div 2) /\ op = "SAR" /\ r \in Word
    BY <1>2, <1>3, <1>5, <1>13, ShiftRight
  <2>2. PICK flags : flags = Processor!OfResult(r) \cup If(lo % 2 = 1, "C")
    OBVIOUS
  <2>3. eflags' = flags
    <3>1. eflags' = compute_all_sar(r, lo)
      BY <1>9, <2>1 DEF helper_cc_compute_all
    <3>2. Msb(lo) = Msb(r)
      BY <1>5, <2>1, ShiftRight
    <3>3. QED BY <2>1, <2>2, <3>1, <3>2, ResultFlags DEF compute_all_sar, If
  <2>4. Processor!Effect(i) = Processor!Undefined(Processor!Does(r, flags), {"A"})
    <3>1. Processor!Effect(i) = Processor!Undefined(Processor!Does(Processor!Wrap(Processor!Signed(lo) \div 2),
             Processor!OfResult(Processor!Wrap(Processor!Signed(lo) \div 2)) \cup Processor!If(lo % 2 = 1, "C")), {"A"})
      BY <1>13 DEF Processor!Effect
    <3>2. QED BY <2>1, <2>2, <3>1, SameNames, Zenon
  <2>5. Processor!Effect(i) = Effect(r, hi, flags, {"A"}, FALSE, None, control, image)
    BY <2>4, UndefinedIs, Zenon
  <2>6. QED BY <1>4, <1>5, <1>6, <1>8, <1>13, <2>1, <2>3, <2>5, PlainStep
<1>14. CASE i.op = "BLSR"
  <2>1. r = (IF lo = 0 THEN 0 ELSE WithoutLowest(lo)) /\ op = "BMILG"
    BY <1>2, <1>3, <1>14
  <2>2. PICK S : S = {b \in Processor!OneBits(lo) : \E j \in Processor!OneBits(lo) : j < b}
    OBVIOUS
  <2>3. r \in Word /\ r = Processor!FromBits(S)
    BY <1>5, <2>1, <2>2, AllButLowest
  <2>4. PICK flags : flags = (Processor!OfResult(r) \ {"P"}) \cup If(lo = 0, "C")
    OBVIOUS
  <2>5. eflags' = flags
    <3>1. eflags' = compute_all_bmilg(r, lo)
      BY <1>9, <2>1 DEF helper_cc_compute_all
    <3>2. QED BY <2>3, <2>4, <3>1, ResultFlags DEF compute_all_bmilg
  <2>6. Processor!Effect(i) = Processor!Undefined(Processor!Does(r, flags), {"A", "P"})
    <3>1. Processor!Effect(i) = Processor!Undefined(Processor!Does(Processor!FromBits(S),
             (Processor!OfResult(Processor!FromBits(S)) \ {"P"}) \cup Processor!If(lo = 0, "C")), {"A", "P"})
      BY <1>14, <2>2 DEF Processor!Effect
    <3>2. QED BY <2>3, <2>4, <3>1, SameNames, Zenon
  <2>7. Processor!Effect(i) = Effect(r, hi, flags, {"A", "P"}, FALSE, None, control, image)
    BY <2>6, UndefinedIs, Zenon
  <2>8. QED BY <1>4, <1>5, <1>6, <1>8, <1>14, <2>3, <2>5, <2>7, PlainStep
<1>15. CASE i.op = "POPCNT"
  <2>1. r = Cardinality({b \in 0..(W - 1) : Bit(lo, b) = 1}) /\ op = "POPCNT"
    BY <1>2, <1>3, <1>15
  <2>2. r \in Word /\ r = Processor!Cardinality(Processor!OneBits(lo))
    BY <2>1, BitCountBound, Zenon
  <2>3. PICK flags : flags = If(lo = 0, "Z")
    OBVIOUS
  <2>4. eflags' = flags
    BY <1>9, <2>1, <2>3 DEF helper_cc_compute_all
  <2>5. Processor!Effect(i) = Processor!Does(r, flags)
    <3>1. Processor!Effect(i) = Processor!Does(Processor!Cardinality(Processor!OneBits(lo)), Processor!If(lo = 0, "Z"))
      BY <1>15 DEF Processor!Effect
    <3>2. QED BY <2>2, <2>3, <3>1, SameNames, Zenon
  <2>6. Processor!Effect(i) = Effect(r, hi, flags, {}, FALSE, None, control, image)
    BY <2>5, DoesIs, Zenon
  <2>7. QED BY <1>4, <1>5, <1>6, <1>8, <1>15, <2>2, <2>4, <2>6, PlainStep
<1>16. QED BY <1>5, <1>10, <1>11, <1>12, <1>13, <1>14, <1>15

-------------------------------------------------------------------------------
(* Decimals of one digit.                                                    *)

LEMMA DecimalSize ==
  /\ Ten \in Nat /\ Ten > 0 /\ Ten <= D /\ D \in Nat /\ D > 0 /\ 2 * D <= N
  /\ Gap = D - Ten /\ Max = N - 1 /\ Packed99 = (Ten - 1) * D + Ten - 1
<1>1. Ten \in 1..D /\ D \in Nat
  BY WordAssumption, DigitSize DEF D
<1>2. PICK K \in Nat : N = D * (2 * K)
  BY WordOfDigits
<1>3. 2 * D <= N
  <2>1. K >= 1 => D * (2 * K) >= 2 * D
    <3>1. PICK k \in Int : K = k + 1
      <4>1. K = (K - 1) + 1 /\ K - 1 \in Int
        OBVIOUS
      <4>2. QED BY <4>1
    <3>2. D * (2 * (k + 1)) = 2 * D + 2 * (D * k) /\ (k >= 0 => D * k >= 0) /\ D * k \in Int
      BY <1>1
    <3>3. QED BY <1>1, <3>1, <3>2
  <2>2. K # 0
    BY <1>1, <1>2, WordSize
  <2>3. QED BY <1>2, <2>1, <2>2
<1>4. Gap = D - Ten /\ Max = N - 1 /\ Packed99 = (Ten - 1) * D + Ten - 1
  BY DEF Gap, Max, Packed99, D, N
<1>5. QED BY <1>1, <1>3, <1>4

\* Quotients zero, one and minus one.
LEMMA SmallDivision ==
  ASSUME NEW d \in Nat, NEW x \in Int, d > 0
  PROVE  /\ x \in 0..(d - 1) => (x % d) = x /\ x \div d = 0
         /\ x \in d..(2 * d - 1) => (x % d) = x - d /\ x \div d = 1
         /\ x \in (-d)..(-1) => (x % d) = x + d /\ x \div d = -1
<1>1. ASSUME x \in 0..(d - 1) PROVE (x % d) = x /\ x \div d = 0
  <2>1. x = d * 0 + x
    OBVIOUS
  <2>2. QED BY <1>1, <2>1
<1>2. ASSUME x \in d..(2 * d - 1) PROVE (x % d) = x - d /\ x \div d = 1
  <2>1. x = d * 1 + (x - d) /\ x - d \in 0..(d - 1)
    BY <1>2
  <2>2. QED BY <2>1
<1>3. ASSUME x \in (-d)..(-1) PROVE (x % d) = x + d /\ x \div d = -1
  <2>1. x = d * (-1) + (x + d) /\ x + d \in 0..(d - 1)
    BY <1>3
  <2>2. QED BY <2>1
<1>4. QED BY <1>1, <1>2, <1>3

LEMMA OneDigit ==
  ASSUME NEW x \in Word, x < Ten
  PROVE  (x % D) = x /\ Processor!Number(x) = x /\ x \in 0..(Ten - 1)
<1>1. x \in 0..(D - 1) /\ x \in Int /\ x \in 0..(Ten - 1)
  BY DecimalSize, WordSize
<1>2. (x % D) = x /\ x \div D = 0
  BY <1>1, DecimalSize, SmallDivision
<1>3. Processor!Number(x) = Ten * (x \div D) + (x % D)
  BY DEF Processor!Number, Processor!HighDigit, Processor!LowDigit, D
<1>4. QED BY <1>1, <1>2, <1>3, DecimalSize

\* AAA: the sum of two digits.
LEMMA UnpackedSum ==
  ASSUME NEW n \in 0..(2 * Ten - 1), NEW needed \in BOOLEAN, needed <=> (LowDigit(n) > Ten - 1 \/ n >= D)
  PROVE  /\ needed <=> n >= Ten
         /\ LowDigit(IF ~needed THEN n ELSE n + Gap) = n % Ten
         /\ ~(n > Max - Gap)
         /\ n \div Ten = IF needed THEN 1 ELSE 0
<1>0. n \in Int
  BY DecimalSize
<1>1. LowDigit(n) = (n % D) /\ LowDigit(n + Gap) = ((n + Gap) % D)
  BY DEF LowDigit, D
<1>2. needed <=> n >= Ten
  <2>1. n < D => (n % D) = n
    BY <1>0, DecimalSize, SmallDivision
  <2>2. QED BY <1>0, <1>1, <2>1, DecimalSize
<1>3. ~(n > Max - Gap)
  BY <1>0, DecimalSize, WordSize
<1>4. CASE n < Ten
  <2>1. (n % D) = n /\ (n % Ten) = n /\ n \div Ten = 0
    BY <1>0, <1>4, DecimalSize, SmallDivision
  <2>2. QED BY <1>0, <1>1, <1>2, <1>3, <1>4, <2>1, DecimalSize
<1>5. CASE n >= Ten
  <2>1. n + Gap \in D..(2 * D - 1) /\ n + Gap \in Int /\ n \in Ten..(2 * Ten - 1)
    BY <1>0, <1>5, DecimalSize
  <2>2. ((n + Gap) % D) = n + Gap - D /\ (n % Ten) = n - Ten /\ n \div Ten = 1
    BY <1>0, <2>1, DecimalSize, SmallDivision
  <2>3. n + Gap - D = n - Ten
    BY <1>0, DecimalSize
  <2>4. QED BY <1>1, <1>2, <1>3, <1>5, <2>2, <2>3
<1>6. QED BY <1>0, <1>4, <1>5, DecimalSize

\* AAS: the difference of two digits.
LEMMA UnpackedDifference ==
  ASSUME NEW n \in (-Ten)..(Ten - 1), NEW l \in Word, l = IF n < 0 THEN n + N ELSE n,
         NEW needed \in BOOLEAN, needed <=> (LowDigit(l) > Ten - 1 \/ n < 0)
  PROVE  /\ needed <=> n < 0
         /\ LowDigit(IF ~needed THEN l ELSE l - Gap) = n % Ten
         /\ needed => ~(l < Gap)
         /\ n \div Ten = IF needed THEN -1 ELSE 0
<1>0. n \in Int
  BY DecimalSize
<1>1. LowDigit(l) = (l % D) /\ LowDigit(l - Gap) = ((l - Gap) % D)
  BY DEF LowDigit, D
<1>2. CASE n >= 0
  <2>1. l = n /\ n \in 0..(D - 1) /\ n \in 0..(Ten - 1)
    BY <1>0, <1>2, DecimalSize
  <2>2. (n % D) = n /\ (n % Ten) = n /\ n \div Ten = 0
    BY <1>0, <2>1, DecimalSize, SmallDivision
  <2>3. ~needed
    BY <1>0, <1>1, <1>2, <2>1, <2>2, DecimalSize
  <2>4. QED BY <1>0, <1>1, <1>2, <2>1, <2>2, <2>3, DecimalSize
<1>3. CASE n < 0
  <2>1. needed /\ l = n + N /\ n \in (-Ten)..(-1)
    BY <1>0, <1>3, DecimalSize
  <2>2. (n % Ten) = n + Ten /\ n \div Ten = -1
    BY <1>0, <2>1, DecimalSize, SmallDivision
  <2>3. ~(l < Gap)
    BY <1>0, <2>1, DecimalSize, WordSize
  <2>4. ((l - Gap) % D) = n + Ten
    <3>1. PICK K \in Nat : N = D * (2 * K)
      BY WordOfDigits
    <3>2. n + Ten \in 0..(D - 1)
      BY <1>0, <2>1, DecimalSize
    <3>3. l - Gap = D * (2 * K - 1) + (n + Ten)
      <4>1. D * (2 * K - 1) = D * (2 * K) - D
        BY DecimalSize
      <4>2. QED BY <1>0, <2>1, <3>1, <4>1, DecimalSize
    <3>4. (D * (2 * K - 1) + (n + Ten)) % D = n + Ten
      BY <3>2, DivideDigit
    <3>5. QED BY <3>3, <3>4
  <2>5. QED BY <1>1, <1>3, <2>1, <2>2, <2>3, <2>4
<1>4. QED BY <1>0, <1>2, <1>3

-------------------------------------------------------------------------------
(* AAA and AAS.                                                              *)

LEMMA AdjustUnpackedStep ==
  ASSUME CpuInv, AdjustUnpacked
  PROVE  CpuInv' /\ Processor!Next
<1>1. PICK i \in Available : AdjustUnpacked!(i)
  BY DEF AdjustUnpacked
<1>2. PICK needed \in BOOLEAN : needed <=> (LowDigit(lo) > Ten - 1 \/ "A" \in eflags)
  OBVIOUS
<1>3. PICK icarry : icarry = IF i.op = "AAA" THEN (IF lo > Max - Gap THEN 1 ELSE 0)
                                             ELSE (IF lo < Gap THEN 1 ELSE 0)
  OBVIOUS
<1>4. /\ Executes(i, {"AAA", "AAS"})
      /\ lo' = LowDigit(IF ~needed THEN lo ELSE IF i.op = "AAA" THEN lo + Gap ELSE lo - Gap)
      /\ hi' = (IF ~needed THEN hi
                ELSE IF i.op = "AAA" THEN Wrap(hi + 1 + icarry) ELSE Wrap(hi - 1 - icarry))
      /\ SetCC("EFLAGS", cc_dst, IF needed THEN eflags \cup {"C", "A"} ELSE eflags \ {"C", "A"}, cc_src2)
      /\ UNCHANGED fault /\ decimal' = None
  BY <1>1, <1>2, <1>3 DEF NotDecimal
<1>5. /\ insn' = i /\ i \in UNION Range(Program) /\ i.op \in {"AAA", "AAS"}
      /\ fault = FALSE /\ control' = control /\ image' = image /\ system' \subseteq System
      /\ step' \in 0..Len(Program)
  BY <1>4, FetchedPlain
<1>6. lo \in Word /\ hi \in Word /\ lo \in Int /\ hi \in Int /\ icarry \in {0, 1} /\ eflags \subseteq Flag
  BY <1>3, FlagsKnown, WordSize DEF CpuInv, TypeOK
<1>7. lo' \in Word
  <2>1. PICK x \in Int : x = IF ~needed THEN lo ELSE IF i.op = "AAA" THEN lo + Gap ELSE lo - Gap
    <3>1. lo + Gap \in Int /\ lo - Gap \in Int
      BY <1>6, DecimalSize
    <3>2. QED BY <1>6, <3>1
  <2>2. LowDigit(x) \in 0..(D - 1)
    BY Digits
  <2>3. QED BY <1>4, <2>1, <2>2, DecimalSize, WordSize
<1>8. hi' \in Word
  <2>1. hi + 1 + icarry \in Int /\ hi - 1 - icarry \in Int
    BY <1>6
  <2>2. QED BY <1>4, <1>6, <2>1, WrapCases
<1>9. eflags' = IF needed THEN eflags \cup {"C", "A"} ELSE eflags \ {"C", "A"}
  BY <1>4, FlagsSet DEF helper_cc_compute_all
<1>10. cc_op' \in CC_OP /\ FlagsHeld'
  BY <1>4, <1>6 DEF SetCC, CC_OP, FlagsHeld, Flag
<1>11. CpuInv'
  BY <1>4, <1>5, <1>7, <1>8, <1>10, TypeKept, NoDecimal DEF CpuInv
<1>12. PICK r : r = [lo |-> lo', hi |-> hi', flags |-> eflags']
  OBVIOUS
<1>13. r.lo = lo' /\ r.hi = hi' /\ r.flags = eflags'
  BY <1>12
<1>14. ASSUME NEW n \in Int, NEW k \in {-1, 0, 1}, n \div Ten = k, lo' = n % Ten, hi' = Wrap(hi + k),
              needed <=> n \notin 0..(Ten - 1)
       PROVE  r.lo = n % Ten /\ r.hi = Processor!Wrap(hi + n \div Ten)
              /\ {"C", "A"} \cap r.flags = (IF n \in 0..(Ten - 1) THEN {} ELSE {"C", "A"})
  BY <1>9, <1>13, <1>14, SameNames
<1>15. CASE i.op = "AAA"
  <2>1. Processor!AdjustUnpacked("add", r)
    <3>1. PICK n : n = Processor!DecimalResult("add")
      OBVIOUS
    <3>2. ASSUME decimal.kind = "add", decimal.x < Ten, decimal.y < Ten
          PROVE  r.lo = n % Ten /\ r.hi = Processor!Wrap(hi + n \div Ten)
                 /\ {"C", "A"} \cap r.flags = (IF n \in 0..(Ten - 1) THEN {} ELSE {"C", "A"})
      <4>1. PICK x \in Word, y \in Word, c \in {0, 1} : x = decimal.x /\ y = decimal.y /\ c = decimal.c
        BY <3>2 DEF CpuInv, DecimalInv
      <4>2. lo = Wrap(x + y + c) /\ ("A" \in eflags <=> (x % D) + (y % D) + c >= D)
        BY <3>2, <4>1 DEF CpuInv, DecimalInv
      <4>3. /\ (x % D) = x /\ Processor!Number(x) = x /\ x \in 0..(Ten - 1)
            /\ (y % D) = y /\ Processor!Number(y) = y /\ y \in 0..(Ten - 1)
        BY <3>2, <4>1, OneDigit
      <4>4. n = x + y + c
        BY <3>1, <4>1, <4>3 DEF Processor!DecimalResult
      <4>5. n \in 0..(2 * Ten - 1) /\ n \in Int
        BY <4>3, <4>4, DecimalSize
      <4>6. lo = n
        <5>1. n \in 0..(N - 1)
          BY <4>5, DecimalSize, WordSize
        <5>2. QED BY <4>2, <4>4, <4>5, <5>1, WrapCases
      <4>7. needed <=> (LowDigit(n) > Ten - 1 \/ n >= D)
        BY <1>2, <4>2, <4>3, <4>4, <4>6
      <4>8. /\ needed <=> n >= Ten
            /\ LowDigit(IF ~needed THEN n ELSE n + Gap) = n % Ten
            /\ ~(n > Max - Gap)
            /\ n \div Ten = IF needed THEN 1 ELSE 0
        BY <4>5, <4>7, UnpackedSum
      <4>9. icarry = 0
        BY <1>3, <1>15, <4>6, <4>8
      <4>10. lo' = n % Ten
        BY <1>4, <1>15, <4>6, <4>8
      <4>11. PICK k \in {-1, 0, 1} : k = IF needed THEN 1 ELSE 0
        OBVIOUS
      <4>12. hi' = Wrap(hi + k)
        <5>1. Wrap(hi + 0) = hi
          BY <1>6, WrapCases, WordSize
        <5>2. CASE needed
          <6>1. hi + 1 + icarry = hi + k
            BY <1>6, <4>9, <4>11, <5>2
          <6>2. QED BY <1>4, <1>15, <5>2, <6>1
        <5>3. CASE ~needed
          BY <1>4, <4>11, <5>1, <5>3
        <5>4. QED BY <5>2, <5>3
      <4>13. needed <=> n \notin 0..(Ten - 1)
        BY <4>5, <4>8, DecimalSize
      <4>14. n \div Ten = k
        BY <4>8, <4>11
      <4>15. QED BY <1>14, <4>5, <4>10, <4>12, <4>13, <4>14
    <3>3. QED BY <3>1, <3>2 DEF Processor!AdjustUnpacked
  <2>2. Processor!Execute(i)
    BY <1>4, <1>5, <1>7, <1>8, <1>12, <1>15, <2>1, SameNames
       DEF Processor!Execute, Processor!Adjustments, Processor!None, None, control
  <2>3. QED BY <1>5, <1>11, <2>2 DEF Processor!Next
<1>16. CASE i.op = "AAS"
  <2>1. Processor!AdjustUnpacked("sub", r)
    <3>1. PICK n : n = Processor!DecimalResult("sub")
      OBVIOUS
    <3>2. ASSUME decimal.kind = "sub", decimal.x < Ten, decimal.y < Ten
          PROVE  r.lo = n % Ten /\ r.hi = Processor!Wrap(hi + n \div Ten)
                 /\ {"C", "A"} \cap r.flags = (IF n \in 0..(Ten - 1) THEN {} ELSE {"C", "A"})
      <4>1. PICK x \in Word, y \in Word, c \in {0, 1} : x = decimal.x /\ y = decimal.y /\ c = decimal.c
        BY <3>2 DEF CpuInv, DecimalInv
      <4>2. lo = Wrap(x - y - c) /\ ("A" \in eflags <=> (x % D) < (y % D) + c)
        BY <3>2, <4>1 DEF CpuInv, DecimalInv
      <4>3. /\ (x % D) = x /\ Processor!Number(x) = x /\ x \in 0..(Ten - 1)
            /\ (y % D) = y /\ Processor!Number(y) = y /\ y \in 0..(Ten - 1)
        BY <3>2, <4>1, OneDigit
      <4>4. n = x - y - c
        BY <3>1, <4>1, <4>3 DEF Processor!DecimalResult
      <4>5. n \in (-Ten)..(Ten - 1) /\ n \in Int
        BY <4>3, <4>4, DecimalSize
      <4>6. lo = IF n < 0 THEN n + N ELSE n
        <5>1. n < 0 => n \in (-N)..(-1)
          BY <4>5, DecimalSize, WordSize
        <5>2. ~(n < 0) => n \in 0..(N - 1)
          BY <4>5, DecimalSize, WordSize
        <5>3. QED BY <4>2, <4>4, <4>5, <5>1, <5>2, WrapCases
      <4>7. needed <=> (LowDigit(lo) > Ten - 1 \/ n < 0)
        BY <1>2, <4>2, <4>3, <4>4
      <4>8. /\ needed <=> n < 0
            /\ LowDigit(IF ~needed THEN lo ELSE lo - Gap) = n % Ten
            /\ needed => ~(lo < Gap)
            /\ n \div Ten = IF needed THEN -1 ELSE 0
        BY <1>6, <4>5, <4>6, <4>7, UnpackedDifference
      <4>9. needed => icarry = 0
        BY <1>3, <1>16, <4>8
      <4>10. lo' = n % Ten
        BY <1>4, <1>16, <4>8
      <4>11. PICK k \in {-1, 0, 1} : k = IF needed THEN -1 ELSE 0
        OBVIOUS
      <4>12. hi' = Wrap(hi + k)
        <5>1. Wrap(hi + 0) = hi
          BY <1>6, WrapCases, WordSize
        <5>2. CASE needed
          <6>1. hi - 1 - icarry = hi + k
            BY <1>6, <4>9, <4>11, <5>2
          <6>2. QED BY <1>4, <1>16, <5>2, <6>1
        <5>3. CASE ~needed
          BY <1>4, <4>11, <5>1, <5>3
        <5>4. QED BY <5>2, <5>3
      <4>13. needed <=> n \notin 0..(Ten - 1)
        BY <4>5, <4>8, DecimalSize
      <4>14. n \div Ten = k
        BY <4>8, <4>11
      <4>15. QED BY <1>14, <4>5, <4>10, <4>12, <4>13, <4>14
    <3>3. QED BY <3>1, <3>2 DEF Processor!AdjustUnpacked
  <2>2. Processor!Execute(i)
    BY <1>4, <1>5, <1>7, <1>8, <1>12, <1>16, <2>1, SameNames
       DEF Processor!Execute, Processor!Adjustments, Processor!None, None, control
  <2>3. QED BY <1>5, <1>11, <2>2 DEF Processor!Next
<1>17. QED BY <1>5, <1>15, <1>16

-------------------------------------------------------------------------------
(* The sum of decimals of two digits.                                        *)

LEMMA Monotone ==
  ASSUME NEW d \in Nat, NEW a \in Int, NEW b \in Int, a <= b
  PROVE  a * d <= b * d /\ a * d \in Int /\ b * d \in Int
<1>1. PICK k \in Nat : b = a + k
  <2>1. b - a \in Nat /\ b = a + (b - a)
    OBVIOUS
  <2>2. QED BY <2>1
<1>2. (a + k) * d = a * d + k * d /\ k * d >= 0 /\ k * d \in Int /\ a * d \in Int
  OBVIOUS
<1>3. QED BY <1>1, <1>2

LEMMA SquareWord == W = 2 * Digit => N = D * D
<1> SUFFICES ASSUME W = 2 * Digit PROVE N = D * D
  OBVIOUS
<1>1. W = Digit + Digit /\ Digit \in Nat /\ Digit + Digit <= W
  BY WordAssumption
<1>2. QED BY <1>1, PowerSum DEF N, D

LEMMA RestUnique ==
  ASSUME NEW b \in Nat, b > 0, NEW k \in Int, NEW m \in 0..(b - 1)
  PROVE  ((b * k + m) % b) = m
  OBVIOUS

\* Two digits, and what the base makes of a number with one more.
LEMMA PackNumber ==
  ASSUME NEW u \in 0..(Ten - 1), NEW l \in 0..(Ten - 1), NEW k \in Int, NEW n \in Int,
         n = Ten * (u + Ten * k) + l
  PROVE  /\ Processor!Pack(n % (Ten * Ten)) = u * D + l
         /\ n \in 0..(Ten * Ten - 1) <=> k = 0
<1>0. u \in Int /\ l \in Int /\ Ten \in Nat /\ Ten > 0
  BY DecimalSize
<1>1. PICK b \in Nat : b = Ten * Ten /\ b > 0
  BY <1>0
<1>2. PICK m \in 0..(b - 1) : m = Ten * u + l
  <2>1. u * Ten <= (Ten - 1) * Ten /\ (Ten - 1) * Ten = b - Ten /\ u * Ten = Ten * u /\ u * Ten \in Int
    BY <1>0, <1>1, Monotone
  <2>2. Ten * u >= 0
    BY <1>0
  <2>3. QED BY <1>0, <2>1, <2>2
<1>3. n = b * k + m
  <2>1. Ten * (u + Ten * k) = Ten * u + (Ten * Ten) * k
    BY <1>0
  <2>2. Ten * u \in Int /\ b * k \in Int
    BY <1>0, <1>1
  <2>3. QED BY <1>0, <1>1, <1>2, <2>1, <2>2
<1>4. (n % b) = m
  <2>1. ((b * k + m) % b) = m
    BY <1>1, RestUnique
  <2>2. QED BY <1>3, <2>1
<1>5. m \div Ten = u /\ (m % Ten) = l
  <2>1. (Ten * u + l) \div Ten = u /\ ((Ten * u + l) % Ten) = l
    BY <1>0
  <2>2. QED BY <1>2, <2>1
<1>6. Processor!Pack(m) = u * D + l
  BY <1>5 DEF Processor!Pack, D
<1>7. n \in 0..(b - 1) <=> k = 0
  <2>1. k >= 1 => b * k >= b
    <3>1. k >= 1 => 1 * b <= k * b
      BY <1>1, Monotone
    <3>2. k * b = b * k /\ 1 * b = b
      BY <1>1
    <3>3. QED BY <3>1, <3>2
  <2>2. k <= -1 => b * k <= -b
    <3>1. k <= -1 => k * b <= (-1) * b
      BY <1>1, Monotone
    <3>2. k * b = b * k /\ (-1) * b = -b
      BY <1>1
    <3>3. QED BY <3>1, <3>2
  <2>3. k = 0 => b * k = 0
    BY <1>1
  <2>4. b * k \in Int
    BY <1>1
  <2>5. QED BY <1>1, <1>3, <2>1, <2>2, <2>3, <2>4
<1>8. QED BY <1>1, <1>4, <1>6, <1>7

LEMMA PackedIs ==
  ASSUME NEW u \in 0..(Ten - 1), NEW l \in 0..(Ten - 1), N = D * D
  PROVE  u * D + l \in 0..Packed99 /\ Packed99 < N /\ u * D + l \in Word /\ u * D + l \in Int
<1>0. u \in Int /\ l \in Int /\ u <= Ten - 1
  BY DecimalSize
<1>1. u * D <= (Ten - 1) * D /\ u * D \in Int /\ (Ten - 1) * D \in Int
  BY <1>0, DecimalSize, Monotone
<1>2. u * D >= 0
  BY <1>0, DecimalSize
<1>3. (Ten - 1) * D <= (D - 1) * D /\ (D - 1) * D = N - D
  BY DecimalSize, Monotone
<1>4. QED BY <1>0, <1>1, <1>2, <1>3, DecimalSize, WordSize

\* DAA: sh and sl are the sums of the digits.
LEMMA PackedSum ==
  ASSUME N = D * D, NEW sh \in 0..(2 * Ten - 2), NEW sl \in 0..(2 * Ten - 1), NEW x \in Word,
         NEW z \in {0, 1}, z = 1 <=> sh * D + sl >= N, x = sh * D + sl - z * N,
         NEW low \in BOOLEAN, low <=> ((x % D) > Ten - 1 \/ sl >= D),
         NEW high \in BOOLEAN, high <=> (x > Packed99 \/ z = 1)
  PROVE  /\ Wrap(x + (IF low THEN Gap ELSE 0) + (IF high THEN Gap * D ELSE 0))
              = Processor!Pack((Ten * sh + sl) % (Ten * Ten))
         /\ high <=> Ten * sh + sl \notin 0..(Ten * Ten - 1)
<1>0. sh \in Int /\ sl \in Int /\ x \in Int /\ z \in Int
  BY DecimalSize, WordSize
<1>1. PICK a \in {0, 1} : a = IF sl >= Ten THEN 1 ELSE 0
  OBVIOUS
<1>2. PICK l \in 0..(Ten - 1) : l = sl - a * Ten
  <2>1. a * Ten = IF sl >= Ten THEN Ten ELSE 0
    BY <1>1, DecimalSize
  <2>2. QED BY <1>0, <2>1, DecimalSize
<1>3. PICK t \in 0..(2 * Ten - 1) : t = sh + a
  BY <1>0, <1>1, DecimalSize
<1>4. PICK h \in {0, 1} : h = IF t >= Ten THEN 1 ELSE 0
  OBVIOUS
<1>5. PICK u \in 0..(Ten - 1) : u = t - h * Ten
  <2>1. h * Ten = IF t >= Ten THEN Ten ELSE 0
    BY <1>4, DecimalSize
  <2>2. t \in Int
    BY <1>3, DecimalSize
  <2>3. QED BY <1>3, <2>1, <2>2, DecimalSize
<1>6. PICK p \in Int : p = sh * D
  BY <1>0, DecimalSize
<1>7. low <=> a = 1
  <2>1. (x % D) = (sl % D)
    <3>1. PICK v \in Int, r \in 0..(D - 1) : sl = D * v + r /\ r = (sl % D)
      <4>1. sl = D * (sl \div D) + (sl % D) /\ sl \div D \in Int /\ (sl % D) \in 0..(D - 1)
        BY <1>0, Digits
      <4>2. QED BY <4>1
    <3>2. D * (sh - z * D + v) = sh * D - z * (D * D) + D * v
      BY <1>0, DecimalSize
    <3>3. x = D * (sh - z * D + v) + r
      <4>1. z * (D * D) \in Int /\ D * v \in Int /\ z * N = z * (D * D)
        BY <1>0, DecimalSize
      <4>2. QED BY <1>0, <1>6, <3>1, <3>2, <4>1
    <3>4. ((D * (sh - z * D + v) + r) % D) = r
      <4>1. PICK q \in Int : q = sh - z * D + v
        BY <1>0, DecimalSize
      <4>2. QED BY <4>1, DivideDigit
    <3>5. QED BY <3>1, <3>3, <3>4
  <2>2. sl < D => (sl % D) = sl
    BY <1>0, DecimalSize, SmallDivision
  <2>3. QED BY <1>0, <1>1, <2>1, <2>2, DecimalSize
<1>8. high <=> h = 1
  <2>1. CASE sh >= Ten
    <3>1. h = 1
      BY <1>0, <1>1, <1>3, <1>4, <2>1, DecimalSize
    <3>2. Ten * D <= p
      BY <1>0, <1>6, <2>1, DecimalSize, Monotone
    <3>3. Ten * D = (Ten - 1) * D + D /\ (Ten - 1) * D \in Int
      BY DecimalSize
    <3>4. z = 0 => x > Packed99
      BY <1>0, <1>6, <3>2, <3>3, DecimalSize
    <3>5. QED BY <3>1, <3>4
  <2>2. CASE sh <= Ten - 1
    <3>1. (Ten - 1) * D <= (D - 1) * D /\ (D - 1) * D = N - D /\ (Ten - 1) * D \in Int
      BY DecimalSize, Monotone
    <3>2. CASE sh = Ten - 1
      <4>1. p = (Ten - 1) * D /\ t = Ten - 1 + a
        BY <1>3, <1>6, <3>2
      <4>2. CASE a = 1
        <5>1. h = 1 /\ sl > Ten - 1
          BY <1>0, <1>1, <1>4, <4>1, <4>2, DecimalSize
        <5>2. z = 0 => x > Packed99
          BY <1>0, <1>6, <4>1, <5>1, <3>1, DecimalSize
        <5>3. QED BY <5>1, <5>2
      <4>3. CASE a = 0
        <5>1. h = 0 /\ sl <= Ten - 1
          BY <1>0, <1>1, <1>4, <4>1, <4>3, DecimalSize
        <5>2. p + sl < N
          BY <1>0, <1>6, <3>1, <4>1, <5>1, DecimalSize, WordSize
        <5>3. z = 0
          BY <1>6, <5>2, WordSize, <1>0
        <5>4. ~(x > Packed99)
          BY <1>0, <1>6, <4>1, <5>1, <5>3, <3>1, DecimalSize
        <5>5. QED BY <5>1, <5>3, <5>4
      <4>4. QED BY <4>2, <4>3
    <3>3. CASE sh <= Ten - 2
      <4>1. p <= (Ten - 2) * D /\ (Ten - 2) * D = (Ten - 1) * D - D
        BY <1>0, <1>6, <3>3, DecimalSize, Monotone
      <4>2. h = 0
        BY <1>0, <1>1, <1>3, <1>4, <3>3, DecimalSize
      <4>3. p + sl <= Packed99
        BY <1>0, <1>6, <3>1, <4>1, DecimalSize
      <4>4. Packed99 < N
        BY <3>1, DecimalSize, WordSize
      <4>5. z = 0
        BY <1>0, <1>6, <3>1, <4>3, <4>4, DecimalSize, WordSize
      <4>6. ~(x > Packed99)
        BY <1>0, <1>6, <3>1, <4>3, <4>5, DecimalSize
      <4>7. QED BY <4>2, <4>5, <4>6
    <3>4. QED BY <1>0, <2>2, <3>2, <3>3, DecimalSize
  <2>3. QED BY <1>0, <2>1, <2>2, DecimalSize
<1>9. PICK n \in Int : n = Ten * sh + sl
  BY <1>0, DecimalSize
<1>10. n = Ten * (u + Ten * h) + l
  <2>1. u + Ten * h = sh + a /\ sl = l + a * Ten
    BY <1>0, <1>2, <1>3, <1>5, DecimalSize
  <2>2. Ten * (sh + a) = Ten * sh + a * Ten /\ Ten * sh \in Int /\ a * Ten \in Int
    BY <1>0, DecimalSize
  <2>3. QED BY <1>0, <1>2, <1>9, <2>1, <2>2, DecimalSize
<1>11. Processor!Pack(n % (Ten * Ten)) = u * D + l /\ (n \in 0..(Ten * Ten - 1) <=> h = 0)
  <2>1. h \in Int
    OBVIOUS
  <2>2. QED BY <1>10, <2>1, PackNumber
<1>12. PICK y \in Int : y = x + (IF low THEN Gap ELSE 0) + (IF high THEN Gap * D ELSE 0)
  <2>1. Gap \in Int /\ Gap * D \in Int
    BY DecimalSize
  <2>2. QED BY <1>0, <2>1
<1>13. y - (h - z) * N = u * D + l
  <2>1. y = x + a * Gap + h * (Gap * D)
    <3>1. PICK g \in Int : g = Gap * D
      BY DecimalSize
    <3>2. QED BY <1>0, <1>7, <1>8, <1>12, <3>1, DecimalSize
  <2>2. Gap * D = N - Ten * D /\ Ten * D \in Int
    <3>1. (D - Ten) * D = D * D - Ten * D
      BY DecimalSize
    <3>2. QED BY <3>1, DecimalSize
  <2>3. u * D = sh * D + a * D - h * (Ten * D) /\ a * D \in Int
    <3>1. (sh + a - h * Ten) * D = sh * D + a * D - h * (Ten * D)
      BY <1>0, DecimalSize
    <3>2. QED BY <1>3, <1>5, <3>1, DecimalSize
  <2>4. a * Gap = a * D - a * Ten /\ a * Ten \in Int
    BY DecimalSize
  <2>5. h * (N - Ten * D) = h * N - h * (Ten * D) /\ h * N \in Int /\ h * (Ten * D) \in Int /\ z * N \in Int
        /\ (h - z) * N = h * N - z * N
    BY <2>2, DecimalSize, WordSize
  <2>6. x = p + sl - z * N /\ u * D = p + a * D - h * (Ten * D)
    BY <1>6, <2>3
  <2>7. y = x + (a * D - a * Ten) + (h * N - h * (Ten * D))
    BY <2>1, <2>2, <2>4, <2>5
  <2>8. QED BY <1>0, <1>2, <2>3, <2>4, <2>5, <2>6, <2>7
<1>14. Wrap(y) = u * D + l
  <2>1. PICK q \in Int : q = h - z
    OBVIOUS
  <2>2. y - q * N \in Word
    BY <1>13, <2>1, PackedIs
  <2>3. Wrap(y) = y - q * N
    BY <2>2, WrapUnique
  <2>4. QED BY <1>13, <2>1, <2>3
<1>15. QED BY <1>8, <1>9, <1>11, <1>12, <1>14

-------------------------------------------------------------------------------
(* The difference of decimals of two digits.                                 *)

\* DAS: dh and dl are the differences of the digits.
LEMMA PackedDifference ==
  ASSUME N = D * D, NEW dh \in (1 - Ten)..(Ten - 1), NEW dl \in (-Ten)..(Ten - 1), NEW x \in Word,
         NEW z \in {0, 1}, z = 1 <=> dh * D + dl < 0, x = dh * D + dl + z * N,
         NEW low \in BOOLEAN, low <=> ((x % D) > Ten - 1 \/ dl < 0),
         NEW high \in BOOLEAN, high <=> (x > Packed99 \/ z = 1),
         NEW borrow \in BOOLEAN, borrow <=> low /\ (x < Gap \/ z = 1)
  PROVE  /\ Wrap(x - (IF low THEN Gap ELSE 0) - (IF high THEN Gap * D ELSE 0))
              = Processor!Pack((Ten * dh + dl) % (Ten * Ten))
         /\ high \/ borrow <=> Ten * dh + dl \notin 0..(Ten * Ten - 1)
<1>0. dh \in Int /\ dl \in Int /\ x \in Int /\ z \in Int
  BY DecimalSize, WordSize
<1>1. PICK a \in {0, 1} : a = IF dl < 0 THEN 1 ELSE 0
  OBVIOUS
<1>2. PICK l \in 0..(Ten - 1) : l = dl + a * Ten
  <2>1. a * Ten = IF dl < 0 THEN Ten ELSE 0
    BY <1>1, DecimalSize
  <2>2. QED BY <1>0, <2>1, DecimalSize
<1>3. PICK t \in (-Ten)..(Ten - 1) : t = dh - a
  BY <1>0, <1>1, DecimalSize
<1>4. PICK h \in {0, 1} : h = IF t < 0 THEN 1 ELSE 0
  OBVIOUS
<1>5. PICK u \in 0..(Ten - 1) : u = t + h * Ten
  <2>1. h * Ten = IF t < 0 THEN Ten ELSE 0
    BY <1>4, DecimalSize
  <2>2. t \in Int
    BY <1>3, DecimalSize
  <2>3. QED BY <1>3, <2>1, <2>2, DecimalSize
<1>6. PICK p \in Int : p = dh * D
  BY <1>0, DecimalSize
<1>7. low <=> a = 1
  <2>1. (x % D) = (dl % D)
    <3>1. PICK v \in Int, r \in 0..(D - 1) : dl = D * v + r /\ r = (dl % D)
      <4>1. dl = D * (dl \div D) + (dl % D) /\ dl \div D \in Int /\ (dl % D) \in 0..(D - 1)
        BY <1>0, Digits
      <4>2. QED BY <4>1
    <3>2. D * (dh + z * D + v) = dh * D + z * (D * D) + D * v
      BY <1>0, DecimalSize
    <3>3. x = D * (dh + z * D + v) + r
      <4>1. z * (D * D) \in Int /\ D * v \in Int /\ z * N = z * (D * D)
        BY <1>0, DecimalSize
      <4>2. QED BY <1>0, <1>6, <3>1, <3>2, <4>1
    <3>4. ((D * (dh + z * D + v) + r) % D) = r
      <4>1. PICK q \in Int : q = dh + z * D + v
        BY <1>0, DecimalSize
      <4>2. QED BY <4>1, DivideDigit
    <3>5. QED BY <3>1, <3>3, <3>4
  <2>2. dl >= 0 => (dl % D) = dl
    <3>1. dl >= 0 => dl \in 0..(D - 1)
      BY <1>0, DecimalSize
    <3>2. QED BY <1>0, <3>1, DecimalSize, SmallDivision
  <2>3. QED BY <1>0, <1>1, <2>1, <2>2, DecimalSize
<1>8. (high <=> h = 1) /\ (borrow => h = 1) /\ z = h
  <2>1. CASE dh < 0
    <3>1. h = 1
      BY <1>0, <1>1, <1>3, <1>4, <2>1, DecimalSize
    <3>2. p <= (-1) * D /\ (-1) * D = -D
      BY <1>0, <1>6, <2>1, DecimalSize, Monotone
    <3>3. z = 1
      BY <1>0, <1>6, <3>2, DecimalSize
    <3>4. QED BY <3>1, <3>3
  <2>2. CASE dh = 0
    <3>1. p = 0
      BY <1>6, <2>2, DecimalSize
    <3>2. z = 1 <=> dl < 0
      BY <1>0, <1>6, <3>1
    <3>3. h = 1 <=> dl < 0
      BY <1>0, <1>1, <1>3, <1>4, <2>2, DecimalSize
    <3>4. z = 0 => x <= Ten - 1
      BY <1>0, <1>6, <3>1, DecimalSize, WordSize
    <3>5. (Ten - 1) * D >= 0 /\ (Ten - 1) * D \in Int
      BY DecimalSize
    <3>6. z = 0 => ~(x > Packed99)
      BY <1>0, <3>4, <3>5, DecimalSize
    <3>7. z = 0 => ~low
      BY <1>1, <1>7, <3>2
    <3>8. QED BY <3>2, <3>3, <3>6, <3>7
  <2>3. CASE dh > 0
    <3>1. h = 0 /\ t >= 0
      BY <1>0, <1>1, <1>3, <1>4, <2>3, DecimalSize
    <3>2. 1 * D <= p /\ p <= (Ten - 1) * D /\ 1 * D = D /\ (Ten - 1) * D \in Int
      BY <1>0, <1>6, <2>3, DecimalSize, Monotone
    <3>3. z = 0
      BY <1>0, <1>6, <3>2, DecimalSize
    <3>4. x = p + dl
      BY <1>0, <1>6, <3>3, WordSize
    <3>5. ~(x > Packed99)
      BY <1>0, <3>2, <3>4, DecimalSize
    <3>6. ~(x < Gap)
      BY <1>0, <3>2, <3>4, DecimalSize
    <3>7. QED BY <3>1, <3>3, <3>5, <3>6
  <2>4. QED BY <1>0, <2>1, <2>2, <2>3
<1>9. PICK n \in Int : n = Ten * dh + dl
  BY <1>0, DecimalSize
<1>10. PICK k \in Int : k = -h
  OBVIOUS
<1>11. n = Ten * (u + Ten * k) + l
  <2>1. h * Ten \in Int /\ Ten * k = -(h * Ten) /\ a * Ten \in Int
    BY <1>10, DecimalSize
  <2>2. u + Ten * k = dh - a /\ dl = l - a * Ten
    BY <1>0, <1>2, <1>3, <1>5, <2>1, DecimalSize
  <2>3. Ten * (dh - a) = Ten * dh - a * Ten /\ Ten * dh \in Int /\ a * Ten \in Int
    BY <1>0, DecimalSize
  <2>4. QED BY <1>0, <1>2, <1>9, <2>2, <2>3, DecimalSize
<1>12. Processor!Pack(n % (Ten * Ten)) = u * D + l /\ (n \in 0..(Ten * Ten - 1) <=> h = 0)
  <2>1. k = 0 <=> h = 0
    BY <1>10
  <2>2. QED BY <1>11, <2>1, PackNumber
<1>13. PICK y \in Int : y = x - (IF low THEN Gap ELSE 0) - (IF high THEN Gap * D ELSE 0)
  <2>1. Gap \in Int /\ Gap * D \in Int
    BY DecimalSize
  <2>2. QED BY <1>0, <2>1
<1>14. y - (z - h) * N = u * D + l
  <2>1. y = x - a * Gap - h * (Gap * D)
    <3>1. PICK g \in Int : g = Gap * D
      BY DecimalSize
    <3>2. QED BY <1>0, <1>7, <1>8, <1>13, <3>1, DecimalSize
  <2>2. Gap * D = N - Ten * D /\ Ten * D \in Int
    <3>1. (D - Ten) * D = D * D - Ten * D
      BY DecimalSize
    <3>2. QED BY <3>1, DecimalSize
  <2>3. u * D = dh * D - a * D + h * (Ten * D) /\ a * D \in Int
    <3>1. (dh - a + h * Ten) * D = dh * D - a * D + h * (Ten * D)
      BY <1>0, DecimalSize
    <3>2. QED BY <1>3, <1>5, <3>1, DecimalSize
  <2>4. a * Gap = a * D - a * Ten /\ a * Ten \in Int
    BY DecimalSize
  <2>5. h * (N - Ten * D) = h * N - h * (Ten * D) /\ h * N \in Int /\ h * (Ten * D) \in Int /\ z * N \in Int
        /\ (z - h) * N = z * N - h * N
    BY <2>2, DecimalSize, WordSize
  <2>6. x = p + dl + z * N /\ u * D = p - a * D + h * (Ten * D)
    BY <1>6, <2>3
  <2>7. y = x - (a * D - a * Ten) - (h * N - h * (Ten * D))
    BY <2>1, <2>2, <2>4, <2>5
  <2>8. QED BY <1>0, <1>2, <2>3, <2>4, <2>5, <2>6, <2>7
<1>15. Wrap(y) = u * D + l
  <2>1. PICK q \in Int : q = z - h
    OBVIOUS
  <2>2. y - q * N \in Word
    BY <1>14, <2>1, PackedIs
  <2>3. Wrap(y) = y - q * N
    BY <2>2, WrapUnique
  <2>4. QED BY <1>14, <2>1, <2>3
<1>16. high \/ borrow <=> n \notin 0..(Ten * Ten - 1)
  BY <1>8, <1>12
<1>17. QED BY <1>9, <1>12, <1>13, <1>15, <1>16

-------------------------------------------------------------------------------
(* DAA and DAS.                                                              *)

\* The flags after an adjustment of two digits.
LEMMA PackedFlags ==
  ASSUME NEW low \in BOOLEAN, NEW high \in BOOLEAN, NEW r \in Word,
         SetCC("EFLAGS", cc_dst, If(low, "A") \cup If(high, "C") \cup resultFlags(r), cc_src2)
  PROVE  /\ cc_op' \in CC_OP /\ FlagsHeld'
         /\ "C" \in eflags' <=> high
         /\ eflags' \cap {"P", "Z", "S"} = Processor!OfResult(r)
<1>1. resultFlags(r) \subseteq {"P", "Z", "S"}
  BY DEF resultFlags, If
<1>2. eflags' = If(low, "A") \cup If(high, "C") \cup resultFlags(r)
  BY FlagsSet DEF helper_cc_compute_all
<1>3. cc_op' = "EFLAGS" /\ cc_src' = If(low, "A") \cup If(high, "C") \cup resultFlags(r)
  BY DEF SetCC
<1>4. cc_op' \in CC_OP /\ FlagsHeld'
  BY <1>1, <1>3 DEF CC_OP, FlagsHeld, Flag, If
<1>5. "C" \in eflags' <=> high
  BY <1>1, <1>2 DEF If
<1>6. eflags' \cap {"P", "Z", "S"} = resultFlags(r)
  BY <1>1, <1>2 DEF If
<1>7. QED BY <1>4, <1>5, <1>6, ResultFlags

\* Two packed digits.
LEMMA TwoDigits ==
  ASSUME NEW x \in Word, Processor!Packed(x)
  PROVE  \E h \in 0..(Ten - 1), l \in 0..(Ten - 1) :
           x = h * D + l /\ l = (x % D) /\ Processor!Number(x) = Ten * h + l
<1>1. x \in Int /\ x >= 0
  BY WordSize
<1>2. (x % D) \in 0..(D - 1) /\ x \div D \in Int /\ x = D * (x \div D) + (x % D)
  BY <1>1, Digits
<1>3. (x % D) < Ten /\ x \div D < Ten /\ Processor!Number(x) = Ten * (x \div D) + (x % D)
  BY DEF Processor!Packed, Processor!Number, Processor!HighDigit, Processor!LowDigit, D
<1>4. PICK h \in Int, l \in 0..(Ten - 1) : h = x \div D /\ l = (x % D)
  BY <1>2, <1>3, DecimalSize
<1>5. h >= 0
  <2>1. h <= -1 => h * D <= (-1) * D /\ (-1) * D = -D
    BY DecimalSize, Monotone
  <2>2. x = h * D + l
    BY <1>2, <1>4, DecimalSize
  <2>3. h * D \in Int
    BY DecimalSize
  <2>4. QED BY <1>1, <2>1, <2>2, <2>3, DecimalSize
<1>6. h \in 0..(Ten - 1)
  BY <1>3, <1>4, <1>5, DecimalSize
<1>7. x = h * D + l
  BY <1>2, <1>4, DecimalSize
<1>8. QED BY <1>3, <1>4, <1>6, <1>7

\* The register and the flags are the decimal result.
LEMMA PackedOutcome ==
  ASSUME NEW kind \in {"add", "sub"}, NEW high \in BOOLEAN, hi' = hi,
         "C" \in eflags' <=> high,
         eflags' \cap {"P", "Z", "S"} = Processor!OfResult(lo'),
         decimal.kind = kind /\ Processor!Packed(decimal.x) /\ Processor!Packed(decimal.y) =>
           /\ lo' = Processor!Pack(Processor!DecimalResult(kind) % (Ten * Ten))
           /\ high <=> Processor!DecimalResult(kind) \notin 0..(Ten * Ten - 1)
  PROVE  Processor!AdjustPacked(kind, [lo |-> lo', hi |-> hi', flags |-> eflags'])
<1>1. PICK r : r = [lo |-> lo', hi |-> hi', flags |-> eflags']
  OBVIOUS
<1>2. r.lo = lo' /\ r.hi = hi' /\ r.flags = eflags'
  BY <1>1
<1>3. PICK n : n = Processor!DecimalResult(kind)
  OBVIOUS
<1>4. PICK set : set = 0..(Ten * Ten - 1)
  OBVIOUS
<1>5. ASSUME decimal.kind = kind, Processor!Packed(decimal.x), Processor!Packed(decimal.y)
      PROVE  /\ r.lo = Processor!Pack(n % (Ten * Ten)) /\ r.hi = hi
             /\ ("C" \in r.flags) = (n \notin set)
             /\ r.flags \cap {"P", "Z", "S"} = Processor!OfResult(r.lo)
  <2>1. r.lo = Processor!Pack(n % (Ten * Ten)) /\ r.hi = hi
    BY <1>2, <1>3, <1>5
  <2>2. "C" \in r.flags <=> n \notin set
    BY <1>2, <1>3, <1>4, <1>5
  <2>3. ("C" \in r.flags) = (n \notin set)
    BY <2>2
  <2>4. r.flags \cap {"P", "Z", "S"} = Processor!OfResult(r.lo)
    BY <1>2
  <2>5. QED BY <2>1, <2>3, <2>4, Zenon
<1>6. Processor!AdjustPacked(kind, r)
  BY <1>3, <1>4, <1>5, Zenon DEF Processor!AdjustPacked
<1>7. QED BY <1>1, <1>6, Zenon

LEMMA AdjustAfterAdditionStep ==
  ASSUME CpuInv, AdjustAfterAddition
  PROVE  CpuInv' /\ Processor!Next
<1>1. PICK i \in Available : AdjustAfterAddition!(i)
  BY DEF AdjustAfterAddition
<1>2. PICK low \in BOOLEAN : low <=> (LowDigit(lo) > Ten - 1 \/ "A" \in eflags)
  OBVIOUS
<1>3. PICK high \in BOOLEAN : high <=> (lo > Packed99 \/ "C" \in eflags)
  OBVIOUS
<1>4. PICK r : r = Wrap(lo + (IF low THEN Gap ELSE 0) + (IF high THEN Gap * D ELSE 0))
  OBVIOUS
<1>5. /\ Executes(i, {"DAA"}) /\ SetResult(r) /\ decimal' = None
      /\ SetCC("EFLAGS", cc_dst, If(low, "A") \cup If(high, "C") \cup resultFlags(r), cc_src2)
  BY <1>1, <1>2, <1>3, <1>4 DEF NotDecimal, D
<1>6. /\ insn' = i /\ i \in UNION Range(Program) /\ i.op = "DAA"
      /\ fault = FALSE /\ control' = control /\ image' = image /\ system' \subseteq System
      /\ step' \in 0..Len(Program)
  <2>1. /\ insn' = i /\ i \in UNION Range(Program) /\ i.op \in {"DAA"}
        /\ fault = FALSE /\ control' = control /\ image' = image /\ system' \subseteq System
        /\ step' \in 0..Len(Program)
    BY <1>5, FetchedPlain, Zenon
  <2>2. QED BY <2>1
<1>7. lo' = r /\ hi' = hi /\ fault' = fault
  BY <1>5 DEF SetResult
<1>8. lo \in Word /\ hi \in Word /\ lo \in Int
  BY WordSize DEF CpuInv, TypeOK
<1>9. r \in Word
  <2>1. PICK g \in Int : g = Gap * D
    BY DecimalSize
  <2>2. lo + (IF low THEN Gap ELSE 0) + (IF high THEN g ELSE 0) \in Int
    BY <1>8, DecimalSize
  <2>3. QED BY <1>4, <2>1, <2>2, WrapCases
<1>10. /\ cc_op' \in CC_OP /\ FlagsHeld'
       /\ "C" \in eflags' <=> high
       /\ eflags' \cap {"P", "Z", "S"} = Processor!OfResult(r)
  BY <1>5, <1>9, PackedFlags
<1>11. CpuInv'
  BY <1>5, <1>6, <1>7, <1>8, <1>9, <1>10, TypeKept, NoDecimal DEF CpuInv
<1>12. N = D * D
  BY <1>6, WordAssumption, SquareWord
<1>13. ASSUME decimal.kind = "add", Processor!Packed(decimal.x), Processor!Packed(decimal.y)
       PROVE  /\ lo' = Processor!Pack(Processor!DecimalResult("add") % (Ten * Ten))
              /\ high <=> Processor!DecimalResult("add") \notin 0..(Ten * Ten - 1)
  <2>1. PICK x \in Word, y \in Word, c \in {0, 1} : x = decimal.x /\ y = decimal.y /\ c = decimal.c
    BY <1>13 DEF CpuInv, DecimalInv
  <2>2. /\ lo = Wrap(x + y + c) /\ ("C" \in eflags <=> x + y + c >= N)
        /\ ("A" \in eflags <=> (x % D) + (y % D) + c >= D)
    BY <1>13, <2>1 DEF CpuInv, DecimalInv
  <2>3. PICK xh \in 0..(Ten - 1), xl \in 0..(Ten - 1) :
          x = xh * D + xl /\ xl = (x % D) /\ Processor!Number(x) = Ten * xh + xl
    BY <1>13, <2>1, TwoDigits
  <2>4. PICK yh \in 0..(Ten - 1), yl \in 0..(Ten - 1) :
          y = yh * D + yl /\ yl = (y % D) /\ Processor!Number(y) = Ten * yh + yl
    BY <1>13, <2>1, TwoDigits
  <2>5. PICK sh \in 0..(2 * Ten - 2) : sh = xh + yh
    BY DecimalSize
  <2>6. PICK sl \in 0..(2 * Ten - 1) : sl = xl + yl + c
    BY DecimalSize
  <2>7. xh \in Int /\ xl \in Int /\ yh \in Int /\ yl \in Int /\ c \in Int /\ x \in Int /\ y \in Int
        /\ sh \in Int /\ sl \in Int
    BY DecimalSize, WordSize
  <2>8. PICK p \in Int : p = sh * D
    BY <2>7, DecimalSize
  <2>9. x + y + c = p + sl
    <3>1. (xh + yh) * D = xh * D + yh * D /\ xh * D \in Int /\ yh * D \in Int
      BY <2>7, DecimalSize
    <3>2. QED BY <2>3, <2>4, <2>5, <2>6, <2>7, <2>8, <3>1
  <2>10. PICK z \in {0, 1} : z = IF x + y + c >= N THEN 1 ELSE 0
    OBVIOUS
  <2>11. lo = p + sl - z * N
    <3>1. x + y + c \in 0..(2 * N - 1) /\ x + y + c \in Int
      BY <2>7, WordSize
    <3>2. z * N = IF x + y + c >= N THEN N ELSE 0
      BY <2>10, WordSize
    <3>3. CASE x + y + c >= N
      <4>1. lo = x + y + c - N
        BY <2>2, <3>1, <3>3, WrapCases, WordSize
      <4>2. QED BY <2>7, <2>9, <3>2, <3>3, <4>1, WordSize
    <3>4. CASE ~(x + y + c >= N)
      <4>1. lo = x + y + c
        BY <2>2, <3>1, <3>4, WrapCases, WordSize
      <4>2. QED BY <2>7, <2>9, <3>2, <3>4, <4>1
    <3>5. QED BY <3>3, <3>4
  <2>12. z = 1 <=> sh * D + sl >= N
    BY <2>8, <2>9, <2>10
  <2>13. lo = sh * D + sl - z * N
    BY <2>8, <2>11
  <2>14. low <=> ((lo % D) > Ten - 1 \/ sl >= D)
    BY <1>2, <1>8, <2>2, <2>3, <2>4, <2>6, Digits
  <2>15. high <=> (lo > Packed99 \/ z = 1)
    BY <1>3, <2>2, <2>10
  <2>16. /\ Wrap(lo + (IF low THEN Gap ELSE 0) + (IF high THEN Gap * D ELSE 0))
              = Processor!Pack((Ten * sh + sl) % (Ten * Ten))
         /\ high <=> Ten * sh + sl \notin 0..(Ten * Ten - 1)
    BY <1>8, <1>12, <2>12, <2>13, <2>14, <2>15, PackedSum
  <2>17. Processor!DecimalResult("add") = Ten * sh + sl
    <3>1. Processor!DecimalResult("add") = (Ten * xh + xl) + (Ten * yh + yl) + c
      BY <2>1, <2>3, <2>4 DEF Processor!DecimalResult
    <3>2. Ten * (xh + yh) = Ten * xh + Ten * yh /\ Ten * xh \in Int /\ Ten * yh \in Int
      BY <2>7, DecimalSize
    <3>3. QED BY <2>5, <2>6, <2>7, <3>1, <3>2
  <2>18. QED BY <1>4, <1>7, <2>16, <2>17
<1>14. Processor!AdjustPacked("add", [lo |-> lo', hi |-> hi', flags |-> eflags'])
  BY <1>7, <1>10, <1>13, PackedOutcome
<1>15. Processor!Execute(i)
  BY <1>5, <1>6, <1>7, <1>8, <1>9, <1>14, SameNames
     DEF Processor!Execute, Processor!Adjustments, Processor!None, None, control
<1>16. QED BY <1>6, <1>11, <1>15 DEF Processor!Next

LEMMA AdjustAfterSubtractionStep ==
  ASSUME CpuInv, AdjustAfterSubtraction
  PROVE  CpuInv' /\ Processor!Next
<1>1. PICK i \in Available : AdjustAfterSubtraction!(i)
  BY DEF AdjustAfterSubtraction
<1>2. PICK low \in BOOLEAN : low <=> (LowDigit(lo) > Ten - 1 \/ "A" \in eflags)
  OBVIOUS
<1>3. PICK high \in BOOLEAN : high <=> (lo > Packed99 \/ "C" \in eflags)
  OBVIOUS
<1>4. PICK borrow \in BOOLEAN : borrow <=> (low /\ (lo < Gap \/ "C" \in eflags))
  OBVIOUS
<1>5. PICK out \in BOOLEAN : out <=> (high \/ borrow)
  OBVIOUS
<1>6. PICK r : r = Wrap(lo - (IF low THEN Gap ELSE 0) - (IF high THEN Gap * D ELSE 0))
  OBVIOUS
<1>7. /\ Executes(i, {"DAS"}) /\ SetResult(r) /\ decimal' = None
      /\ SetCC("EFLAGS", cc_dst, If(low, "A") \cup If(out, "C") \cup resultFlags(r), cc_src2)
  BY <1>1, <1>2, <1>3, <1>4, <1>5, <1>6 DEF NotDecimal, D, If
<1>8. /\ insn' = i /\ i \in UNION Range(Program) /\ i.op = "DAS"
      /\ fault = FALSE /\ control' = control /\ image' = image /\ system' \subseteq System
      /\ step' \in 0..Len(Program)
  <2>1. /\ insn' = i /\ i \in UNION Range(Program) /\ i.op \in {"DAS"}
        /\ fault = FALSE /\ control' = control /\ image' = image /\ system' \subseteq System
        /\ step' \in 0..Len(Program)
    BY <1>7, FetchedPlain, Zenon
  <2>2. QED BY <2>1
<1>9. lo' = r /\ hi' = hi /\ fault' = fault
  BY <1>7 DEF SetResult
<1>10. lo \in Word /\ hi \in Word /\ lo \in Int
  BY WordSize DEF CpuInv, TypeOK
<1>11. r \in Word
  <2>1. PICK g \in Int : g = Gap * D
    BY DecimalSize
  <2>2. lo - (IF low THEN Gap ELSE 0) - (IF high THEN g ELSE 0) \in Int
    BY <1>10, DecimalSize
  <2>3. QED BY <1>6, <2>1, <2>2, WrapCases
<1>12. /\ cc_op' \in CC_OP /\ FlagsHeld'
       /\ "C" \in eflags' <=> out
       /\ eflags' \cap {"P", "Z", "S"} = Processor!OfResult(r)
  BY <1>7, <1>11, PackedFlags
<1>13. CpuInv'
  BY <1>7, <1>8, <1>9, <1>10, <1>11, <1>12, TypeKept, NoDecimal DEF CpuInv
<1>14. N = D * D
  BY <1>8, WordAssumption, SquareWord
<1>15. ASSUME decimal.kind = "sub", Processor!Packed(decimal.x), Processor!Packed(decimal.y)
       PROVE  /\ lo' = Processor!Pack(Processor!DecimalResult("sub") % (Ten * Ten))
              /\ out <=> Processor!DecimalResult("sub") \notin 0..(Ten * Ten - 1)
  <2>1. PICK x \in Word, y \in Word, c \in {0, 1} : x = decimal.x /\ y = decimal.y /\ c = decimal.c
    BY <1>15 DEF CpuInv, DecimalInv
  <2>2. /\ lo = Wrap(x - y - c) /\ ("C" \in eflags <=> x < y + c)
        /\ ("A" \in eflags <=> (x % D) < (y % D) + c)
    BY <1>15, <2>1 DEF CpuInv, DecimalInv
  <2>3. PICK xh \in 0..(Ten - 1), xl \in 0..(Ten - 1) :
          x = xh * D + xl /\ xl = (x % D) /\ Processor!Number(x) = Ten * xh + xl
    BY <1>15, <2>1, TwoDigits
  <2>4. PICK yh \in 0..(Ten - 1), yl \in 0..(Ten - 1) :
          y = yh * D + yl /\ yl = (y % D) /\ Processor!Number(y) = Ten * yh + yl
    BY <1>15, <2>1, TwoDigits
  <2>5. PICK dh \in (1 - Ten)..(Ten - 1) : dh = xh - yh
    BY DecimalSize
  <2>6. PICK dl \in (-Ten)..(Ten - 1) : dl = xl - yl - c
    BY DecimalSize
  <2>7. xh \in Int /\ xl \in Int /\ yh \in Int /\ yl \in Int /\ c \in Int /\ x \in Int /\ y \in Int
        /\ dh \in Int /\ dl \in Int
    BY DecimalSize, WordSize
  <2>8. PICK p \in Int : p = dh * D
    BY <2>7, DecimalSize
  <2>9. x - y - c = p + dl
    <3>1. (xh - yh) * D = xh * D - yh * D /\ xh * D \in Int /\ yh * D \in Int
      BY <2>7, DecimalSize
    <3>2. QED BY <2>3, <2>4, <2>5, <2>6, <2>7, <2>8, <3>1
  <2>10. PICK z \in {0, 1} : z = IF x < y + c THEN 1 ELSE 0
    OBVIOUS
  <2>11. lo = p + dl + z * N
    <3>1. x - y - c \in (-N)..(N - 1) /\ x - y - c \in Int
      BY <2>7, WordSize
    <3>2. z * N = IF x < y + c THEN N ELSE 0
      BY <2>10, WordSize
    <3>3. CASE x < y + c
      <4>1. lo = x - y - c + N
        BY <2>2, <2>7, <3>1, <3>3, WrapCases, WordSize
      <4>2. QED BY <2>9, <3>2, <3>3, <4>1
    <3>4. CASE ~(x < y + c)
      <4>1. lo = x - y - c
        BY <2>2, <2>7, <3>1, <3>4, WrapCases, WordSize
      <4>2. QED BY <2>7, <2>9, <3>2, <3>4, <4>1
    <3>5. QED BY <3>3, <3>4
  <2>12. z = 1 <=> dh * D + dl < 0
    BY <2>7, <2>8, <2>9, <2>10
  <2>13. lo = dh * D + dl + z * N
    BY <2>8, <2>11
  <2>14. low <=> ((lo % D) > Ten - 1 \/ dl < 0)
    BY <1>2, <1>10, <2>2, <2>3, <2>4, <2>6, <2>7, Digits
  <2>15. high <=> (lo > Packed99 \/ z = 1)
    BY <1>3, <2>2, <2>10
  <2>16. borrow <=> low /\ (lo < Gap \/ z = 1)
    BY <1>4, <2>2, <2>10
  <2>17. /\ Wrap(lo - (IF low THEN Gap ELSE 0) - (IF high THEN Gap * D ELSE 0))
              = Processor!Pack((Ten * dh + dl) % (Ten * Ten))
         /\ high \/ borrow <=> Ten * dh + dl \notin 0..(Ten * Ten - 1)
    BY <1>10, <1>14, <2>12, <2>13, <2>14, <2>15, <2>16, PackedDifference
  <2>18. Processor!DecimalResult("sub") = Ten * dh + dl
    <3>1. Processor!DecimalResult("sub") = (Ten * xh + xl) - (Ten * yh + yl) - c
      BY <2>1, <2>3, <2>4 DEF Processor!DecimalResult
    <3>2. Ten * (xh - yh) = Ten * xh - Ten * yh /\ Ten * xh \in Int /\ Ten * yh \in Int
      BY <2>7, DecimalSize
    <3>3. QED BY <2>5, <2>6, <2>7, <3>1, <3>2
  <2>19. QED BY <1>5, <1>6, <1>9, <2>17, <2>18
<1>16. Processor!AdjustPacked("sub", [lo |-> lo', hi |-> hi', flags |-> eflags'])
  BY <1>9, <1>12, <1>15, PackedOutcome
<1>17. Processor!Execute(i)
  BY <1>7, <1>8, <1>9, <1>10, <1>11, <1>16, SameNames
     DEF Processor!Execute, Processor!Adjustments, Processor!None, None, control
<1>18. QED BY <1>8, <1>13, <1>17 DEF Processor!Next

-------------------------------------------------------------------------------
(* The helpers implement the processor.                                      *)

LEMMA InitInv == Init => CpuInv /\ Processor!Init
<1> SUFFICES ASSUME Init PROVE CpuInv /\ Processor!Init
  OBVIOUS
<1>1. PICK f \in Flags : cc_src = f \cap Flag /\ system = f \cap System /\ df = (IF "D" \in f THEN -1 ELSE 1)
  BY DEF Init
<1>2. cc_op = "EFLAGS" /\ lo \in Word /\ hi \in Word /\ fault = FALSE /\ step = 0 /\ decimal = None
  BY Bounds DEF Init, Word
<1>3. eflags = cc_src
  BY <1>2 DEF eflags, helper_cc_compute_all
<1>4. cc_op \in CC_OP /\ FlagsHeld
  BY <1>1, <1>2 DEF CC_OP, FlagsHeld
<1>5. system \subseteq System
  BY <1>1
<1>6. TypeOK
  <2>1. 0 \in 0..Len(Program)
    BY WordAssumption
  <2>2. QED BY <1>2, <1>4, <1>5, <2>1 DEF TypeOK
<1>7. DecimalInv
  BY <1>2 DEF DecimalInv, None
<1>8. eflags \subseteq Processor!Flag
  BY <1>1, <1>3, SameNames
<1>9. control \subseteq Processor!Control
  BY <1>5 DEF control, Processor!Control, System, If
<1>10. image \subseteq Processor!Flag \cup Processor!Control
  BY Bounds DEF Init, Processor!Flag, Processor!Control
<1>11. decimal = Processor!None /\ insn = [op |-> "none", src |-> 0]
  BY <1>2 DEF Init, None, Processor!None
<1>12. Processor!Init
  BY <1>2, <1>8, <1>9, <1>10, <1>11, SameNames DEF Processor!Init, control
<1>13. QED BY <1>6, <1>7, <1>12 DEF CpuInv

LEMMA StutterStep ==
  ASSUME CpuInv, UNCHANGED vars
  PROVE  CpuInv' /\ UNCHANGED Processor!vars
<1>1. eflags' = eflags
  BY DEF vars, eflags
<1>2. TypeOK'
  BY DEF vars, CpuInv, TypeOK, FlagsHeld
<1>3. DecimalInv'
  BY <1>1 DEF vars, CpuInv, DecimalInv
<1>4. UNCHANGED Processor!vars
  BY <1>1 DEF vars, Processor!vars
<1>5. QED BY <1>2, <1>3, <1>4 DEF CpuInv

\* Every step keeps the invariant and is one of the processor, or none.
LEMMA StepImplements == CpuInv /\ [Next]_vars => CpuInv' /\ [Processor!Next]_Processor!vars
<1> SUFFICES ASSUME CpuInv, [Next]_vars PROVE CpuInv' /\ [Processor!Next]_Processor!vars
  OBVIOUS
<1>1. CASE Arithmetic
  BY <1>1, ArithmeticStep
<1>2. CASE IncDec
  BY <1>2, IncDecStep
<1>3. CASE Logic
  BY <1>3, LogicStep
<1>4. CASE Multiply
  BY <1>4, MultiplyStep
<1>5. CASE AdcxAdox
  BY <1>5, AdcxAdoxStep
<1>6. CASE BitField
  BY <1>6, BitFieldStep
<1>7. CASE Div32
  BY <1>7, Div32Step
<1>8. CASE Idiv32
  BY <1>8, Idiv32Step
<1>9. CASE Div64
  BY <1>9, Div64Step
<1>10. CASE Random
  BY <1>10, RandomStep
<1>11. CASE BaseConversion
  BY <1>11, BaseConversionStep
<1>12. CASE AdjustUnpacked
  BY <1>12, AdjustUnpackedStep
<1>13. CASE AdjustAfterAddition
  BY <1>13, AdjustAfterAdditionStep
<1>14. CASE AdjustAfterSubtraction
  BY <1>14, AdjustAfterSubtractionStep
<1>15. CASE FlagsImage
  BY <1>15, FlagsImageStep
<1>16. CASE SystemFlag
  BY <1>16, SystemFlagStep
<1>17. CASE UNCHANGED vars
  BY <1>17, StutterStep
<1>18. QED
  BY <1>1, <1>2, <1>3, <1>4, <1>5, <1>6, <1>7, <1>8, <1>9, <1>10, <1>11, <1>12, <1>13, <1>14, <1>15,
     <1>16, <1>17 DEF Next

\* The operands that the flags are computed from are always of the kind that cc_op says, the
\* registers hold words, and the last addition or subtraction can be told from register and
\* flags.
THEOREM OperandsKept == Spec => []CpuInv
  BY InitInv, StepImplements, PTL DEF Spec

\* Whatever instructions were executed, helper_cc_compute_c and helper_cc_compute_all give
\* the same carry.
THEOREM CarryAlwaysAgrees == Spec => []CarryAgrees
<1>1. CpuInv => CarryAgrees
  BY CarryInAll DEF CpuInv, TypeOK, CarryAgrees, carry, eflags
<1>2. QED BY <1>1, OperandsKept, PTL

\* The helpers do what the processor does: flags that are computed late from operands, two
\* divisions, bit by bit and by absolute values, PDEP and PEXT, and decimal adjustments, for
\* words and digits of every size and for every program.
THEOREM HelpersImplementCpu == Spec => ImplementsCpu
<1>1. Init => Processor!Init
  BY InitInv
<1>2. CpuInv /\ [Next]_vars => [Processor!Next]_Processor!vars
  BY StepImplements
<1>3. QED BY <1>1, <1>2, OperandsKept, PTL DEF Spec, ImplementsCpu, Processor!Spec
================================================================================
