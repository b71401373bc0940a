-------------------------------- MODULE Simd --------------------------------
(***************************************************************************)
(* What the vector instructions promise that are handed to the helpers of  *)
(* ops_sse.h.  An instruction reads its operands, which may be the same    *)
(* register, and then gives all elements of the result a value at once.    *)
(* Arithmetic is said in terms of exact results and how they are made to   *)
(* fit, shifts and logic in terms of bits, string instructions by a table  *)
(* of comparisons.                                                         *)
(***************************************************************************)
EXTENDS Vectors

CONSTANTS Instructions, Mask    \* Mask is the register that blends use

VARIABLES
  insn,     \* the instruction executed last
  regs,     \* vector registers
  gpr,      \* the general register of a result
  eflags

vars == <<insn, regs, gpr, eflags>>

\* The operands of instruction x, as they are before it.
D(x, k, i) == Elem(regs[x.d], k, i)
S(x, k, i) == Elem(regs[x.s], k, i)
SD(x, k, i) == Signed(k, D(x, k, i))
SS(x, k, i) == Signed(k, S(x, k, i))

\* Results that are made to fit: the nearest number of a range, or a rounded quotient.
Nearest(z, low, high) ==
  LET fits == {n \in {low, z, high} : low <= n /\ n <= high}
  IN CHOOSE n \in fits : \A m \in fits : Abs(z - n) <= Abs(z - m)
Unsigned(k, z) == Nearest(z, 0, 2^Bits(k) - 1)
SignedFit(k, z) == Nearest(z, -(2^(Bits(k) - 1)), 2^(Bits(k) - 1) - 1)
Rounded(z, m) == (2 * z + m) \div (2 * m)
Least(T) == CHOOSE n \in T : \A m \in T : n <= m
Greatest(T) == CHOOSE n \in T : \A m \in T : n >= m
Where(condition) == IF condition THEN -1 ELSE 0
Sign(z) == IF z < 0 THEN -1 ELSE IF z = 0 THEN 0 ELSE 1

\* Element i of the result of an instruction that works on pairs of elements.
PairResult(x, i) ==
  LET k == x.k
      a == D(x, k, i)    b == S(x, k, i)
      sa == Signed(k, a) sb == Signed(k, b)
  IN CASE x.op = "padd" -> a + b
       [] x.op = "psub" -> a - b
       [] x.op = "paddus" -> Unsigned(k, a + b)
       [] x.op = "psubus" -> Unsigned(k, a - b)
       [] x.op = "padds" -> SignedFit(k, sa + sb)
       [] x.op = "psubs" -> SignedFit(k, sa - sb)
       [] x.op = "pminu" -> Least({a, b})
       [] x.op = "pmaxu" -> Greatest({a, b})
       [] x.op = "pmins" -> Least({sa, sb})
       [] x.op = "pmaxs" -> Greatest({sa, sb})
       [] x.op = "pcmpgt" -> Where(sa > sb)
       [] x.op = "pcmpeq" -> Where(a = b)
       [] x.op = "pmull" -> a * b
       [] x.op = "pmulhu" -> (a * b) \div 2^Bits(k)
       [] x.op = "pmulh" -> (sa * sb) \div 2^Bits(k)
       [] x.op = "pmulhrs" -> Rounded(sa * sb, 2^(Bits(k) - 1))
       [] x.op = "pavg" -> Rounded(a + b, 2)
       [] x.op = "pabs" -> Abs(sb)
       [] x.op = "psign" -> sa * Sign(sb)
       [] x.op = "pmulu" -> D(x, k \div 2, 2 * i) * S(x, k \div 2, 2 * i)
       [] x.op = "pmuls" -> SD(x, k \div 2, 2 * i) * SS(x, k \div 2, 2 * i)
       [] x.op = "pmadd" -> SD(x, k \div 2, 2 * i) * SS(x, k \div 2, 2 * i)
                              + SD(x, k \div 2, 2 * i + 1) * SS(x, k \div 2, 2 * i + 1)
       [] x.op = "pmaddubs" -> SignedFit(k, D(x, k \div 2, 2 * i) * SS(x, k \div 2, 2 * i)
                                 + D(x, k \div 2, 2 * i + 1) * SS(x, k \div 2, 2 * i + 1))

Distance(x, i, j) == Abs(D(x, 1, i) - S(x, 1, j))
Sum4(x, i, j) ==
  Distance(x, i, j) + Distance(x, i + 1, j + 1) + Distance(x, i + 2, j + 2) + Distance(x, i + 3, j + 3)

\* Element j of the operands laid end to end, the destination first.
Joined(x, k, j) == IF j \in Lanes(k) THEN D(x, k, j) ELSE S(x, k, j - 16 \div k)
Digit(x, j) == (x.imm \div 4^j) % 4

\* Element i of the result of an instruction that moves elements.
MoveResult(x, i) ==
  LET k == x.k
      n == 16 \div k
      Two(f(_, _)) == f(Signed(k, Joined(x, k, 2 * i)), Signed(k, Joined(x, k, 2 * i + 1)))
      Sum(a, b) == a + b
      Diff(a, b) == a - b
  IN CASE x.op = "phadd" -> Two(Sum)
       [] x.op = "phsub" -> Two(Diff)
       [] x.op = "phadds" -> SignedFit(k, Two(Sum))
       [] x.op = "phsubs" -> SignedFit(k, Two(Diff))
       [] x.op = "psad" -> Sum4(x, 8 * i, 8 * i) + Sum4(x, 8 * i + 4, 8 * i + 4)
       [] x.op = "mpsad" -> LET first == IF (x.imm \div 4) % 2 = 1 THEN 4 ELSE 0
                            IN Sum4(x, first + i, 4 * (x.imm % 4))
       [] x.op = "packss" -> SignedFit(k, Signed(2 * k, Joined(x, 2 * k, i)))
       [] x.op = "packus" -> Unsigned(k, Signed(2 * k, Joined(x, 2 * k, i)))
       [] x.op \in {"punpckl", "punpckh"} ->
            LET j == (i \div 2) + (IF x.op = "punpckh" THEN n \div 2 ELSE 0)
            IN IF i % 2 = 0 THEN D(x, k, j) ELSE S(x, k, j)
       [] x.op = "pmovsx" -> SS(x, x.imm, i)
       [] x.op = "pmovzx" -> S(x, x.imm, i)
       [] x.op = "pshufd" -> S(x, k, Digit(x, i))
       [] x.op = "pshuflw" -> S(x, k, IF i < 4 THEN Digit(x, i) ELSE i)
       [] x.op = "pshufhw" -> S(x, k, IF i < 4 THEN i ELSE 4 + Digit(x, i - 4))
       [] x.op = "shufps" -> IF i < 2 THEN D(x, k, Digit(x, i)) ELSE S(x, k, Digit(x, i))
       [] x.op = "shufpd" -> IF i = 0 THEN D(x, k, x.imm % 2) ELSE S(x, k, (x.imm \div 2) % 2)
       [] x.op = "pshufb" -> IF Negative(1, S(x, 1, i)) THEN 0 ELSE D(x, 1, S(x, 1, i) % 16)
       [] x.op = "blendv" -> IF Negative(k, Elem(regs[Mask], k, i)) THEN S(x, k, i) ELSE D(x, k, i)
       [] x.op = "mov" -> IF i = 0 THEN x.imm ELSE 0
       [] x.op = "phminposu" ->
            LET least == Least({S(x, k, j) : j \in Lanes(k)})
            IN IF i = 0 THEN least
               ELSE IF i = 1 THEN Least({j \in Lanes(k) : S(x, k, j) = least}) ELSE 0
       [] x.op = "palignr" ->   \* the source is the lower half here
            IF i + x.imm < 16 THEN S(x, 1, i + x.imm)
            ELSE IF i + x.imm < 32 THEN D(x, 1, i + x.imm - 16) ELSE 0
       [] x.op = "psrldq" -> IF i + S(x, 4, 0) < 16 THEN D(x, 1, i + S(x, 4, 0)) ELSE 0
       [] x.op = "pslldq" -> IF i >= S(x, 4, 0) THEN D(x, 1, i - S(x, 4, 0)) ELSE 0

\* Bit b of the result of an instruction that works on bits.
Bit(v, b) == (v[b \div ByteBits] \div 2^(b % ByteBits)) % 2 = 1
BitResult(x, b) ==
  LET n == Bits(x.k)
      d(j) == Bit(regs[x.d], j)
      s(j) == Bit(regs[x.s], j)
      count == S(x, 8, 0)
      low(j, half) == half * Bits(8) + j
  IN CASE x.op = "pand" -> d(b) /\ s(b)
       [] x.op = "pandn" -> ~d(b) /\ s(b)
       [] x.op = "por" -> d(b) \/ s(b)
       [] x.op = "pxor" -> d(b) # s(b)
       [] x.op = "psrl" -> (b % n) + count < n /\ d(b + count)
       [] x.op = "psll" -> b % n >= count /\ d(b - count)
       [] x.op = "psra" -> d(IF (b % n) + count < n THEN b + count ELSE b - (b % n) + n - 1)
       [] x.op = "pclmul" ->   \* multiplication without carries
            Cardinality({j \in 0..(Bits(8) - 1) :
                           /\ b - j \in 0..(Bits(8) - 1)
                           /\ d(low(j, x.imm % 2))
                           /\ s(low(b - j, (x.imm \div 16) % 2))}) % 2 = 1

PairOps == {"padd", "psub", "paddus", "psubus", "padds", "psubs", "pminu", "pmaxu", "pmins",
            "pmaxs", "pcmpgt", "pcmpeq", "pmull", "pmulhu", "pmulh", "pmulhrs", "pavg", "pabs",
            "psign", "pmulu", "pmuls", "pmadd", "pmaddubs"}
BitOps == {"pand", "pandn", "por", "pxor", "psrl", "psll", "psra", "pclmul"}
StringOps == {"pcmpestri", "pcmpestrm", "pcmpistri", "pcmpistrm"}

FromElements(k, f(_)) == [b \in Bytes |-> ByteOf(f(b \div k), b % k)]
FromBits(P(_)) ==
  [b \in Bytes |-> LET p[j \in 0..ByteBits] ==
                         IF j = 0 THEN 0
                         ELSE p[j - 1] + (IF P(b * ByteBits + j - 1) THEN 2^(j - 1) ELSE 0)
                   IN p[ByteBits]]
Result(x) ==
  LET pair(i) == PairResult(x, i)
      move(i) == MoveResult(x, i)
      bit(b) == BitResult(x, b)
  IN CASE x.op \in PairOps -> FromElements(x.k, pair)
       [] x.op \in BitOps -> FromBits(bit)
       [] OTHER -> FromElements(x.k, move)

(***************************************************************************)
(* Strings.  The control says whether elements are bytes or words, signed  *)
(* or not, how to compare, and what is done with the outcome.  Elements    *)
(* from the end of a string on are invalid.                                *)
(***************************************************************************)
Control(x, bit) == (x.imm \div 2^bit) % 2 = 1
Width(x) == IF Control(x, 0) THEN 2 ELSE 1
Upper(x) == 16 \div Width(x) - 1
Char(x, v, i) ==
  LET c == Elem(v, Width(x), i) IN IF Control(x, 1) THEN Signed(Width(x), c) ELSE c

\* Where a string ends: a length is given, or the first zero counts.
Ends(x, v, length) ==
  IF x.op \in {"pcmpestri", "pcmpestrm"} THEN Least({Abs(length), Upper(x) + 1})
  ELSE Least({Upper(x) + 1} \cup {i \in 0..Upper(x) : Elem(v, Width(x), i) = 0})

\* What is looked for is in d, what is searched is in s.
Found(x) ==
  LET inD(i) == i < Ends(x, regs[x.d], x.lend)
      inS(j) == j < Ends(x, regs[x.s], x.lens)
      d(i) == Char(x, regs[x.d], i)
      s(j) == Char(x, regs[x.s], j)
      all == 0..Upper(x)
  IN CASE ~Control(x, 2) /\ ~Control(x, 3) ->  \* one of the characters
            {j \in all : inS(j) /\ \E i \in all : inD(i) /\ s(j) = d(i)}
       [] Control(x, 2) /\ ~Control(x, 3) ->   \* in one of the ranges
            {j \in all : inS(j) /\ \E i \in all : i % 2 = 0 /\ inD(i + 1) /\ s(j) \in d(i)..d(i + 1)}
       [] ~Control(x, 2) /\ Control(x, 3) ->   \* the same character
            {j \in all : IF inD(j) /\ inS(j) THEN d(j) = s(j) ELSE ~inD(j) /\ ~inS(j)}
       [] Control(x, 2) /\ Control(x, 3) ->    \* a substring, up to the end of the register
            {j \in all : \A i \in all : inD(i) /\ j + i <= Upper(x) => inS(j + i) /\ d(i) = s(j + i)}

\* The outcome may be negated, for all elements or for the valid ones.
Outcome(x) ==
  LET valid == {j \in 0..Upper(x) : j < Ends(x, regs[x.s], x.lens)}
  IN CASE ~Control(x, 4) -> Found(x)
       [] Control(x, 4) /\ ~Control(x, 5) -> (0..Upper(x)) \ Found(x)
       [] Control(x, 4) /\ Control(x, 5) -> (valid \ Found(x)) \cup (Found(x) \ valid)

If(condition, f) == IF condition THEN {f} ELSE {}
StringFlags(x) ==
  If(Outcome(x) # {}, "C") \cup If(0 \in Outcome(x), "O")
    \cup If(Ends(x, regs[x.s], x.lens) <= Upper(x), "Z")
    \cup If(Ends(x, regs[x.d], x.lend) <= Upper(x), "S")
StringIndex(x) ==
  CASE Outcome(x) = {} -> Upper(x) + 1
    [] Outcome(x) # {} /\ Control(x, 6) -> Greatest(Outcome(x))
    [] Outcome(x) # {} /\ ~Control(x, 6) -> Least(Outcome(x))
StringMask(x) ==
  LET all(i) == Where(i \in Outcome(x))
      bit(b) == b \in Outcome(x)
  IN IF Control(x, 6) THEN FromElements(Width(x), all) ELSE FromBits(bit)

\* The signs of the elements, as a number.
Signs(x) ==
  LET n[i \in 0..(16 \div x.k)] ==
        IF i = 0 THEN 0 ELSE n[i - 1] + (IF Negative(x.k, S(x, x.k, i - 1)) THEN 2^(i - 1) ELSE 0)
  IN n[16 \div x.k]

Execute(x) ==
  CASE x.op = "ptest" ->
         /\ eflags' = If(\A b \in Bytes : \A j \in 0..(ByteBits - 1) :
                           ~(Bit(regs[x.d], b * ByteBits + j) /\ Bit(regs[x.s], b * ByteBits + j)), "Z")
                        \cup If(\A b \in Bytes : \A j \in 0..(ByteBits - 1) :
                           Bit(regs[x.s], b * ByteBits + j) => Bit(regs[x.d], b * ByteBits + j), "C")
         /\ UNCHANGED <<regs, gpr>>
    [] x.op = "pmovmsk" -> gpr' = Signs(x) /\ UNCHANGED <<regs, eflags>>
    [] x.op \in {"pcmpestri", "pcmpistri"} ->
         gpr' = StringIndex(x) /\ eflags' = StringFlags(x) /\ UNCHANGED regs
    [] x.op \in {"pcmpestrm", "pcmpistrm"} ->
         /\ regs' = [regs EXCEPT ![Mask] = StringMask(x)] /\ eflags' = StringFlags(x)
         /\ UNCHANGED gpr
    [] OTHER -> regs' = [regs EXCEPT ![x.d] = Result(x)] /\ UNCHANGED <<gpr, eflags>>

Init ==
  /\ insn = [op |-> "none"]
  /\ regs \in [Xmm -> Vector]
  /\ gpr = 0 /\ eflags = {}

Next == insn' \in Instructions /\ Execute(insn')

Spec == Init /\ [][Next]_vars
=============================================================================
