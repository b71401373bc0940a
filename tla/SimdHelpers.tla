----------------------------- MODULE SimdHelpers -----------------------------
(***************************************************************************)
(* The helpers of ops_sse.h for the 128 bit registers.  SymFusion compiles *)
(* them with its own pass, in place of SYMQEMU's, so a wrong result there  *)
(* is a wrong concrete value and a wrong expression.                       *)
(*                                                                         *)
(* A helper writes the elements of its destination one after the other     *)
(* while it reads its operands, and destination and source may be the same *)
(* register: an element is read after those before it have been written.   *)
(* Other helpers collect the result in a variable r first.                 *)
(*                                                                         *)
(* One operator stands for the sizes of an instruction (k bytes), as in    *)
(* the macros of the code.                                                 *)
(***************************************************************************)
EXTENDS Vectors, Sequences, SequencesExt, Bitwise

CONSTANTS
  Mask,       \* the register XMM0
  Programs    \* contents of the registers, and instructions one of which is executed

VARIABLES insn, regs, gpr, eflags
vars == <<insn, regs, gpr, eflags>>

(***************************************************************************)
(* Reading and writing registers.  A file f maps registers to contents.    *)
(***************************************************************************)
El(f, r, k, i) == Elem(f[r], k, i)
I(k, x) == Signed(k, x)
Set(f, r, k, i, x) ==
  [f EXCEPT ![r] = [b \in Bytes |-> IF b \div k = i THEN ByteOf(x, b % k) ELSE @[b]]]

Up(n) == [j \in 1..n |-> j - 1]

\* Assignments in the order of the elements, each of which sees the ones before.
Assign(order, d, k, value(_, _)) ==
  FoldLeft(LAMBDA f, i : Set(f, d, k, i, value(f, i)), regs, order)
InPlace(d, k, value(_, _)) == Assign(Up(16 \div k), d, k, value)

\* *d = r, with r computed from the operands.
Fresh(d, k, value(_)) == [regs EXCEPT ![d] = [b \in Bytes |-> ByteOf(value(b \div k), b % k)]]

(***************************************************************************)
(* SSE_HELPER_B, _W, _L and _Q, and the macros they are used with.         *)
(***************************************************************************)
satu(k, x) == IF x < 0 THEN 0 ELSE IF x > 2^Bits(k) - 1 THEN 2^Bits(k) - 1 ELSE x
sats(k, x) ==
  LET min == -(2^(Bits(k) - 1))
      max == 2^(Bits(k) - 1) - 1
  IN IF x < min THEN min ELSE IF x > max THEN max ELSE x

LargestSigned(k) == 2^(Bits(k) - 1) - 1
FABS(k, b) == IF b > LargestSigned(k) THEN -I(k, b) ELSE b
FMULHRSW(k, a, b) == (I(k, a) * I(k, b) + 2^(Bits(k) - 2)) \div 2^(Bits(k) - 1)
FSIGN(k, a, b) == IF b > LargestSigned(k) THEN -I(k, a) ELSE IF b # 0 THEN a ELSE 0

F(op, k, a, b) ==
  CASE op = "padd" -> a + b
    [] op = "psub" -> a - b
    [] op = "paddus" -> satu(k, a + b)
    [] op = "psubus" -> satu(k, a - b)
    [] op = "padds" -> sats(k, I(k, a) + I(k, b))
    [] op = "psubs" -> sats(k, I(k, a) - I(k, b))
    [] op = "pminu" -> IF a < b THEN a ELSE b
    [] op = "pmaxu" -> IF a > b THEN a ELSE b
    [] op = "pmins" -> IF I(k, a) < I(k, b) THEN a ELSE b
    [] op = "pmaxs" -> IF I(k, a) > I(k, b) THEN a ELSE b
    [] op = "pand" -> a & b
    [] op = "pandn" -> (2^Bits(k) - 1 - a) & b
    [] op = "por" -> a | b
    [] op = "pxor" -> a ^^ b
    [] op = "pcmpgt" -> IF I(k, a) > I(k, b) THEN -1 ELSE 0
    [] op = "pcmpeq" -> IF a = b THEN -1 ELSE 0
    [] op = "pmull" -> a * b
    [] op = "pmulhu" -> (a * b) \div 2^Bits(k)
    [] op = "pmulh" -> (I(k, a) * I(k, b)) \div 2^Bits(k)
    [] op = "pmulhrs" -> FMULHRSW(k, a, b)
    [] op = "pavg" -> (a + b + 1) \div 2
    [] op = "pabs" -> FABS(k, b)
    [] op = "psign" -> FSIGN(k, a, b)

LaneOps == {"padd", "psub", "paddus", "psubus", "padds", "psubs", "pminu", "pmaxu", "pmins",
            "pmaxs", "pand", "pandn", "por", "pxor", "pcmpgt", "pcmpeq", "pmull", "pmulhu",
            "pmulh", "pmulhrs", "pavg", "pabs", "psign"}
SSE_HELPER(x) ==
  LET value(f, i) == F(x.op, x.k, El(f, x.d, x.k, i), El(f, x.s, x.k, i))
  IN InPlace(x.d, x.k, value)

(***************************************************************************)
(* Shifts.  A count that is not too large fits in the lowest byte, from    *)
(* which the code takes it.                                                *)
(***************************************************************************)
Zero(d) == [regs EXCEPT ![d] = [b \in Bytes |-> 0]]
helper_psrl(x) ==
  LET shift == El(regs, x.s, 8, 0)
      value(f, i) == El(f, x.d, x.k, i) \div 2^shift
  IN IF shift > Bits(x.k) - 1 THEN Zero(x.d) ELSE InPlace(x.d, x.k, value)
helper_psra(x) ==
  LET count == El(regs, x.s, 8, 0)
      shift == IF count > Bits(x.k) - 1 THEN Bits(x.k) - 1 ELSE count
      value(f, i) == I(x.k, El(f, x.d, x.k, i)) \div 2^shift
  IN InPlace(x.d, x.k, value)
\* What is shifted out is cut off first, to stay within the numbers of TLC.
helper_psll(x) ==
  LET shift == El(regs, x.s, 8, 0)
      value(f, i) == (El(f, x.d, x.k, i) % 2^(Bits(x.k) - shift)) * 2^shift
  IN IF shift > Bits(x.k) - 1 THEN Zero(x.d) ELSE InPlace(x.d, x.k, value)

\* By bytes: upwards for shifts to the right, downwards for shifts to the left.
helper_psdq(x) ==
  LET count == El(regs, x.s, 4, 0)
      shift == IF count > 16 THEN 16 ELSE count
      from(i) == IF x.op = "psrldq" THEN i + shift ELSE i - shift
      value(f, i) == IF from(i) \in Bytes THEN f[x.d][from(i)] ELSE 0
  IN Assign(IF x.op = "psrldq" THEN Up(16) ELSE Reverse(Up(16)), x.d, 1, value)

(***************************************************************************)
(* Products and sums of neighbours.                                        *)
(***************************************************************************)
helper_pmul(x) ==    \* pmuludq, pmuldq
  LET a(f, i) == El(f, x.d, x.k \div 2, 2 * i)
      b(f, i) == El(f, x.s, x.k \div 2, 2 * i)
      value(f, i) == IF x.op = "pmulu" THEN a(f, i) * b(f, i)
                     ELSE I(x.k \div 2, a(f, i)) * I(x.k \div 2, b(f, i))
  IN InPlace(x.d, x.k, value)

helper_pmadd(x) ==   \* pmaddwd, pmaddubsw
  LET h == x.k \div 2
      a(f, i) == El(f, x.d, h, i)
      product(f, i) == I(h, El(f, x.s, h, i)) * (IF x.op = "pmadd" THEN I(h, a(f, i)) ELSE a(f, i))
      sum(f, i) == product(f, 2 * i) + product(f, 2 * i + 1)
      value(f, i) == IF x.op = "pmadd" THEN sum(f, i) ELSE sats(x.k, sum(f, i))
  IN InPlace(x.d, x.k, value)

abs1(x) == IF x < 0 THEN -x ELSE x
helper_psadbw(x) ==
  LET term(f, i) == abs1(f[x.d][i] - f[x.s][i])
      value(f, i) == FoldLeft(LAMBDA val, j : val + term(f, 8 * i + j), 0, Up(8))
  IN InPlace(x.d, 8, value)
helper_mpsadbw(x) ==
  LET s0 == (x.imm % 4) * 4
      d0 == ((x.imm \div 4) % 2) * 4
      value(i) == FoldLeft(LAMBDA val, j : val + abs1(regs[x.d][d0 + i + j] - regs[x.s][s0 + j]),
                           0, Up(4))
  IN Fresh(x.d, 2, value)

\* phaddw, phaddd, phaddsw and their differences: the lower half of the result is written
\* before the source is read.
helper_ph(x) ==
  LET n == 16 \div x.k
      from(i) == IF i < n \div 2 THEN x.d ELSE x.s
      first(i) == IF i < n \div 2 THEN 2 * i ELSE 2 * i - n
      a(f, i) == I(x.k, El(f, from(i), x.k, first(i)))
      b(f, i) == I(x.k, El(f, from(i), x.k, first(i) + 1))
      exact(f, i) == IF x.op \in {"phadd", "phadds"} THEN a(f, i) + b(f, i) ELSE a(f, i) - b(f, i)
      value(f, i) == IF x.op \in {"phadds", "phsubs"} THEN sats(x.k, exact(f, i)) ELSE exact(f, i)
  IN InPlace(x.d, x.k, value)

(***************************************************************************)
(* Elements that change places.                                            *)
(***************************************************************************)
Order(x, i) == (x.imm \div 4^i) % 4
helper_shuf(x) ==
  LET d(i) == El(regs, x.d, x.k, i)
      s(i) == El(regs, x.s, x.k, i)
      value(i) ==
        CASE x.op = "pshufd" -> s(Order(x, i))
          [] x.op = "pshuflw" -> IF i < 4 THEN s(Order(x, i)) ELSE s(i)
          [] x.op = "pshufhw" -> IF i < 4 THEN s(i) ELSE s(4 + Order(x, i - 4))
          [] x.op = "shufps" -> IF i < 2 THEN d(Order(x, i)) ELSE s(Order(x, i))
          [] x.op = "shufpd" -> IF i = 0 THEN d(x.imm % 2) ELSE s((x.imm \div 2) % 2)
          [] x.op = "pshufb" -> IF s(i) > 2^(ByteBits - 1) - 1 THEN 0 ELSE d(s(i) % 16)
  IN Fresh(x.d, x.k, value)

helper_pack(x) ==
  LET half == 8 \div x.k
      source(i) == I(2 * x.k, IF i < half THEN El(regs, x.d, 2 * x.k, i)
                                          ELSE El(regs, x.s, 2 * x.k, i - half))
      value(i) == IF x.op = "packss" THEN sats(x.k, source(i)) ELSE satu(x.k, source(i))
  IN Fresh(x.d, x.k, value)

UNPCK_OP(x) ==
  LET base == IF x.op = "punpckh" THEN 1 ELSE 0
      value(i) == El(regs, IF i % 2 = 0 THEN x.d ELSE x.s, x.k, base * (8 \div x.k) + (i \div 2))
  IN Fresh(x.d, x.k, value)

\* SSE_HELPER_F: extensions begin with the last element.  (Mutant: with the first.)
SSE_HELPER_FUp(x) ==
  LET value(f, i) == LET e == El(f, x.s, x.imm, i) IN IF x.op = "pmovsx" THEN I(x.imm, e) ELSE e
  IN InPlace(x.d, x.k, value)
SSE_HELPER_F(x) ==
  LET value(f, i) == LET e == El(f, x.s, x.imm, i) IN IF x.op = "pmovsx" THEN I(x.imm, e) ELSE e
  IN Assign(Reverse(Up(16 \div x.k)), x.d, x.k, value)

\* SSE_HELPER_V.  (SSE_HELPER_I is used in code that is compiled out only.)
SSE_HELPER_V(x) ==
  LET chosen(f, i) == El(f, Mask, x.k, i) > 2^(Bits(x.k) - 1) - 1
      value(f, i) == El(f, IF chosen(f, i) THEN x.s ELSE x.d, x.k, i)
  IN InPlace(x.d, x.k, value)

\* The whole join of both registers is shifted, quadword by quadword.
SHR(v, i) ==
  CASE i > 0 /\ i < Bits(8) -> v \div 2^i
    [] i <= 0 /\ i > -Bits(8) -> (v % 2^(Bits(8) + i)) * 2^(-i)
    [] OTHER -> 0
helper_palignr(x) ==
  LET shift == Bits(x.imm)
      source == <<El(regs, x.s, 8, 0), El(regs, x.s, 8, 1), El(regs, x.d, 8, 0), El(regs, x.d, 8, 1)>>
      value(i) == FoldLeft(LAMBDA r, j : r | SHR(source[j + 1], shift + Bits(8) * (i - j)), 0, Up(4))
  IN IF x.imm >= 32 THEN Zero(x.d) ELSE Fresh(x.d, 8, value)

\* The sum of shifted copies, without carries; ah and al are the copy, resh and resl the sum.
helper_pclmulqdq(x) ==
  LET Q == 2^Bits(8)
      b == El(regs, x.s, 8, (x.imm \div 16) % 2)
      start == [ah |-> 0, al |-> El(regs, x.d, 8, x.imm % 2), resh |-> 0, resl |-> 0]
      step(r, j) ==
        LET odd == (b \div 2^j) % 2 = 1
        IN [ah |-> (2 * r.ah + r.al \div 2^(Bits(8) - 1)) % Q, al |-> (2 * r.al) % Q,
            resh |-> IF odd THEN r.resh ^^ r.ah ELSE r.resh,
            resl |-> IF odd THEN r.resl ^^ r.al ELSE r.resl]
      r == FoldLeft(step, start, Up(Bits(8)))
      value(f, i) == IF i = 0 THEN r.resl ELSE r.resh
  IN InPlace(x.d, 8, value)

\* The first smallest word of the source, and its index.
helper_phminposuw(x) ==
  LET W(i) == El(regs, x.s, 2, i)
      idx == FoldLeft(LAMBDA best, i : IF W(i) < W(best) THEN i ELSE best, 0, Up(8))
      min == Set(regs, x.d, 2, 0, W(idx))
      both == Set(min, x.d, 2, 1, idx)
  IN Set(Set(both, x.d, 4, 1, 0), x.d, 8, 1, 0)

(***************************************************************************)
(* String instructions.  An outcome is a set of positions where the code   *)
(* has a number with these bits.                                           *)
(***************************************************************************)
Ctrl(x, bit) == (x.imm \div 2^bit) % 2 = 1
CharSize(x) == IF Ctrl(x, 0) THEN 2 ELSE 1
MaxOf(a, b) == IF a > b THEN a ELSE b
MinOf(a, b) == IF a < b THEN a ELSE b

pcmp_elen(x, reg) ==
  LET val == abs1(reg) IN MinOf(val, 16 \div CharSize(x))
pcmp_ilen(x, r) ==
  LET len[val \in 0..16] ==
        IF val < 16 \div CharSize(x) /\ Elem(r, CharSize(x), val) # 0 THEN len[val + 1] ELSE val
  IN len[0]
pcmp_val(x, r, i) ==
  LET c == Elem(r, CharSize(x), i) IN IF Ctrl(x, 1) THEN I(CharSize(x), c) ELSE c

\* The positions found, with the last valid positions of source and destination.
Aggregate(x, valids, validd) ==
  LET upper == 16 \div CharSize(x) - 1
      s(j) == pcmp_val(x, regs[x.s], j)
      d(i) == pcmp_val(x, regs[x.d], i)
      lastPair == ((validd - 1) \div 2) * 2 + 1    \* (validd - 1) | 1
      longer == MaxOf(valids, validd)
      shorter == MinOf(valids, validd)
  IN CASE ~Ctrl(x, 3) /\ ~Ctrl(x, 2) ->
            {j \in 0..valids : \E i \in 0..validd : s(j) = d(i)}
       [] ~Ctrl(x, 3) /\ Ctrl(x, 2) ->
            {j \in 0..valids : \E i \in 0..lastPair : i % 2 = 1 /\ d(i) >= s(j) /\ d(i - 1) <= s(j)}
       [] Ctrl(x, 3) /\ ~Ctrl(x, 2) ->
            (longer + 1)..upper \cup {i \in 0..shorter : s(i) = d(i)}
       [] Ctrl(x, 3) /\ Ctrl(x, 2) ->
            IF validd = -1 THEN 0..upper
            ELSE {j \in 0..(valids - validd) : \A i \in 0..validd : s(i + j) = d(i)}

\* Negated for all positions, or for the valid ones.
Polarity(x, res, valids) ==
  LET upper == 16 \div CharSize(x) - 1
      Flip(positions) == (res \ positions) \cup (positions \ res)
  IN CASE ~Ctrl(x, 4) -> res
       [] Ctrl(x, 4) /\ ~Ctrl(x, 5) -> Flip(0..upper)
       [] Ctrl(x, 4) /\ Ctrl(x, 5) -> Flip(0..valids)

Lengths(x) ==
  IF x.op \in {"pcmpestri", "pcmpestrm"}
  THEN [s |-> pcmp_elen(x, x.lens) - 1, d |-> pcmp_elen(x, x.lend) - 1]
  ELSE [s |-> pcmp_ilen(x, regs[x.s]) - 1, d |-> pcmp_ilen(x, regs[x.d]) - 1]
pcmpxstrx(x) == Polarity(x, Aggregate(x, Lengths(x).s, Lengths(x).d), Lengths(x).s)

Flag(condition, f) == IF condition THEN {f} ELSE {}
StringFlags(x) ==
  LET upper == 16 \div CharSize(x) - 1
  IN Flag(Lengths(x).s < upper, "Z") \cup Flag(Lengths(x).d < upper, "S")
       \cup Flag(pcmpxstrx(x) # {}, "C") \cup Flag(0 \in pcmpxstrx(x), "O")

(***************************************************************************)
(* Actions.  One instruction of the program is executed.                   *)
(***************************************************************************)
Executes(ops) ==
  /\ insn.op = "none"
  /\ \E p \in Programs : p.regs = regs /\ insn' \in {x \in p.insns : x.op \in ops}
Registers(ops, helper(_)) ==
  Executes(ops) /\ regs' = helper(insn') /\ UNCHANGED <<gpr, eflags>>

Lanewise == Registers(LaneOps, SSE_HELPER)
ShiftRight == Registers({"psrl"}, helper_psrl)
ShiftArithmetic == Registers({"psra"}, helper_psra)
ShiftLeft == Registers({"psll"}, helper_psll)
ShiftBytes == Registers({"psrldq", "pslldq"}, helper_psdq)
Products == Registers({"pmulu", "pmuls"}, helper_pmul)
MultiplyAdd == Registers({"pmadd", "pmaddubs"}, helper_pmadd)
Distances == Registers({"psad"}, helper_psadbw)
MultipleDistances == Registers({"mpsad"}, helper_mpsadbw)
Horizontal == Registers({"phadd", "phsub", "phadds", "phsubs"}, helper_ph)
Shuffle == Registers({"pshufd", "pshuflw", "pshufhw", "shufps", "shufpd", "pshufb"}, helper_shuf)
Pack == Registers({"packss", "packus"}, helper_pack)
Unpack == Registers({"punpckl", "punpckh"}, UNPCK_OP)
Extend == Registers({"pmovsx", "pmovzx"}, SSE_HELPER_F)
Blend == Registers({"blendv"}, SSE_HELPER_V)
Align == Registers({"palignr"}, helper_palignr)
CarrylessProduct == Registers({"pclmul"}, helper_pclmulqdq)
MinimumPosition == Registers({"phminposu"}, helper_phminposuw)

\* movl_mm_T0, movq_mm_T0: the rest of the register is cleared.
Move ==
  LET lowest(x) == Set(Set(regs, x.d, x.k, 0, x.imm), x.d, x.k, 1, 0)
      whole(x) == Set(lowest(x), x.d, 8, 1, 0)
  IN Registers({"mov"}, whole)

MoveMask ==
  /\ Executes({"pmovmsk"})
  /\ LET k == insn'.k
         sign(i) == El(regs, insn'.s, k, i) \div 2^(Bits(k) - 1)
     IN gpr' = FoldLeft(LAMBDA val, i : val + sign(i) * 2^i, 0, Up(16 \div k))
  /\ UNCHANGED <<regs, eflags>>

Test ==
  /\ Executes({"ptest"})
  /\ LET s(i) == El(regs, insn'.s, 8, i)
         d(i) == El(regs, insn'.d, 8, i)
         zf == (s(0) & d(0)) | (s(1) & d(1))
         cf == (s(0) & (2^Bits(8) - 1 - d(0))) | (s(1) & (2^Bits(8) - 1 - d(1)))
     IN eflags' = Flag(zf = 0, "Z") \cup Flag(cf = 0, "C")
  /\ UNCHANGED <<regs, gpr>>

\* helper_pcmpestri, helper_pcmpistri.
CompareIndex ==
  /\ Executes({"pcmpestri", "pcmpistri"})
  /\ LET res == pcmpxstrx(insn')
     IN gpr' = IF res = {} THEN 16 \div CharSize(insn')
               ELSE IF Ctrl(insn', 6) THEN CHOOSE j \in res : \A l \in res : l <= j
               ELSE CHOOSE j \in res : \A l \in res : j <= l
  /\ eflags' = StringFlags(insn')
  /\ UNCHANGED regs

\* helper_pcmpestrm, helper_pcmpistrm.
CompareMask ==
  /\ Executes({"pcmpestrm", "pcmpistrm"})
  /\ LET x == insn'
         value(f, i) == IF i \in pcmpxstrx(x) THEN 2^Bits(CharSize(x)) - 1 ELSE 0
         number == FoldLeft(LAMBDA n, j : IF j \in pcmpxstrx(x) THEN n + 2^j ELSE n, 0, Up(16))
     IN regs' = IF Ctrl(x, 6) THEN InPlace(Mask, CharSize(x), value)
                ELSE Set(Set(regs, Mask, 8, 1, 0), Mask, 8, 0, number)
  /\ eflags' = StringFlags(insn')
  /\ UNCHANGED gpr

Init ==
  /\ insn = [op |-> "none"]
  /\ \E p \in Programs : regs = p.regs
  /\ gpr = 0 /\ eflags = {}

Next ==
  \/ Lanewise \/ ShiftRight \/ ShiftArithmetic \/ ShiftLeft \/ ShiftBytes
  \/ Products \/ MultiplyAdd \/ Distances \/ MultipleDistances \/ Horizontal
  \/ Shuffle \/ Pack \/ Unpack \/ Extend \/ Blend \/ Align \/ CarrylessProduct
  \/ MinimumPosition \/ Move \/ MoveMask \/ Test \/ CompareIndex \/ CompareMask

Spec == Init /\ [][Next]_vars

\* Whatever is written before it is read, also when the operands are one register: the
\* helpers compute the vectors, flags and numbers of the instructions.
Instructions == UNION {p.insns : p \in Programs}
Processor == INSTANCE Simd
ImplementsSimd == Processor!Spec
=============================================================================
