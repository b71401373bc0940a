----------------------------- MODULE CpuHelpers -----------------------------
(***************************************************************************)
(* The x86 helpers of QEMU that SymFusion compiles with its own pass       *)
(* (cc_helper.c, cc_helper_template.h, int_helper.c): the condition flags, *)
(* which are computed from the operands of the last instruction when they  *)
(* are needed, divisions, and decimal adjustments.  QEMU's translator,     *)
(* which leaves the operands in cc_op, cc_dst, cc_src and cc_src2, is      *)
(* external.                                                               *)
(*                                                                         *)
(* One width stands for the four that the template is included with.  The  *)
(* flags are a set of letters where the code has a bit mask; cc_src holds  *)
(* a mask, too, when cc_op is EFLAGS, ADCX, ADOX or ADCOX.                 *)
(***************************************************************************)
EXTENDS Integers, Sequences, FiniteSets, Functions

CONSTANTS W, Digit, Ten,
  Program,    \* for each step the instructions that may be executed
  \* bounds: contents of hi, of the flags, and of the image on the stack in the beginning
  Hi, Flags, Images

\* A word has room for two digits.  Decimals of two digits are bytes.
ASSUME WordAssumption ==
  /\ Digit \in Nat \ {0} /\ W \in Nat /\ 2 * Digit <= W
  /\ Ten \in 1..2^Digit
  /\ Program \in Seq(SUBSET [op : STRING, src : 0..(2^W - 1)])
  /\ \A i \in UNION Range(Program) : i.op \in {"DAA", "DAS"} => W = 2 * Digit

\* A fact about numbers that the backends of the proof system do not know.
ASSUME PowersOfTwo == \A n \in 0..W : 2^n \in Nat /\ 2^(n + 1) = 2 * 2^n

ASSUME Bounds ==
  /\ Hi \subseteq 0..(2^W - 1)
  /\ Flags \cup Images \subseteq SUBSET {"C", "P", "A", "Z", "S", "O", "D", "I", "AC", "RF"}

VARIABLES cc_op, cc_dst, cc_src, cc_src2, lo, hi, fault,
  system, df,    \* env->eflags, which has the flags of the system only, and env->df
  image,         \* the flags on top of the stack
  insn, step, decimal        \* history

cc == <<cc_op, cc_dst, cc_src, cc_src2>>
sys == <<system, df, image>>
vars == <<cc_op, cc_dst, cc_src, cc_src2, lo, hi, fault, system, df, image, insn, step, decimal>>

Word == 0..(2^W - 1)
Flag == {"C", "P", "A", "Z", "S", "O"}
Wrap(x) == x % 2^W
Signed(x) == IF x >= 2^(W - 1) THEN x - 2^W ELSE x
Bit(x, i) == (x \div 2^i) % 2
Msb(x) == Bit(x, W - 1)
If(condition, f) == IF condition THEN {f} ELSE {}

(***************************************************************************)
(* cc_helper_template.h.                                                   *)
(***************************************************************************)
\* parity_table: an even number of ones in the low byte.
parity(x) == Cardinality({i \in 0..(2 * Digit - 1) : Bit(x, i) = 1}) % 2 = 0

\* pf, zf and sf, which all functions compute in the same way.
resultFlags(dst) == If(parity(dst), "P") \cup If(dst = 0, "Z") \cup If(Msb(dst) = 1, "S")
\* af: bit four of the exclusive or of result and operands.
adjust(dst, src1, src2) ==
  If((Bit(dst, Digit) + Bit(src1, Digit) + Bit(src2, Digit)) % 2 = 1, "A")
\* of, of a sum: operands of one sign and a result of the other; of a difference likewise.
overflowAdd(dst, src1, src2) == If(Msb(src1) = Msb(src2) /\ Msb(src1) # Msb(dst), "O")
overflowSub(dst, src1, src2) == If(Msb(src1) # Msb(src2) /\ Msb(src1) # Msb(dst), "O")

compute_c_add(dst, src1) == dst < src1
compute_all_add(dst, src1) ==
  LET src2 == Wrap(dst - src1)
  IN If(dst < src1, "C") \cup resultFlags(dst) \cup adjust(dst, src1, src2)
       \cup overflowAdd(dst, src1, src2)

\* With a carry, or a borrow, the result may be equal to an operand.  (Mutant: it may not.)
compute_c_adc(dst, src1, src3) == IF src3 # 0 THEN dst <= src1 ELSE dst < src1
compute_all_adc(dst, src1, src3) ==
  LET src2 == Wrap(dst - src1 - src3)
  IN If(IF src3 # 0 THEN dst <= src1 ELSE dst < src1, "C") \cup resultFlags(dst) \cup adjust(dst, src1, src2)
       \cup overflowAdd(dst, src1, src2)

compute_c_sub(dst, src2) == Wrap(dst + src2) < src2
compute_all_sub(dst, src2) ==
  LET src1 == Wrap(dst + src2)
  IN If(src1 < src2, "C") \cup resultFlags(dst) \cup adjust(dst, src1, src2)
       \cup overflowSub(dst, src1, src2)

compute_c_sbbNoBorrow(dst, src2, src3) == Wrap(dst + src2 + src3) < src2
compute_c_sbb(dst, src2, src3) ==
  LET src1 == Wrap(dst + src2 + src3)
  IN IF src3 # 0 THEN src1 <= src2 ELSE src1 < src2
compute_all_sbb(dst, src2, src3) ==
  LET src1 == Wrap(dst + src2 + src3)
  IN If(IF src3 # 0 THEN src1 <= src2 ELSE src1 < src2, "C") \cup resultFlags(dst) \cup adjust(dst, src1, src2)
       \cup overflowSub(dst, src1, src2)

compute_all_logic(dst) == resultFlags(dst)

\* src1 is the carry from before: INC and DEC keep it.
compute_all_inc(dst, src1) ==
  If(src1 # 0, "C") \cup resultFlags(dst) \cup adjust(dst, Wrap(dst - 1), 1)
    \cup If(dst = 2^(W - 1), "O")
compute_all_dec(dst, src1) ==
  If(src1 # 0, "C") \cup resultFlags(dst) \cup adjust(dst, Wrap(dst + 1), 1)
    \cup If(dst = 2^(W - 1) - 1, "O")

\* src1 is the operand before the last bit was shifted out.
compute_c_shl(src1) == Msb(src1) = 1
compute_all_shl(dst, src1) ==
  If(compute_c_shl(src1), "C") \cup resultFlags(dst) \cup If(Msb(src1) # Msb(dst), "O")
compute_all_sar(dst, src1) ==
  If(src1 % 2 = 1, "C") \cup resultFlags(dst) \cup If(Msb(src1) # Msb(dst), "O")

\* src1 is what does not fit in the result.
compute_all_mul(dst, src1) ==
  If(src1 # 0, "C") \cup resultFlags(dst) \cup If(src1 # 0, "O")
compute_c_bmilg(src1) == src1 = 0
compute_all_bmilg(dst, src1) == If(src1 = 0, "C") \cup (resultFlags(dst) \ {"P"})

(***************************************************************************)
(* cc_helper.c.                                                            *)
(***************************************************************************)
helper_cc_compute_all(dst, src1, src2, op) ==
  CASE op = "EFLAGS" -> src1
    [] op = "CLR" -> {"Z", "P"}
    [] op = "POPCNT" -> If(src1 = 0, "Z")
    [] op = "MUL" -> compute_all_mul(dst, src1)
    [] op = "ADD" -> compute_all_add(dst, src1)
    [] op = "ADC" -> compute_all_adc(dst, src1, src2)
    [] op = "SUB" -> compute_all_sub(dst, src1)
    [] op = "SBB" -> compute_all_sbb(dst, src1, src2)
    [] op = "LOGIC" -> compute_all_logic(dst)
    [] op = "INC" -> compute_all_inc(dst, src1)
    [] op = "DEC" -> compute_all_dec(dst, src1)
    [] op = "SHL" -> compute_all_shl(dst, src1)
    [] op = "SAR" -> compute_all_sar(dst, src1)
    [] op = "BMILG" -> compute_all_bmilg(dst, src1)
    [] op = "ADCX" -> (src1 \ {"C"}) \cup If(dst = 1, "C")
    [] op = "ADOX" -> (src1 \ {"O"}) \cup If(src2 = 1, "O")
    [] op = "ADCOX" -> (src1 \ {"C", "O"}) \cup If(dst = 1, "C") \cup If(src2 = 1, "O")

helper_cc_compute_c(dst, src1, src2, op) ==
  CASE op \in {"LOGIC", "CLR", "POPCNT"} -> FALSE
    [] op \in {"EFLAGS", "ADOX"} -> "C" \in src1
    [] op = "SAR" -> src1 % 2 = 1
    [] op \in {"INC", "DEC", "MUL"} -> src1 # 0
    [] op \in {"ADCX", "ADCOX"} -> dst = 1
    [] op = "ADD" -> compute_c_add(dst, src1)
    [] op = "ADC" -> compute_c_adc(dst, src1, src2)
    [] op = "SUB" -> compute_c_sub(dst, src1)
    [] op = "SBB" -> compute_c_sbb(dst, src1, src2)
    [] op = "SHL" -> compute_c_shl(src1)
    [] op = "BMILG" -> compute_c_bmilg(src1)

\* The condition flags now.
eflags == helper_cc_compute_all(cc_dst, cc_src, cc_src2, cc_op)
carry == helper_cc_compute_c(cc_dst, cc_src, cc_src2, cc_op)

(***************************************************************************)
(* int_helper.c.                                                           *)
(***************************************************************************)
Sign(s) == IF s < 0 THEN -1 ELSE 1
Abs(s) == IF s < 0 THEN -s ELSE s
\* Division and remainder of C.
Div(n, d) == Sign(n) * Sign(d) * (Abs(n) \div Abs(d))
Mod(n, d) == n - d * Div(n, d)

\* The negative of a number of two words.
neg128(plow, phigh) ==
  LET low == Wrap((2^W - 1 - plow) + 1)
  IN [low |-> low, high |-> Wrap((2^W - 1 - phigh) + (IF low < 1 THEN 1 ELSE 0))]

\* Two words by one, bit by bit: a1 is the remainder so far, a0 the rest of the number and
\* the quotient that takes its place.  The bit shifted out of a1 counts.
\* (Mutant: it does not.)
DivStepNoCarry(s, b) ==
  LET a1 == Wrap(2 * s.a1 + Msb(s.a0))
  IN [a1 |-> IF a1 >= b THEN a1 - b ELSE a1, a0 |-> Wrap(2 * s.a0 + (IF a1 >= b THEN 1 ELSE 0))]
DivStep(s, b) ==
  LET a1 == Wrap(2 * s.a1 + Msb(s.a0))
      qb == Msb(s.a1) = 1 \/ a1 >= b
  IN [a1 |-> IF qb THEN Wrap(a1 - b) ELSE a1, a0 |-> Wrap(2 * s.a0 + (IF qb THEN 1 ELSE 0))]
div64(plow, phigh, b) ==
  LET loop[i \in 0..W] == IF i = 0 THEN [a0 |-> plow, a1 |-> phigh] ELSE DivStep(loop[i - 1], b)
  IN IF phigh = 0 THEN [overflow |-> FALSE, low |-> plow \div b, high |-> plow % b]
     ELSE IF phigh >= b THEN [overflow |-> TRUE, low |-> plow, high |-> phigh]
     ELSE [overflow |-> FALSE, low |-> loop[W].a0, high |-> loop[W].a1]

\* By the absolute values; the quotient must have the right sign afterwards.
idiv64(plow, phigh, b) ==
  LET sa == Msb(phigh) = 1
      sb == Msb(b) = 1
      num == IF sa THEN neg128(plow, phigh) ELSE [low |-> plow, high |-> phigh]
      d == div64(num.low, num.high, IF sb THEN Wrap(-b) ELSE b)
      tooLarge == IF sa # sb THEN d.low > 2^(W - 1) ELSE d.low >= 2^(W - 1)
  IN [overflow |-> d.overflow \/ tooLarge,
      low |-> IF sa # sb THEN Wrap(-d.low) ELSE d.low,
      high |-> IF sa THEN Wrap(-d.high) ELSE d.high]

\* The bits of src to the places of the mask, and back.  ctz: the lowest bit of a mask.
ctz(mask) == CHOOSE i \in 0..(W - 1) : Bit(mask, i) = 1 /\ \A j \in 0..(i - 1) : Bit(mask, j) = 0
WithoutLowest(mask) == mask - 2^ctz(mask)
PdepStep(s, src) ==
  IF s.mask = 0 THEN s
  ELSE [i |-> s.i + 1, mask |-> WithoutLowest(s.mask),
        dest |-> s.dest + Bit(src, s.i) * 2^ctz(s.mask)]
helper_pdep(src, m) ==
  LET loop[n \in 0..W] == IF n = 0 THEN [i |-> 0, mask |-> m, dest |-> 0]
                          ELSE PdepStep(loop[n - 1], src)
  IN loop[W].dest
PextStep(s, src) ==
  IF s.mask = 0 THEN s
  ELSE [o |-> s.o + 1, mask |-> WithoutLowest(s.mask),
        dest |-> s.dest + Bit(src, ctz(s.mask)) * 2^s.o]
helper_pext(src, m) ==
  LET loop[n \in 0..W] == IF n = 0 THEN [o |-> 0, mask |-> m, dest |-> 0]
                          ELSE PextStep(loop[n - 1], src)
  IN loop[W].dest

(***************************************************************************)
(* Instructions.                                                           *)
(***************************************************************************)
Max == 2^W - 1
Gap == 2^Digit - Ten              \* 6
LowDigit(x) == x % 2^Digit        \* x & 0x0f
Packed99 == (Ten - 1) * 2^Digit + Ten - 1
CarryBit == IF carry THEN 1 ELSE 0
And(x, y) == helper_pdep(helper_pext(x, y), y)

None == [kind |-> "none", x |-> 0, y |-> 0, c |-> 0]
Operands(kind, x, y, c) == [kind |-> kind, x |-> x, y |-> y, c |-> c]

\* The instructions that may be executed now; a fault ends the program.
Available == IF fault \/ step = Len(Program) THEN {} ELSE Program[step + 1]
Fetches(i, ops) == i.op \in ops /\ insn' = i /\ step' = step + 1
\* Most instructions leave the flags of the system alone.
Executes(i, ops) == Fetches(i, ops) /\ UNCHANGED sys
NotDecimal == decimal' = None

SetCC(op, dst, src, src2) == cc_op' = op /\ cc_dst' = dst /\ cc_src' = src /\ cc_src2' = src2
SetResult(r) == lo' = r /\ UNCHANGED <<hi, fault>>

\* Translated: sums and differences, with the flags left for later.
Arithmetic ==
  \E i \in Available :
    /\ Executes(i, {"ADD", "ADC", "SUB", "SBB"})
    /\ LET c == IF i.op \in {"ADC", "SBB"} THEN CarryBit ELSE 0
           r == IF i.op \in {"ADD", "ADC"} THEN Wrap(lo + i.src + c) ELSE Wrap(lo - i.src - c)
       IN /\ SetResult(r)
          /\ SetCC(i.op, r, i.src, IF i.op \in {"ADC", "SBB"} THEN c ELSE cc_src2)
          /\ decimal' = Operands(IF i.op \in {"ADD", "ADC"} THEN "add" ELSE "sub", lo, i.src, c)

IncDec ==
  \E i \in Available :
    /\ Executes(i, {"INC", "DEC"})
    /\ LET r == IF i.op = "INC" THEN Wrap(lo + 1) ELSE Wrap(lo - 1)
       IN SetResult(r) /\ SetCC(i.op, r, CarryBit, cc_src2)
    /\ NotDecimal

Logic ==
  \E i \in Available :
    /\ Executes(i, {"AND", "XOR_SELF", "SHL", "SAR", "BLSR", "POPCNT"})
    /\ LET r == CASE i.op = "AND" -> And(lo, i.src)
                  [] i.op = "XOR_SELF" -> 0
                  [] i.op = "SHL" -> Wrap(2 * lo)
                  [] i.op = "SAR" -> Wrap(Signed(lo) \div 2)
                  [] i.op = "BLSR" -> IF lo = 0 THEN 0 ELSE WithoutLowest(lo)
                  [] i.op = "POPCNT" -> Cardinality({b \in 0..(W - 1) : Bit(lo, b) = 1})
           op == CASE i.op = "AND" -> "LOGIC" [] i.op = "XOR_SELF" -> "CLR"
                   [] i.op = "BLSR" -> "BMILG" [] OTHER -> i.op
       IN SetResult(r) /\ SetCC(op, r, lo, cc_src2)
    /\ NotDecimal

Multiply ==
  \E i \in Available :
    /\ Executes(i, {"MUL", "IMUL"})
    /\ LET product == IF i.op = "MUL" THEN lo * i.src ELSE Signed(lo) * Signed(i.src)
           r == Wrap(product)
       IN /\ lo' = r
          /\ hi' = IF i.op = "MUL" THEN product \div 2^W ELSE hi
          /\ SetCC("MUL", r, IF i.op = "MUL" THEN product \div 2^W ELSE product - Signed(r), cc_src2)
    /\ UNCHANGED fault /\ NotDecimal

\* ADCX and ADOX keep their carries in cc_dst and cc_src2 and share the other flags.
AdcxAdox ==
  \E i \in Available :
    /\ Executes(i, {"ADCX", "ADOX"})
    /\ LET kept == IF i.op = "ADCX" THEN cc_op \in {"ADCX", "ADCOX"} ELSE cc_op \in {"ADOX", "ADCOX"}
           other == cc_op \in {"ADCX", "ADOX", "ADCOX"} /\ (cc_op # i.op)
           c == IF kept THEN (IF i.op = "ADCX" THEN cc_dst ELSE cc_src2)
                ELSE IF (IF i.op = "ADCX" THEN "C" ELSE "O") \in eflags THEN 1 ELSE 0
           sum == lo + i.src + c
           out == IF sum > Max THEN 1 ELSE 0
       IN /\ SetResult(Wrap(sum))
          /\ SetCC(IF other THEN "ADCOX" ELSE i.op,
                   IF i.op = "ADCX" THEN out ELSE cc_dst,
                   IF kept \/ other THEN cc_src ELSE eflags,
                   IF i.op = "ADOX" THEN out ELSE cc_src2)
    /\ NotDecimal

\* helper_pdep and helper_pext.
BitField ==
  \E i \in Available :
    /\ Executes(i, {"PDEP", "PEXT"})
    /\ SetResult(IF i.op = "PDEP" THEN helper_pdep(lo, i.src) ELSE helper_pext(lo, i.src))
    /\ NotDecimal /\ UNCHANGED cc

Raise == fault' = TRUE /\ UNCHANGED <<lo, hi, decimal>>
Quotient(q, r) == lo' = Wrap(q) /\ hi' = Wrap(r) /\ UNCHANGED fault /\ NotDecimal

\* helper_divb_AL, helper_divw_AX, helper_divl_EAX: the dividend fits in a number of C.
Div32 ==
  \E i \in Available :
    /\ Executes(i, {"DIV"})
    /\ LET num == hi * 2^W + lo
           den == i.src
       IN IF den = 0 THEN Raise
          ELSE IF num \div den > Max THEN Raise
          ELSE Quotient(num \div den, num % den)
    /\ UNCHANGED cc

\* helper_idivb_AL, helper_idivw_AX, helper_idivl_EAX.  The smallest dividend by -1 is
\* undefined in the latter two; the division of the host traps, too.
Idiv32 ==
  \E i \in Available :
    /\ Executes(i, {"IDIV"})
    /\ LET num == Signed(hi) * 2^W + lo
           den == Signed(i.src)
       IN IF den = 0 THEN Raise
          ELSE IF Div(num, den) # Signed(Wrap(Div(num, den))) THEN Raise
          ELSE Quotient(Div(num, den), Mod(num, den))
    /\ UNCHANGED cc

\* helper_divq_EAX, helper_idivq_EAX.
Div64 ==
  \E i \in Available :
    /\ Executes(i, {"DIVQ", "IDIVQ"})
    /\ IF i.src = 0 THEN Raise
       ELSE LET d == IF i.op = "DIVQ" THEN div64(lo, hi, i.src) ELSE idiv64(lo, hi, i.src)
            IN IF d.overflow THEN Raise ELSE Quotient(d.low, d.high)
    /\ UNCHANGED cc

\* helper_aam and helper_aad; the flags of the result.
BaseConversion ==
  \E i \in Available :
    /\ Executes(i, {"AAM", "AAD"})
    /\ lo' = (IF i.op = "AAM" THEN lo % Ten ELSE Wrap(hi * Ten + lo))
    /\ hi' = (IF i.op = "AAM" THEN lo \div Ten ELSE 0)
    /\ SetCC("LOGIC", lo', cc_src, cc_src2)
    /\ UNCHANGED fault /\ NotDecimal

\* helper_aaa and helper_aas: one digit, with the carry to hi.
AdjustUnpacked ==
  \E i \in Available :
    /\ Executes(i, {"AAA", "AAS"})
    /\ LET needed == LowDigit(lo) > Ten - 1 \/ "A" \in eflags
           icarry == IF i.op = "AAA" THEN (IF lo > Max - Gap THEN 1 ELSE 0)
                                     ELSE (IF lo < Gap THEN 1 ELSE 0)
       IN /\ lo' = LowDigit(IF ~needed THEN lo ELSE IF i.op = "AAA" THEN lo + Gap ELSE lo - Gap)
          /\ hi' = (IF ~needed THEN hi
                    ELSE IF i.op = "AAA" THEN Wrap(hi + 1 + icarry) ELSE Wrap(hi - 1 - icarry))
          /\ SetCC("EFLAGS", cc_dst, IF needed THEN eflags \cup {"C", "A"} ELSE eflags \ {"C", "A"},
                   cc_src2)
    /\ UNCHANGED fault /\ NotDecimal

\* helper_daa: two packed digits; the second test looks at the operand, not at the sum so far.
AdjustAfterAddition ==
  \E i \in Available :
    /\ Executes(i, {"DAA"})
    /\ LET low == LowDigit(lo) > Ten - 1 \/ "A" \in eflags
           high == lo > Packed99 \/ "C" \in eflags
           r == Wrap(lo + (IF low THEN Gap ELSE 0) + (IF high THEN Gap * 2^Digit ELSE 0))
       IN /\ SetResult(r)
          /\ SetCC("EFLAGS", cc_dst, If(low, "A") \cup If(high, "C") \cup resultFlags(r), cc_src2)
    /\ NotDecimal

\* helper_das; a borrow of the low digit may be one of the word.
AdjustAfterSubtraction ==
  \E i \in Available :
    /\ Executes(i, {"DAS"})
    /\ LET low == LowDigit(lo) > Ten - 1 \/ "A" \in eflags
           high == lo > Packed99 \/ "C" \in eflags
           borrow == low /\ (lo < Gap \/ "C" \in eflags)
           r == Wrap(lo - (IF low THEN Gap ELSE 0) - (IF high THEN Gap * 2^Digit ELSE 0))
       IN /\ SetResult(r)
          /\ SetCC("EFLAGS", cc_dst, If(low, "A") \cup If(high \/ borrow, "C") \cup resultFlags(r),
                   cc_src2)
    /\ NotDecimal

(***************************************************************************)
(* The flags together (cc_helper.c, helper_write_eflags and below).        *)
(***************************************************************************)
System == {"I", "AC", "RF"}

\* helper_read_eflags; DF is a bit of the number -1, and none of 1.
helper_read_eflags == eflags \cup If(df = -1, "D") \cup (system \ {"RF"})

\* helper_write_eflags: the condition flags wait in cc_src, the flags outside of the mask stay.
helper_write_eflags(t0, update_mask) ==
  /\ SetCC("EFLAGS", cc_dst, t0 \cap Flag, cc_src2)
  /\ df' = (IF "D" \in t0 THEN -1 ELSE 1)
  /\ system' = (system \ update_mask) \cup (t0 \cap update_mask)

\* PUSHF and POPF; a process may not change IF.
FlagsImage ==
  \E i \in Available :
    /\ Fetches(i, {"PUSHF", "POPF_USER", "POPF_KERNEL"})
    /\ IF i.op = "PUSHF" THEN image' = helper_read_eflags /\ UNCHANGED <<cc, system, df>>
       ELSE /\ helper_write_eflags(image, IF i.op = "POPF_USER" THEN {"AC"} ELSE {"AC", "I"})
            /\ UNCHANGED image
    /\ UNCHANGED <<lo, hi, fault>> /\ NotDecimal

\* helper_cli, helper_sti, helper_clac, helper_stac, and helper_reset_rf after an instruction
\* that was resumed.
SystemFlag ==
  \E i \in Available :
    /\ Fetches(i, {"CLI", "STI", "CLAC", "STAC", "RESUMED"})
    /\ system' = CASE i.op = "CLI" -> system \ {"I"}
                    [] i.op = "STI" -> system \cup {"I"}
                    [] i.op = "CLAC" -> system \ {"AC"}
                    [] i.op = "STAC" -> system \cup {"AC"}
                    [] i.op = "RESUMED" -> system \ {"RF"}
    /\ UNCHANGED <<cc, df, image, lo, hi, fault>> /\ NotDecimal

\* helper_rdrand: CF tells whether there is a number.
Random ==
  \E i \in Available :
    /\ Executes(i, {"RDRAND"})
    /\ \E r \in Word, ok \in BOOLEAN :
         /\ SetResult(IF ok THEN r ELSE 0)
         /\ SetCC("EFLAGS", cc_dst, If(ok, "C"), cc_src2)
    /\ NotDecimal

Init ==
  /\ cc_op = "EFLAGS"
  /\ \E f \in Flags : cc_src = f \cap Flag /\ system = f \cap System
                        /\ df = (IF "D" \in f THEN -1 ELSE 1)
  /\ image \in Images
  /\ cc_dst = 0 /\ cc_src2 = 0
  /\ lo \in Word /\ hi \in Hi
  /\ fault = FALSE
  /\ insn = [op |-> "none", src |-> 0] /\ step = 0 /\ decimal = None

Next ==
  \/ Arithmetic \/ IncDec \/ Logic \/ Multiply \/ AdcxAdox
  \/ BitField \/ Div32 \/ Idiv32 \/ Div64 \/ Random
  \/ BaseConversion \/ AdjustUnpacked \/ AdjustAfterAddition \/ AdjustAfterSubtraction
  \/ FlagsImage \/ SystemFlag

Spec == Init /\ [][Next]_vars

\* The helpers compute what the processor does, whatever instruction came before: the flags,
\* at any moment, results, exceptions, and decimals.
Processor == INSTANCE Cpu
               WITH Instructions <- UNION Range(Program), control <- system \cup If(df = -1, "D")
ImplementsCpu == Processor!Spec

\* The carry flag has two ways to be computed, which agree (helper_cc_compute_c and
\* helper_cc_compute_all).
CarryAgrees == carry <=> "C" \in eflags
=============================================================================
