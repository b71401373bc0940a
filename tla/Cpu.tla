--------------------------------- MODULE Cpu ---------------------------------
(***************************************************************************)
(* What the instructions promise that QEMU hands to the helpers of         *)
(* sym_helpers: results, the condition flags, decimal arithmetic.  A word  *)
(* has W bits, a digit in it Digit bits, and decimals have the base Ten    *)
(* (64, 8, 4 bits and 10 in the processor; one width of operand stands for *)
(* all).  lo and hi are AL and AH, or EAX and EDX.                         *)
(***************************************************************************)
EXTENDS Integers, FiniteSets

CONSTANTS W, Digit, Ten, Instructions

VARIABLES
  insn,      \* the instruction executed last: [op, src]
  lo, hi,    \* the registers
  eflags,    \* the flags that are set, of C, P, A, Z, S, O
  control,   \* the other flags that are set, of D, I, AC, RF
  image,     \* the flags on top of the stack
  fault,     \* has a division raised an exception?
  decimal    \* what the last addition or subtraction was on decimals (history)

vars == <<insn, lo, hi, eflags, control, image, fault, decimal>>

Word == 0..(2^W - 1)
Flag == {"C", "P", "A", "Z", "S", "O"}
Control == {"D", "I", "AC", "RF"}
Wrap(x) == x % 2^W
Signed(x) == IF x >= 2^(W - 1) THEN x - 2^W ELSE x
Fits(s) == s \in -(2^(W - 1))..(2^(W - 1) - 1)
OneBits(x) == {i \in 0..(W - 1) : (x \div 2^i) % 2 = 1}
EvenParity(x) == Cardinality(OneBits(x) \cap 0..(2 * Digit - 1)) % 2 = 0
LowDigit(x) == x % 2^Digit
HighDigit(x) == x \div 2^Digit

\* Flags that only depend on the result.
OfResult(r) ==
  {f \in {"P", "Z", "S"} : CASE f = "P" -> EvenParity(r) [] f = "Z" -> r = 0
                             [] f = "S" -> Signed(r) < 0}
If(condition, f) == IF condition THEN {f} ELSE {}

\* Decimals: one digit, or two packed into a word.
Packed(x) == LowDigit(x) < Ten /\ HighDigit(x) < Ten
Number(x) == Ten * HighDigit(x) + LowDigit(x)
Pack(n) == (n \div Ten) * 2^Digit + (n % Ten)
None == [kind |-> "none", x |-> 0, y |-> 0, c |-> 0]
Operands(kind, x, y, c) == [kind |-> kind, x |-> x, y |-> y, c |-> c]

Does(r, flags) == [lo |-> r, hi |-> hi, flags |-> flags, undefined |-> {}, fault |-> FALSE,
                   decimal |-> None, control |-> control, image |-> image]
Undefined(effect, flags) == [effect EXCEPT !.undefined = flags]

Sum(x, y, c) ==
  [Does(Wrap(x + y + c),
        OfResult(Wrap(x + y + c)) \cup If(x + y + c >= 2^W, "C")
          \cup If(LowDigit(x) + LowDigit(y) + c >= 2^Digit, "A")
          \cup If(~Fits(Signed(x) + Signed(y) + c), "O"))
   EXCEPT !.decimal = Operands("add", x, y, c)]
Difference(x, y, c) ==
  [Does(Wrap(x - y - c),
        OfResult(Wrap(x - y - c)) \cup If(x < y + c, "C")
          \cup If(LowDigit(x) < LowDigit(y) + c, "A")
          \cup If(~Fits(Signed(x) - Signed(y) - c), "O"))
   EXCEPT !.decimal = Operands("sub", x, y, c)]
KeepCarry(effect) ==
  [effect EXCEPT !.flags = (@ \ {"C"}) \cup (eflags \cap {"C"}), !.decimal = None]

Carry == IF "C" \in eflags THEN 1 ELSE 0
Overflow == IF "O" \in eflags THEN 1 ELSE 0
Sign(s) == IF s < 0 THEN -1 ELSE 1
Abs(s) == IF s < 0 THEN -s ELSE s
\* Quotient rounded towards zero.
Quot(n, d) == Sign(n) * Sign(d) * (Abs(n) \div Abs(d))
Divide(n, d, q, inRange) ==
  IF d = 0 \/ ~inRange THEN [Does(lo, {}) EXCEPT !.fault = TRUE]
  ELSE Undefined([Does(Wrap(q), {}) EXCEPT !.hi = Wrap(n - q * d)], Flag)

\* The image shows all flags but RF; a process may change these of them, the kernel IF, too.
Pushed == [Does(lo, eflags) EXCEPT !.image = eflags \cup (control \ {"RF"})]
Popped(mask) ==
  [Does(lo, image \cap Flag) EXCEPT !.control = (control \ mask) \cup (image \cap mask)]
Sets(f) == [Does(lo, eflags) EXCEPT !.control = @ \cup {f}]
Clears(f) == [Does(lo, eflags) EXCEPT !.control = @ \ {f}]

\* The bits of x numbered by their rank in the mask, spread to it or gathered from it.
Rank(i, mask) == Cardinality({j \in OneBits(mask) : j < i})
FromBits(S) == CHOOSE x \in Word : OneBits(x) = S

\* After an addition or subtraction of decimals an adjustment leaves the decimal result;
\* anything may follow from an adjustment of something else.
DecimalResult(kind) ==
  IF kind = "add" THEN Number(decimal.x) + Number(decimal.y) + decimal.c
                  ELSE Number(decimal.x) - Number(decimal.y) - decimal.c
AdjustPacked(kind, r) ==
  LET n == DecimalResult(kind)
      base == Ten * Ten
  IN decimal.kind = kind /\ Packed(decimal.x) /\ Packed(decimal.y) =>
       /\ r.lo = Pack(n % base) /\ r.hi = hi
       /\ ("C" \in r.flags) = (n \notin 0..(base - 1))
       /\ r.flags \cap {"P", "Z", "S"} = OfResult(r.lo)
\* One digit per word; the carry goes to the other register.
AdjustUnpacked(kind, r) ==
  LET n == DecimalResult(kind)
  IN decimal.kind = kind /\ decimal.x < Ten /\ decimal.y < Ten =>
       /\ r.lo = n % Ten /\ r.hi = Wrap(hi + n \div Ten)
       /\ {"C", "A"} \cap r.flags = (IF n \in 0..(Ten - 1) THEN {} ELSE {"C", "A"})

Adjustments == {"DAA", "DAS", "AAA", "AAS"}

Effect(i) ==
  LET y == i.src
      n == 2^W * hi + lo
      sn == 2^W * Signed(hi) + lo
      squot == IF y = 0 THEN 0 ELSE Quot(sn, Signed(y))
      product == lo * y
      sproduct == Signed(lo) * Signed(y)
  IN CASE i.op = "ADD" -> Sum(lo, y, 0)
       [] i.op = "ADC" -> Sum(lo, y, Carry)
       [] i.op = "SUB" -> Difference(lo, y, 0)
       [] i.op = "SBB" -> Difference(lo, y, Carry)
       [] i.op = "INC" -> KeepCarry(Sum(lo, 1, 0))
       [] i.op = "DEC" -> KeepCarry(Difference(lo, 1, 0))
       [] i.op = "AND" -> LET r == FromBits(OneBits(lo) \cap OneBits(y))
                          IN Undefined(Does(r, OfResult(r)), {"A"})
       [] i.op = "XOR_SELF" -> Undefined(Does(0, {"Z", "P"}), {"A"})
       [] i.op = "SHL" -> LET r == Wrap(2 * lo)
                          IN Undefined(Does(r, OfResult(r) \cup If(2 * lo >= 2^W, "C")
                                                 \cup If(Signed(r) # 2 * Signed(lo), "O")), {"A"})
       [] i.op = "SAR" -> LET r == Wrap(Signed(lo) \div 2)
                          IN Undefined(Does(r, OfResult(r) \cup If(lo % 2 = 1, "C")), {"A"})
       [] i.op = "MUL" -> Undefined([Does(Wrap(product),
                                          If(product >= 2^W, "C") \cup If(product >= 2^W, "O"))
                                     EXCEPT !.hi = product \div 2^W], {"A", "P", "Z", "S"})
       [] i.op = "IMUL" -> Undefined(Does(Wrap(sproduct),
                                          If(~Fits(sproduct), "C") \cup If(~Fits(sproduct), "O")),
                                     {"A", "P", "Z", "S"})
       [] i.op = "BLSR" -> LET r == FromBits({b \in OneBits(lo) : \E j \in OneBits(lo) : j < b})
                           IN Undefined(Does(r, (OfResult(r) \ {"P"}) \cup If(lo = 0, "C")), {"A", "P"})
       [] i.op = "POPCNT" -> Does(Cardinality(OneBits(lo)), If(lo = 0, "Z"))
       [] i.op = "ADCX" -> Does(Wrap(lo + y + Carry),
                                (eflags \ {"C"}) \cup If(lo + y + Carry >= 2^W, "C"))
       [] i.op = "ADOX" -> Does(Wrap(lo + y + Overflow),
                                (eflags \ {"O"}) \cup If(lo + y + Overflow >= 2^W, "O"))
       [] i.op \in {"DIV", "DIVQ"} -> Divide(n, y, IF y = 0 THEN 0 ELSE n \div y, y # 0 /\ n \div y \in Word)
       [] i.op \in {"IDIV", "IDIVQ"} -> Divide(sn, Signed(y), squot, Fits(squot))
       [] i.op = "AAM" -> LET r == lo % Ten
                          IN Undefined([Does(r, OfResult(r)) EXCEPT !.hi = lo \div Ten], {"C", "A", "O"})
       [] i.op = "AAD" -> LET r == Wrap(Ten * hi + lo)
                          IN Undefined([Does(r, OfResult(r)) EXCEPT !.hi = 0], {"C", "A", "O"})
       [] i.op = "PDEP" -> Undefined(Does(FromBits({b \in OneBits(y) : Rank(b, y) \in OneBits(lo)}),
                                          eflags), {})
       [] i.op = "PEXT" -> Undefined(Does(FromBits({Rank(b, y) : b \in OneBits(lo) \cap OneBits(y)}),
                                          eflags), {})
       [] i.op = "PUSHF" -> Pushed
       [] i.op = "POPF_USER" -> Popped({"D", "AC"})
       [] i.op = "POPF_KERNEL" -> Popped({"D", "AC", "I"})
       [] i.op = "CLI" -> Clears("I")
       [] i.op = "STI" -> Sets("I")
       [] i.op = "CLAC" -> Clears("AC")
       [] i.op = "STAC" -> Sets("AC")
       [] i.op = "RESUMED" -> Clears("RF")

Execute(i) ==
  IF i.op \in Adjustments
  THEN /\ lo' \in Word /\ hi' \in Word /\ decimal' = None
       /\ UNCHANGED <<control, image, fault>>
       /\ LET r == [lo |-> lo', hi |-> hi', flags |-> eflags']
          IN CASE i.op = "DAA" -> AdjustPacked("add", r)
               [] i.op = "DAS" -> AdjustPacked("sub", r)
               [] i.op = "AAA" -> AdjustUnpacked("add", r)
               [] i.op = "AAS" -> AdjustUnpacked("sub", r)
  ELSE IF i.op = "RDRAND"
  THEN \* a number, or none
       /\ lo' \in Word /\ eflags' \in {{"C"}, {}} /\ (eflags' = {} => lo' = 0)
       /\ decimal' = None /\ UNCHANGED <<hi, control, image, fault>>
  ELSE LET e == Effect(i)
       IN /\ fault' = e.fault /\ control' = e.control /\ image' = e.image
          /\ IF e.fault THEN UNCHANGED <<lo, hi, eflags, decimal>>
             ELSE /\ lo' = e.lo /\ hi' = e.hi /\ decimal' = e.decimal
                  /\ eflags' \ e.undefined = e.flags \ e.undefined

Init ==
  /\ insn = [op |-> "none", src |-> 0]
  /\ lo \in Word /\ hi \in Word
  /\ eflags \in SUBSET Flag /\ control \in SUBSET Control
  /\ image \in SUBSET (Flag \cup Control)
  /\ fault = FALSE
  /\ decimal = None

Next == ~fault /\ insn' \in Instructions /\ Execute(insn')

Spec == Init /\ [][Next]_vars
=============================================================================
