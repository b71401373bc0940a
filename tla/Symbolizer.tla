----------------------------- MODULE Symbolizer -----------------------------
(***************************************************************************)
(* The compiler pass (compiler_symbolizer.cpp, compiler_runtime.cpp): the  *)
(* instrumented program while it runs.  Every value of the program has a   *)
(* shadow, a symbolic expression or null; the pass decides what becomes of *)
(* the shadows at each instruction and which conditions are recorded.      *)
(*                                                                         *)
(* The program runs on `input', and the model runs it on all other inputs  *)
(* in lockstep, down the path of `input': a value is a function that gives *)
(* for each input what the program computes there, and `follows' is the    *)
(* set of inputs whose own run has taken the same path so far.  An         *)
(* expression is a function of the input, too, so "the shadow is right"    *)
(* means that two functions agree.                                         *)
(*                                                                         *)
(* The LLVM instructions and the run-time library that builds expressions  *)
(* are external: they compute what their names say.                        *)
(***************************************************************************)
EXTENDS Integers, Sequences, FiniteSets, SequencesExt

CONSTANTS
  Assign,       \* inputs of the program: small numbers
  Programs,     \* what may be compiled and run, see below
  Regs,         \* SSA values
  Addrs,        \* memory cells
  PtrBits,      \* width of a pointer
  NoValue       \* content of a register before its definition

(***************************************************************************)
(* A program has code[fn][block], a record of phis, a function from        *)
(* registers to the operand each predecessor gives them, and of            *)
(* instructions.  external, intercepted and throwing are its functions     *)
(* that are not instrumented; those the run-time library intercepts        *)
(* (isInterceptedFunction) read the input, and the last throw exceptions.  *)
(***************************************************************************)
VARIABLES
  program,
  input,            \* what the program runs on
  frame,            \* the function under way: code position, values, shadows
  stack,            \* its callers, the last one at the end
  memory,           \* contents of memory
  shadow,           \* the expressions the run-time library keeps for memory
  params,           \* setParameterExpression
  returned,         \* setReturnExpression
  pathConstraints,  \* what was pushed
  follows,          \* inputs that follow the path
  \* History: has an expression been dropped, or become that of something else?
  lossy, mistranslated

vars == <<program, input, frame, stack, memory, shadow, params, returned,
          pathConstraints, follows, lossy, mistranslated>>

\* The null expression: the value does not depend on the input.  It stands for "nothing", too.
Null == [null |-> TRUE]
ASSUME RegsAssumption == Null \notin Regs

Truth == [sort |-> "bool", bits |-> 1]
Bits(n) == [sort |-> "bits", bits |-> n]
Float(n) == [sort |-> "float", bits |-> n]
Address == Bits(PtrBits)
\* The type iN of LLVM: i1 is the type of truth values.
IntegerType(n) == IF n = 1 THEN Truth ELSE Bits(n)
TypeOf(v) == [sort |-> v.sort, bits |-> v.bits]
Typed(t, val) == [sort |-> t.sort, bits |-> t.bits, val |-> val]

(***************************************************************************)
(* Arithmetic: what LLVM says of an opcode, on numbers of n bits.  Floats  *)
(* are whole numbers here.                                                 *)
(***************************************************************************)
Signed(n, x) == IF x >= 2^(n - 1) THEN x - 2^n ELSE x
BitsOf(n, x) == {i \in 0..(n - 1) : (x \div 2^i) % 2 = 1}
FromBits(n, S) == CHOOSE x \in 0..(2^n - 1) : BitsOf(n, x) = S
Magnitude(x) == IF x < 0 THEN -x ELSE x
Sign(x) == IF x < 0 THEN -1 ELSE 1
\* Division that rounds towards zero, and its remainder.
Quot(x, y) == Sign(x) * Sign(y) * (Magnitude(x) \div Magnitude(y))

BinaryOps == {"Add", "Sub", "Mul", "UDiv", "SDiv", "URem", "SRem", "Shl",
              "LShr", "AShr", "And", "Or", "Xor", "FAdd", "FSub", "FMul"}
Predicates == {"EQ", "NE", "UGT", "UGE", "ULT", "ULE", "SGT", "SGE", "SLT",
               "SLE", "OGT", "OGE", "OLT", "OLE", "OEQ", "ONE"}

Compute(o, n, x, y) ==
  LET sx == Signed(n, x)  sy == Signed(n, y)
      X == BitsOf(n, x)   Y == BitsOf(n, y)
  IN CASE o = "Add"  -> (x + y) % 2^n
       [] o = "Sub"  -> (x - y) % 2^n
       [] o = "Mul"  -> (x * y) % 2^n
       [] o = "UDiv" -> x \div y
       [] o = "URem" -> x % y
       [] o = "SDiv" -> Quot(sx, sy) % 2^n
       [] o = "SRem" -> (sx - sy * Quot(sx, sy)) % 2^n
       [] o = "Shl"  -> (x * 2^y) % 2^n
       [] o = "LShr" -> x \div 2^y
       [] o = "AShr" -> (sx \div 2^y) % 2^n
       [] o = "And"  -> FromBits(n, X \cap Y)
       [] o = "Or"   -> FromBits(n, X \cup Y)
       [] o = "Xor"  -> FromBits(n, (X \cup Y) \ (X \cap Y))
       [] o = "FAdd" -> x + y
       [] o = "FSub" -> x - y
       [] o = "FMul" -> x * y

Holds(p, n, x, y) ==
  LET sx == Signed(n, x)  sy == Signed(n, y)
  IN CASE p \in {"EQ", "OEQ"} -> x = y
       [] p \in {"NE", "ONE"} -> x # y
       [] p \in {"UGT", "OGT"} -> x > y
       [] p \in {"UGE", "OGE"} -> x >= y
       [] p \in {"ULT", "OLT"} -> x < y
       [] p \in {"ULE", "OLE"} -> x <= y
       [] p = "SGT" -> sx > sy
       [] p = "SGE" -> sx >= sy
       [] p = "SLT" -> sx < sy
       [] p = "SLE" -> sx <= sy

\* An opcode or a predicate applied to two values, or to two expressions.
Apply(o, type, x, y) ==
  Typed(type, [a \in Assign |->
    IF o \in Predicates THEN IF Holds(o, x.bits, x.val[a], y.val[a]) THEN 1 ELSE 0
                        ELSE Compute(o, x.bits, x.val[a], y.val[a])])

\* Conversions of a number x of m bits to n bits.
Convert(kind, m, n, x) ==
  CASE \/ kind \in {"Trunc", "FPToSI", "FPToUI", "FloatToBits"}
       \/ kind \in {"IntToPtr", "PtrToInt"} /\ m # n -> x % 2^n
    [] \/ kind \in {"ZExt", "UIToFP", "FPExt", "FPTrunc", "PointerCast", "expect"}
       \/ kind \in {"IntToPtr", "PtrToInt"} /\ m = n -> x
    [] kind = "SExt" -> Signed(m, x) % 2^n
    [] kind \in {"SIToFP", "BitsToFloat"} -> Signed(m, x)
    [] kind = "fabs" -> Magnitude(x)
    [] kind = "bswap" -> FromBits(n, {m - 1 - i : i \in BitsOf(m, x)})
    [] kind = "ctpop" -> Cardinality(BitsOf(m, x))

ConvertTo(type, kind, x) ==
  Typed(type, [a \in Assign |-> Convert(kind, x.bits, type.bits, x.val[a])])

(***************************************************************************)
(* The run-time library: the functions of compiler_runtime.cpp by name.    *)
(***************************************************************************)
binaryOperatorHandlers ==
  [Add  |-> "add", Sub |-> "sub", Mul |-> "mul", UDiv |-> "unsigned_div",
   SDiv |-> "signed_div", URem |-> "unsigned_rem", SRem |-> "signed_rem",
   Shl  |-> "shift_left", LShr |-> "logical_shift_right",
   AShr |-> "arithmetic_shift_right", And |-> "and", Or |-> "or", Xor |-> "xor",
   FAdd |-> "fp_add", FSub |-> "fp_sub", FMul |-> "fp_mul"]

comparisonHandlers ==
  [EQ  |-> "equal", NE |-> "not_equal",
   UGT |-> "unsigned_greater_than", UGE |-> "unsigned_greater_equal",
   ULT |-> "unsigned_less_than", ULE |-> "unsigned_less_equal",
   SGT |-> "signed_greater_than", SGE |-> "signed_greater_equal",
   SLT |-> "signed_less_than", SLE |-> "signed_less_equal",
   OGT |-> "float_ordered_greater_than", OGE |-> "float_ordered_greater_equal",
   OLT |-> "float_ordered_less_than", OLE |-> "float_ordered_less_equal",
   OEQ |-> "float_ordered_equal", ONE |-> "float_ordered_not_equal"]

\* The handlers of i1, which is a sort of its own.
boolHandlers == [And |-> "bool_and", Or |-> "bool_or", Xor |-> "bool_xor"]

\* What the library computes for a name.
Implements ==
  [add |-> "Add", sub |-> "Sub", mul |-> "Mul", unsigned_div |-> "UDiv",
   signed_div |-> "SDiv", unsigned_rem |-> "URem", signed_rem |-> "SRem",
   shift_left |-> "Shl", logical_shift_right |-> "LShr",
   arithmetic_shift_right |-> "AShr", and |-> "And", or |-> "Or", xor |-> "Xor",
   fp_add |-> "FAdd", fp_sub |-> "FSub", fp_mul |-> "FMul",
   bool_and |-> "And", bool_or |-> "Or", bool_xor |-> "Xor",
   equal |-> "EQ", not_equal |-> "NE",
   unsigned_greater_than |-> "UGT", unsigned_greater_equal |-> "UGE",
   unsigned_less_than |-> "ULT", unsigned_less_equal |-> "ULE",
   signed_greater_than |-> "SGT", signed_greater_equal |-> "SGE",
   signed_less_than |-> "SLT", signed_less_equal |-> "SLE",
   float_ordered_greater_than |-> "OGT", float_ordered_greater_equal |-> "OGE",
   float_ordered_less_than |-> "OLT", float_ordered_less_equal |-> "OLE",
   float_ordered_equal |-> "OEQ", float_ordered_not_equal |-> "ONE"]

\* What the expression is that a function builds: a truth value, a float, or bits.
Builds(h, x) ==
  CASE Implements[h] \in Predicates \/ h \in Range(boolHandlers) -> Truth
    [] h \in {"fp_add", "fp_sub", "fp_mul"} -> Float(x.bits)
    [] OTHER -> Bits(x.bits)
Build(h, x, y) == Apply(Implements[h], Builds(h, x), x, y)

(***************************************************************************)
(* Operands, and the expressions of a computation.                         *)
(***************************************************************************)
\* A constant of the program, or the number of a function, of a given type.
Const(t, c) == [reg |-> Null, type |-> t, const |-> c]
Reg(r) == [reg |-> r, type |-> Null, const |-> 0]

ValueIn(f, opnd) ==
  IF opnd.reg \in Regs THEN f.real[opnd.reg]
                       ELSE Typed(opnd.type, [a \in Assign |-> opnd.const])
ExpressionIn(f, opnd) == IF opnd.reg \in Regs THEN f.sym[opnd.reg] ELSE Null

Value(opnd) == ValueIn(frame, opnd)
Concrete(opnd) == Value(opnd).val[input]
getSymbolicExpressionOrNull(opnd) == ExpressionIn(frame, opnd)

\* An expression for what the operand is on this run.
createValueExpression(opnd) ==
  Typed(TypeOf(Value(opnd)), [a \in Assign |-> Concrete(opnd)])

Symbolic(opnds) == \E opnd \in opnds : getSymbolicExpressionOrNull(opnd) # Null

\* What an operand is in a computation that is not short-circuited.
Input(opnd) ==
  IF getSymbolicExpressionOrNull(opnd) = Null THEN createValueExpression(opnd)
                                              ELSE getSymbolicExpressionOrNull(opnd)

\* The expression of a computation: none if all inputs are concrete.
ShortCircuit(opnds, expr) == IF Symbolic(opnds) THEN expr ELSE Null

PathConstraint(cond, taken) == [cond |-> cond, taken |-> IF taken THEN 1 ELSE 0]

\* Mutant: the address of an access is taken for granted.
tryAlternativeNone(opnd) == {}

\* The value of a pointer is used: it must be what it is now.
tryAlternative(opnd) ==
  IF Symbolic({opnd})
  THEN {PathConstraint(Build(comparisonHandlers["EQ"], getSymbolicExpressionOrNull(opnd),
                             createValueExpression(opnd)), TRUE)}
  ELSE {}

\* The condition of a branch, a select or an indirect branch.
RecordedBranch(cond) ==
  IF Symbolic({cond})
  THEN {PathConstraint(getSymbolicExpressionOrNull(cond), Concrete(cond) = 1)} ELSE {}

\* Inputs on which the operand has its present value: the others leave the path.
Agree(opnd) == {a \in Assign : Value(opnd).val[a] = Concrete(opnd)}

(***************************************************************************)
(* Instructions without control flow.  Each defines a register, or writes  *)
(* a memory cell, and gives it a shadow.                                   *)
(***************************************************************************)
InstrOf(f) == program.code[f.fn][f.block].instructions[f.i]
Instr == InstrOf(frame)
At(op) == frame # Null /\ Instr.op = op

\* What LLVM promises of a program (the verifier, and that nothing undefined happens): uses
\* come after definitions, conditions are truth values, an access is inside of memory.
Defined(opnds) == \A opnd \in opnds : Value(opnd) # NoValue
IsTruth(opnd) == Defined({opnd}) /\ Concrete(opnd) \in {0, 1}
InMemory(opnd, n) == Defined({opnd}) /\ \A k \in 0..(n - 1) : Concrete(opnd) + k \in Addrs

\* Operators on values of a type, of those that have a handler; the pass compiles no others.
TakesType(o, t) ==
  IF t = Truth THEN o \in DOMAIN boolHandlers
               ELSE o \in BinaryOps /\ t.sort = IF o \in {"FAdd", "FSub", "FMul"} THEN "float" ELSE "bits"

Assigned(f, r, value, expr) == [f EXCEPT !.real[r] = value, !.sym[r] = expr]
Advanced(f) == [f EXCEPT !.i = @ + 1]
Define(r, value, expr) == frame' = Advanced(Assigned(frame, r, value, expr))

\* The expression of an operand is lost at this instruction, or used for something else.
Lose(opnds) == lossy' = (lossy \/ Symbolic(opnds))
Mistranslate(opnds, condition) ==
  mistranslated' = (mistranslated \/ (Symbolic(opnds) /\ condition))

NoConstraint == UNCHANGED <<pathConstraints, follows>>
NoMemory == UNCHANGED <<memory, shadow>>
SameFunction == UNCHANGED <<program, input, stack, params, returned>>
Translated == UNCHANGED mistranslated

\* Binary operators and comparisons.
visitBinaryOperator ==
  /\ At("binary")
  /\ Defined({Instr.a, Instr.b}) /\ TakesType(Instr.opcode, TypeOf(Value(Instr.a)))
  /\ LET x == Value(Instr.a)
         handler == IF TypeOf(x) = Truth THEN boolHandlers[Instr.opcode]
                                         ELSE binaryOperatorHandlers[Instr.opcode]
     IN Define(Instr.dst, Apply(Instr.opcode, TypeOf(x), x, Value(Instr.b)),
               ShortCircuit({Instr.a, Instr.b}, Build(handler, Input(Instr.a), Input(Instr.b))))
  /\ NoConstraint /\ NoMemory /\ SameFunction /\ Translated /\ UNCHANGED lossy

visitCmpInst ==
  /\ At("cmp")
  /\ Defined({Instr.a, Instr.b}) /\ Instr.opcode \in DOMAIN comparisonHandlers
  /\ Define(Instr.dst, Apply(Instr.opcode, Truth, Value(Instr.a), Value(Instr.b)),
            ShortCircuit({Instr.a, Instr.b},
                         Build(comparisonHandlers[Instr.opcode], Input(Instr.a), Input(Instr.b))))
  /\ NoConstraint /\ NoMemory /\ SameFunction /\ Translated /\ UNCHANGED lossy

\* The condition is recorded; the result has no expression.
visitSelectInst ==
  /\ At("select") /\ IsTruth(Instr.cond)
  /\ LET chosen == IF Concrete(Instr.cond) = 1 THEN Instr.a ELSE Instr.b
     IN /\ Defined({chosen})
        /\ Define(Instr.dst, Value(chosen), Null)
        /\ Lose({chosen})
  /\ pathConstraints' = pathConstraints \cup RecordedBranch(Instr.cond)
  /\ follows' = follows \cap Agree(Instr.cond)
  /\ NoMemory /\ SameFunction /\ Translated

\* The expression a conversion builds.
ConversionHandler(kind, x, n) ==
  CASE kind = "Trunc" -> ConvertTo(Bits(n), "Trunc", x)
    [] kind \in {"ZExt", "SExt"} /\ TypeOf(x) = Truth -> ConvertTo(Bits(n), "ZExt", x)
    [] kind \in {"ZExt", "SExt"} /\ TypeOf(x) # Truth -> ConvertTo(Bits(n), kind, x)
    [] kind \in {"SIToFP", "UIToFP", "FPExt", "FPTrunc", "BitsToFloat"} ->
         ConvertTo(Float(n), kind, x)
    [] kind \in {"FPToSI", "FPToUI"} -> ConvertTo(Bits(n), kind, x)
    [] kind \in {"PointerCast", "IntToPtr", "PtrToInt", "expect"} -> x
    [] kind \in {"fabs", "bswap"} -> ConvertTo(TypeOf(x), kind, x)

\* The type LLVM gives the result.
ConversionType(kind, x, n) ==
  CASE kind \in {"SIToFP", "UIToFP", "FPExt", "FPTrunc", "BitsToFloat"} -> Float(n)
    [] kind \in {"PointerCast", "fabs", "bswap", "expect"} -> TypeOf(x)
    [] OTHER -> IntegerType(n)

ConversionKind ==
  {"Trunc", "ZExt", "SExt", "SIToFP", "UIToFP", "FPExt", "FPTrunc", "BitsToFloat", "FPToSI",
   "FPToUI", "PointerCast", "IntToPtr", "PtrToInt", "expect", "fabs", "bswap"}

\* Conversions whose expression is not theirs: a number that becomes a truth value stays one of
\* one bit, a truth value is never extended by its sign, and pointers keep their width.
Deviates(kind, x, n) ==
  \/ n = 1 /\ kind \in {"Trunc", "FPToSI", "FPToUI", "IntToPtr", "PtrToInt"}
  \/ kind = "SExt" /\ TypeOf(x) = Truth
  \/ kind \in {"IntToPtr", "PtrToInt"} /\ TypeOf(x) # Bits(n)

\* Conversions, and the intrinsics fabs, bswap and expect.
visitCastInst ==
  /\ At("cast")
  /\ Defined({Instr.a}) /\ Instr.kind \in ConversionKind
  /\ Instr.kind \in {"ZExt", "SExt"} => Instr.bits # 1
  /\ LET x == Value(Instr.a)
     IN /\ Define(Instr.dst,
                  ConvertTo(ConversionType(Instr.kind, x, Instr.bits), Instr.kind, x),
                  ShortCircuit({Instr.a},
                               ConversionHandler(Instr.kind, Input(Instr.a), Instr.bits)))
        /\ Mistranslate({Instr.a}, Deviates(Instr.kind, x, Instr.bits))
  /\ NoConstraint /\ NoMemory /\ SameFunction /\ UNCHANGED lossy

\* Instructions the pass gives up on: bit counts, unknown intrinsics, inline assembly, and
\* the bit cast from a float, whose expression it builds and does not keep.
Concretize ==
  /\ At("concretize") /\ Defined({Instr.a})
  /\ Define(Instr.dst, ConvertTo(IntegerType(Instr.bits), Instr.kind, Value(Instr.a)), Null)
  /\ Lose({Instr.a})
  /\ NoConstraint /\ NoMemory /\ SameFunction /\ Translated

(***************************************************************************)
(* Addresses and memory.                                                   *)
(***************************************************************************)
\* An address computation adds an index times a size (a member of a structure is a constant
\* index and the size 1); several indices are several instructions here.  LLVM sign-extends an
\* index that is narrower than a pointer.
Element(index, size) ==
  LET wide == IF index.bits = PtrBits THEN index
              ELSE ConvertTo(Address, IF index.bits < PtrBits THEN "SExt" ELSE "Trunc", index)
  IN Apply("Mul", Address, wide, size)

\* The pass zero-extends it.
ElementExpression(index, size) ==
  LET wide == IF index.bits = PtrBits THEN index ELSE ConvertTo(Address, "ZExt", index)
  IN Build(binaryOperatorHandlers["Mul"], wide, size)

visitGetElementPtrInst ==
  /\ At("gep") /\ Defined({Instr.a, Instr.index})
  /\ LET size == Typed(Address, [a \in Assign |-> Instr.size])
         isZero == Instr.index.reg \notin Regs /\ Instr.index.const = 0
     IN /\ Define(Instr.dst,
               IF isZero THEN Value(Instr.a)
               ELSE Apply("Add", Address, Element(Value(Instr.index), size), Value(Instr.a)),
               IF isZero THEN getSymbolicExpressionOrNull(Instr.a)
               ELSE ShortCircuit({Instr.a, Instr.index},
                      Build(binaryOperatorHandlers["Add"],
                            ElementExpression(Input(Instr.index), size), Input(Instr.a))))
        /\ Mistranslate({Instr.a, Instr.index}, ~isZero /\ Value(Instr.index).bits # PtrBits)
  /\ NoConstraint /\ NoMemory /\ SameFunction /\ UNCHANGED lossy

\* Memory holds bits: a float is converted on the way, and so is a truth value, but not its
\* expression.
FloatBits(v) == IF v.sort = "float" THEN ConvertTo(Bits(v.bits), "FloatToBits", v) ELSE v
ToMemory(v) ==
  IF v.sort \in {"bits", "float"} THEN FloatBits(v)
  ELSE ConvertTo(Bits(program.byteBits), "ZExt", v)
FromMemory(v, float) == IF float THEN ConvertTo(Float(v.bits), "BitsToFloat", v) ELSE v
OrNull(expr, result) == IF expr = Null THEN Null ELSE result

\* Byte k of n has this place in a number that begins with the lowest, or the highest, byte.
Place(k, n, little) == 2^(program.byteBits * (IF little THEN k ELSE n - 1 - k))
Byte(v, k, n, little) ==
  IF n = 1 THEN v
  ELSE Typed(Bits(program.byteBits),
             [a \in Assign |-> (v.val[a] \div Place(k, n, little)) % 2^program.byteBits])
\* bytes[k], k \in 0..(n - 1), together.
Total(digits) == FoldFunction(+, 0, digits)
Joined(bytes, n, little) ==
  IF n = 1 THEN bytes[0]
  ELSE Typed(Bits(program.byteBits * n),
             [a \in Assign |-> Total([k \in 0..(n - 1) |-> bytes[k].val[a] * Place(k, n, little)])])

\* _sym_read_memory: none if no byte has one.
readMemory(address, n, little) ==
  LET cells == 0..(n - 1)
      OfByte(c) == IF shadow[c] = Null
                   THEN Typed(TypeOf(memory[c]), [a \in Assign |-> memory[c].val[input]])
                   ELSE shadow[c]
  IN IF \A k \in cells : shadow[address + k] = Null THEN Null
     ELSE Joined([k \in cells |-> OfByte(address + k)], n, little)

\* Instr.little is isLittleEndian of the type: the bits of an aggregate are in the order of
\* memory.
visitLoadInst ==
  /\ At("load") /\ InMemory(Instr.a, Instr.size)
  /\ LET address == Concrete(Instr.a)
         contents == [k \in 0..(Instr.size - 1) |-> memory[address + k]]
         data == readMemory(address, Instr.size, Instr.little)
     IN Define(Instr.dst, FromMemory(Joined(contents, Instr.size, Instr.little), Instr.float),
               OrNull(data, FromMemory(data, Instr.float)))
  /\ pathConstraints' = pathConstraints \cup tryAlternative(Instr.a)
  /\ follows' = follows \cap Agree(Instr.a)
  /\ NoMemory /\ SameFunction /\ Translated /\ UNCHANGED lossy

\* The expression is stored with its lowest byte first, that of an aggregate, too.
visitStoreInst ==
  /\ At("store") /\ InMemory(Instr.a, Instr.size) /\ Defined({Instr.b})
  /\ LET address == Concrete(Instr.a)
         n == Instr.size
         data == getSymbolicExpressionOrNull(Instr.b)
         Stored(c) == c \in address..(address + n - 1)
     IN /\ memory' = [c \in Addrs |->
                        IF Stored(c) THEN Byte(ToMemory(Value(Instr.b)), c - address, n, Instr.little)
                        ELSE memory[c]]
        /\ shadow' = [c \in Addrs |->
                        IF Stored(c) THEN OrNull(data, Byte(FloatBits(data), c - address, n, TRUE))
                        ELSE shadow[c]]
        /\ Mistranslate({Instr.b}, \/ ~Instr.little /\ n # 1
                                  \/ Value(Instr.b).sort \notin {"bits", "float"})
  /\ frame' = Advanced(frame)
  /\ pathConstraints' = pathConstraints \cup tryAlternative(Instr.a)
  /\ follows' = follows \cap Agree(Instr.a)
  /\ UNCHANGED <<program, input, stack, params, returned, lossy>>

\* A member of an aggregate of Instr.of bytes: Instr.size bytes from Instr.offset on.
Member(v) ==
  Joined([k \in 0..(Instr.size - 1) |-> Byte(v, Instr.offset + k, Instr.of, FALSE)],
         Instr.size, Instr.little)

visitExtractValueInst ==
  /\ At("extractvalue") /\ Defined({Instr.a})
  /\ Define(Instr.dst, Member(Value(Instr.a)), ShortCircuit({Instr.a}, Member(Input(Instr.a))))
  /\ NoConstraint /\ NoMemory /\ SameFunction /\ Translated /\ UNCHANGED lossy

\* Left to visitInstruction, which does nothing: the aggregate has no expression.
InsertValue ==
  /\ At("insertvalue") /\ Defined({Instr.a, Instr.b})
  /\ LET position == Instr.offset..(Instr.offset + Instr.size - 1)
         bytes == [k \in 0..(Instr.of - 1) |->
                     IF k \in position
                     THEN Byte(Value(Instr.b), k - Instr.offset, Instr.size, Instr.little)
                     ELSE Byte(Value(Instr.a), k, Instr.of, FALSE)]
     IN Define(Instr.dst, Joined(bytes, Instr.of, FALSE), Null)
  /\ Lose({Instr.a, Instr.b})
  /\ NoConstraint /\ NoMemory /\ SameFunction /\ Translated

(***************************************************************************)
(* Control flow.  A jump gives the phis of its target the value, and the   *)
(* shadow, of the edge it takes, all at once.                              *)
(***************************************************************************)
Jumped(f, block) ==
  LET phis == program.code[f.fn][block].phis
  IN [f EXCEPT !.block = block, !.i = 1,
               !.real = [r \in Regs |->
                  IF r \in DOMAIN phis THEN ValueIn(f, phis[r][f.block]) ELSE @[r]],
               !.sym = [r \in Regs |->
                  IF r \in DOMAIN phis THEN ExpressionIn(f, phis[r][f.block]) ELSE @[r]]]
JumpTo(block) == frame' = Jumped(frame, block)

\* Conditional and unconditional: an unconditional branch has the condition "true".
visitBranchInst ==
  /\ At("br") /\ IsTruth(Instr.cond)
  /\ JumpTo(IF Concrete(Instr.cond) = 1 THEN Instr.then ELSE Instr.else)
  /\ pathConstraints' = pathConstraints \cup RecordedBranch(Instr.cond)
  /\ follows' = follows \cap Agree(Instr.cond)
  /\ NoMemory /\ SameFunction /\ Translated /\ UNCHANGED lossy

\* targets[v] is the block of case v.  Every case is recorded, taken or not.
visitSwitchInst ==
  /\ At("switch") /\ Defined({Instr.cond})
  /\ LET cases == DOMAIN Instr.targets
         value == Value(Instr.cond)
         SameCase(a) == \A case \in cases : value.val[a] = case <=> Concrete(Instr.cond) = case
         expr == getSymbolicExpressionOrNull(Instr.cond)
     IN /\ JumpTo(IF Concrete(Instr.cond) \in cases THEN Instr.targets[Concrete(Instr.cond)]
                  ELSE Instr.default)
        /\ pathConstraints' = pathConstraints \cup
             (IF expr = Null THEN {}
              ELSE {PathConstraint(
                      Build(comparisonHandlers["EQ"], expr,
                            createValueExpression(Const(TypeOf(value), case))),
                      case = Concrete(Instr.cond)) : case \in cases})
        /\ follows' = {a \in follows : SameCase(a)}
  /\ NoMemory /\ SameFunction /\ Translated /\ UNCHANGED lossy

\* The address of a block, here its number.
visitIndirectBrInst ==
  /\ At("indirectbr") /\ Defined({Instr.a})
  /\ JumpTo(Concrete(Instr.a))
  /\ pathConstraints' = pathConstraints \cup tryAlternative(Instr.a)
  /\ follows' = follows \cap Agree(Instr.a)
  /\ NoMemory /\ SameFunction /\ Translated /\ UNCHANGED lossy

(***************************************************************************)
(* Calls.  The expressions of arguments and results travel in a mailbox.   *)
(***************************************************************************)
setParameterExpressions(args) == [j \in DOMAIN args |-> getSymbolicExpressionOrNull(args[j])]

\* The frame of an instrumented function: its arguments are its first registers.
Callee(fn, args, expressions) ==
  LET parameters == program.parameters[fn]
      index(r) == CHOOSE j \in DOMAIN parameters : parameters[j] = r
      isParameter(r) == \E j \in DOMAIN parameters : parameters[j] = r
  IN [fn |-> fn, block |-> 1, i |-> 1,
      real |-> [r \in Regs |-> IF isParameter(r) THEN Value(args[index(r)]) ELSE NoValue],
      sym |-> [r \in Regs |-> IF isParameter(r) THEN expressions[index(r)] ELSE Null]]

\* Called directly or through a pointer, which is the number of a function.
CalledFunction == program.functions[Concrete(Instr.callee)]

\* handleFunctionCall, before the call: the mailbox of the result is emptied if it is used.
Calls ==
  /\ At("call") \/ At("invoke")
  /\ Defined({Instr.callee} \cup Range(Instr.args))
  /\ params' = setParameterExpressions(Instr.args)
  /\ pathConstraints' = pathConstraints \cup tryAlternative(Instr.callee)
  /\ follows' = follows \cap Agree(Instr.callee)
  /\ UNCHANGED <<program, input, mistranslated>>
EmptiesMailbox == returned' = (IF Instr.dst = Null THEN returned ELSE Null)

Call ==
  /\ Calls /\ CalledFunction \in DOMAIN program.code
  /\ DOMAIN program.parameters[CalledFunction] \subseteq DOMAIN Instr.args
  /\ EmptiesMailbox
  /\ frame' = Callee(CalledFunction, Instr.args, params')
  /\ stack' = Append(stack, frame)
  /\ NoMemory /\ UNCHANGED lossy

\* Back in the caller, which reads the expression of the result if it uses the result; after
\* an invoke it does so on the edge to the normal destination.
ReturnTo(caller, value, expr) ==
  LET call == InstrOf(caller)
      after == IF call.dst = Null THEN caller ELSE Assigned(caller, call.dst, value, expr)
  IN IF call.op = "invoke" THEN Jumped(after, call.normal) ELSE Advanced(after)

\* Only a function that returns something is called for a result.
Returns == (Instr.void /\ stack # <<>>) => InstrOf(Last(stack)).dst = Null

\* Mutant: the call is short-circuited, as all others are.
visitReturnInstShortCircuit ==
  /\ At("ret") /\ Returns
  /\ returned' = IF Instr.void \/ ~Symbolic({Instr.a}) THEN returned
                 ELSE getSymbolicExpressionOrNull(Instr.a)
  /\ IF stack = <<>> THEN frame' = Null /\ stack' = <<>>
     ELSE /\ frame' = ReturnTo(Last(stack), Value(Instr.a), returned')
          /\ stack' = Front(stack)
  /\ NoConstraint /\ NoMemory /\ UNCHANGED <<program, input, params, lossy, mistranslated>>

\* The expression of the result is stored even if there is none.
visitReturnInst ==
  /\ At("ret") /\ Returns
  /\ returned' = IF Instr.void THEN returned ELSE getSymbolicExpressionOrNull(Instr.a)
  /\ IF stack = <<>> THEN frame' = Null /\ stack' = <<>>
     ELSE /\ frame' = ReturnTo(Last(stack), Value(Instr.a), returned')
          /\ stack' = Front(stack)
  /\ NoConstraint /\ NoMemory /\ UNCHANGED <<program, input, params, lossy, mistranslated>>

\* A function that is not instrumented: the result has the expression the caller left in the
\* mailbox.  It computes something from its first argument.
CallUninstrumented ==
  /\ Calls /\ CalledFunction \in DOMAIN program.external /\ 1 \in DOMAIN Instr.args
  /\ EmptiesMailbox
  /\ frame' = ReturnTo(frame, ConvertTo(Bits(Value(Instr.args[1]).bits),
                                        program.external[CalledFunction], Value(Instr.args[1])),
                       returned')
  /\ Lose(Range(Instr.args))
  /\ NoMemory /\ UNCHANGED stack

\* A function the library intercepts: it reads the input into a memory cell.
CallIntercepted ==
  /\ Calls /\ CalledFunction \in program.intercepted /\ 1 \in DOMAIN Instr.args
  /\ EmptiesMailbox
  /\ LET cell == Concrete(Instr.args[1])
         byte == Typed(Bits(program.byteBits), [a \in Assign |-> a])
     IN /\ memory' = [memory EXCEPT ![cell] = byte]
        /\ shadow' = [shadow EXCEPT ![cell] = byte]
  /\ frame' = ReturnTo(frame, Typed(Bits(program.byteBits), [a \in Assign |-> 1]), returned')
  /\ UNCHANGED <<stack, lossy>>

(***************************************************************************)
(* Exceptions.  The pass leaves landing pads alone: what was thrown has no *)
(* expression there.                                                       *)
(***************************************************************************)
\* To the last invoke on the way up, or out of the program.
Unwind(thrown) ==
  LET frames == Append(stack, frame)
      handlers == {j \in DOMAIN frames : InstrOf(frames[j]).op = "invoke"}
      Pad(j) == InstrOf(frames[j])
  IN IF handlers = {} THEN frame' = Null /\ stack' = <<>>
     ELSE \E j \in handlers :
            /\ \A k \in handlers : k <= j
            /\ frame' = Jumped(Assigned(frames[j], Pad(j).caught, thrown, Null), Pad(j).unwind)
            /\ stack' = SubSeq(frames, 1, j - 1)

\* A function of the C++ library that throws its argument.
Throw ==
  /\ Calls /\ CalledFunction \in program.throwing /\ 1 \in DOMAIN Instr.args
  /\ EmptiesMailbox
  /\ Unwind(Value(Instr.args[1]))
  /\ Lose(Range(Instr.args))
  /\ NoMemory

\* Out of a landing pad that does not want the exception.
Resume ==
  /\ At("resume") /\ Defined({Instr.a})
  /\ Unwind(Value(Instr.a))
  /\ Lose({Instr.a})
  /\ NoConstraint /\ NoMemory /\ UNCHANGED <<program, input, params, returned, mistranslated>>

-----------------------------------------------------------------------------
Init ==
  /\ program \in Programs
  /\ input \in Assign
  /\ frame = [fn |-> "main", block |-> 1, i |-> 1,
              real |-> [r \in Regs |-> NoValue], sym |-> [r \in Regs |-> Null]]
  /\ stack = <<>>
  /\ memory = [c \in Addrs |-> Typed(Bits(program.byteBits), [a \in Assign |-> 0])]
  /\ shadow = [c \in Addrs |-> Null]
  /\ params = <<>>
  /\ returned = Null
  /\ pathConstraints = {}
  /\ follows = Assign
  /\ lossy = FALSE /\ mistranslated = FALSE

Done == frame = Null /\ UNCHANGED vars

Next ==
  \/ visitBinaryOperator \/ visitCmpInst \/ visitSelectInst \/ visitCastInst \/ Concretize
  \/ visitGetElementPtrInst \/ visitLoadInst \/ visitStoreInst
  \/ visitExtractValueInst \/ InsertValue
  \/ visitBranchInst \/ visitSwitchInst \/ visitIndirectBrInst
  \/ Call \/ visitReturnInst \/ CallUninstrumented \/ CallIntercepted
  \/ Throw \/ Resume
  \/ Done

Spec == Init /\ [][Next]_vars

(***************************************************************************)
(* Properties.                                                             *)
(***************************************************************************)
Satisfying == {a \in Assign : \A c \in pathConstraints : c.cond.val[a] = c.taken}

\* Every register and memory cell with its shadow, and the result on its way to the caller.
Frames == Range(stack) \cup (IF frame = Null THEN {} ELSE {frame})
ShadowsIn(f) == {<<f.real[r], f.sym[r]>> : r \in {q \in Regs : f.real[q] # NoValue}}
Shadows == (UNION {ShadowsIn(f) : f \in Frames}) \cup {<<memory[c], shadow[c]>> : c \in Addrs}

\* The run under way agrees with everything that is recorded about it: an expression has the
\* type of the value and evaluates to it on the present input, which satisfies all path
\* constraints, also after expressions have been dropped.  Memory and its shadow hold bits,
\* never floats or truth values (readMemory, writeMemory).  All this until the expression of an
\* aggregate is stored: a store writes it lowest byte first (visitStoreInst), a load reads it
\* in the order of memory (visitLoadInst).
ShadowsHold ==
  ~mistranslated =>
  /\ \A c \in Addrs : memory[c].sort = "bits"
  /\ \A s \in Shadows : s[2] # Null => TypeOf(s[2]) = TypeOf(s[1]) /\ s[2].val[input] = s[1].val[input]
  /\ input \in Satisfying

\* As long as no expression has been dropped the constraints describe the path exactly, an
\* expression is right on all inputs that follow it, and a value without an expression is the
\* same on all of them.
PathExact ==
  ~lossy /\ ~mistranslated =>
    /\ Satisfying = follows
    /\ \A s \in Shadows : \A a \in follows :
         s[1].val[a] = (IF s[2] = Null THEN s[1].val[input] ELSE s[2].val[a])

\* Every recorded condition is a truth value, which the solver asserts of it
\* (qsym_solver.cpp:179).
ConstraintsBoolean == \A c \in pathConstraints : c.cond.sort = "bool"
=============================================================================
