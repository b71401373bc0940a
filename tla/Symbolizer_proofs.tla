-------------------------- MODULE Symbolizer_proofs --------------------------
(***************************************************************************)
(* Theorems about Symbolizer, for every set of programs, every set of      *)
(* inputs, registers and addresses and every width of pointers.  What an   *)
(* opcode computes is never looked at: a shadow is right because the pass  *)
(* calls the handler that computes the same function, on expressions that  *)
(* are right.                                                              *)
(***************************************************************************)
EXTENDS Symbolizer, TLAPS

-------------------------------------------------------------------------------
(* A value and its expression, seen by the input `in' and by the inputs on its  *)
(* path; `lost' tells whether an expression has been dropped.                  *)

\* The value is the same for all of them.
Constant(in, path, lost, v) == ~lost => \A a \in path : v.val[a] = v.val[in]

\* The expression has the type of the value and evaluates to it.
Stands(in, path, lost, v, e) ==
  /\ TypeOf(e) = TypeOf(v)
  /\ e.val[in] = v.val[in]
  /\ ~lost => \A a \in path : e.val[a] = v.val[a]

\* What an expression says of a value; the null expression says that it is constant.
Right(in, path, lost, v, e) ==
  IF e = Null THEN Constant(in, path, lost, v) ELSE Stands(in, path, lost, v, e)

\* The fields of a value; a value is not the null expression.
LEMMA TypedFields ==
  ASSUME NEW t, NEW val
  PROVE  /\ Typed(t, val).sort = t.sort /\ Typed(t, val).bits = t.bits
         /\ Typed(t, val).val = val
         /\ TypeOf(Typed(t, val)) = [sort |-> t.sort, bits |-> t.bits]
         /\ Typed(t, val) # Null
<1>1. Typed(t, val) # Null
  <2>1. "null" \in DOMAIN Null /\ "null" \notin DOMAIN Typed(t, val)  BY DEF Null, Typed
  <2>. QED  BY <2>1
<1>. QED  BY <1>1 DEF Typed, TypeOf

\* Two values have the same type if they agree in sort and width.
LEMMA TypeFields ==
  ASSUME NEW v, NEW e
  PROVE  TypeOf(e) = TypeOf(v) <=> e.sort = v.sort /\ e.bits = v.bits
<1>1. /\ TypeOf(e).sort = e.sort /\ TypeOf(e).bits = e.bits
      /\ TypeOf(v).sort = v.sort /\ TypeOf(v).bits = v.bits  BY DEF TypeOf
<1>. QED  BY <1>1 DEF TypeOf

\* The types differ in their sorts.
LEMMA Types ==
  /\ Truth.sort = "bool" /\ Truth.bits = 1
  /\ \A n : /\ Bits(n).sort = "bits" /\ Bits(n).bits = n
            /\ Float(n).sort = "float" /\ Float(n).bits = n
            /\ Truth # Bits(n) /\ Truth # Float(n)
<1>1. Truth.sort = "bool" /\ Truth.bits = 1  BY DEF Truth
<1>2. \A n : Bits(n).sort = "bits" /\ Bits(n).bits = n  BY DEF Bits
<1>3. \A n : Float(n).sort = "float" /\ Float(n).bits = n  BY DEF Float
<1>. QED  BY <1>1, <1>2, <1>3

-------------------------------------------------------------------------------
(* Congruence: what is computed from right expressions is right.               *)

\* A conversion of the expression stands for the conversion of the value.
LEMMA ConvertStands ==
  ASSUME NEW in \in Assign, NEW path, path \subseteq Assign, NEW lost, NEW v, NEW e, NEW t, NEW kind
  PROVE  /\ Stands(in, path, lost, v, e) =>
              Stands(in, path, lost, ConvertTo(t, kind, v), ConvertTo(t, kind, e))
         /\ Constant(in, path, lost, v) => Constant(in, path, lost, ConvertTo(t, kind, v))
<1>1. \A x : \A a \in Assign :
        ConvertTo(t, kind, x).val[a] = Convert(kind, x.bits, t.bits, x.val[a])
  BY TypedFields DEF ConvertTo
<1>2. TypeOf(ConvertTo(t, kind, e)) = TypeOf(ConvertTo(t, kind, v))
  BY TypedFields DEF ConvertTo
<1>3. Stands(in, path, lost, v, e) => e.bits = v.bits  BY TypeFields DEF Stands
<1>. QED  BY <1>1, <1>2, <1>3 DEF Stands, Constant

\* So does an operator or a predicate applied to two expressions.
LEMMA ApplyStands ==
  ASSUME NEW in \in Assign, NEW path, path \subseteq Assign, NEW lost, NEW o, NEW t,
         NEW x, NEW y, NEW ex, NEW ey
  PROVE  /\ Stands(in, path, lost, x, ex) /\ Stands(in, path, lost, y, ey) =>
              Stands(in, path, lost, Apply(o, t, x, y), Apply(o, t, ex, ey))
         /\ Constant(in, path, lost, x) /\ Constant(in, path, lost, y) =>
              Constant(in, path, lost, Apply(o, t, x, y))
<1>. DEFINE Of(b, p, q) ==
       IF o \in Predicates THEN IF Holds(o, b, p, q) THEN 1 ELSE 0 ELSE Compute(o, b, p, q)
<1>1. \A p, q : \A a \in Assign : Apply(o, t, p, q).val[a] = Of(p.bits, p.val[a], q.val[a])
  BY TypedFields DEF Apply
<1>2. TypeOf(Apply(o, t, ex, ey)) = TypeOf(Apply(o, t, x, y))
  BY TypedFields DEF Apply
<1>3. Stands(in, path, lost, x, ex) => ex.bits = x.bits  BY TypeFields DEF Stands
<1>. HIDE DEF Of
<1>. QED  BY <1>1, <1>2, <1>3 DEF Stands, Constant

\* So does a byte of an expression.
LEMMA ByteStands ==
  ASSUME NEW in \in Assign, NEW path, path \subseteq Assign, NEW lost, NEW v, NEW e, NEW k, NEW n,
         NEW little
  PROVE  /\ Stands(in, path, lost, v, e) =>
              Stands(in, path, lost, Byte(v, k, n, little), Byte(e, k, n, little))
         /\ Constant(in, path, lost, v) => Constant(in, path, lost, Byte(v, k, n, little))
<1>1. CASE n = 1
  BY <1>1 DEF Byte
<1>2. CASE n # 1
  <2>. DEFINE Digit(x) == (x \div Place(k, n, little)) % 2^program.byteBits
  <2>1. \A x : \A a \in Assign : Byte(x, k, n, little).val[a] = Digit(x.val[a])
    BY <1>2, TypedFields DEF Byte
  <2>2. TypeOf(Byte(e, k, n, little)) = TypeOf(Byte(v, k, n, little))
    BY <1>2, TypedFields DEF Byte
  <2>. HIDE DEF Digit
  <2>. QED BY <2>1, <2>2 DEF Stands, Constant
<1>. QED BY <1>1, <1>2

\* So do bytes put together.
LEMMA JoinedStands ==
  ASSUME NEW in \in Assign, NEW path, path \subseteq Assign, NEW lost, NEW n, NEW little,
         NEW bytes, NEW expressions
  PROVE  /\ (\A k \in 0..(n - 1) : Stands(in, path, lost, bytes[k], expressions[k])) =>
              Stands(in, path, lost, Joined(bytes, n, little), Joined(expressions, n, little))
         /\ (\A k \in 0..(n - 1) : Constant(in, path, lost, bytes[k])) =>
              Constant(in, path, lost, Joined(bytes, n, little))
<1>1. CASE n = 1
  <2>1. 0 \in 0..(n - 1)
    BY <1>1
  <2>. QED BY <1>1, <2>1 DEF Joined
<1>2. CASE n # 1
  <2>. DEFINE Digits(b, a) == [k \in 0..(n - 1) |-> b[k].val[a] * Place(k, n, little)]
  <2>1. \A b : \A a \in Assign : Joined(b, n, little).val[a] = Total(Digits(b, a))
    BY <1>2, TypedFields DEF Joined
  <2>2. TypeOf(Joined(expressions, n, little)) = TypeOf(Joined(bytes, n, little))
    BY <1>2, TypedFields DEF Joined
  <2>3. ASSUME NEW b, NEW c, NEW a, NEW d, \A k \in 0..(n - 1) : b[k].val[a] = c[k].val[d]
        PROVE  Digits(b, a) = Digits(c, d)
    BY <2>3
  <2>. HIDE DEF Digits
  <2>4. ASSUME \A k \in 0..(n - 1) : Stands(in, path, lost, bytes[k], expressions[k])
        PROVE  Stands(in, path, lost, Joined(bytes, n, little), Joined(expressions, n, little))
    <3>1. Digits(expressions, in) = Digits(bytes, in)
      BY <2>3, <2>4 DEF Stands
    <3>2. ~lost => \A a \in path : Digits(expressions, a) = Digits(bytes, a)
      BY <2>3, <2>4 DEF Stands
    <3>. QED BY <2>1, <2>2, <3>1, <3>2 DEF Stands
  <2>5. ASSUME \A k \in 0..(n - 1) : Constant(in, path, lost, bytes[k])
        PROVE  Constant(in, path, lost, Joined(bytes, n, little))
    <3>1. ~lost => \A a \in path : Digits(bytes, a) = Digits(bytes, in)
      BY <2>3, <2>5 DEF Constant
    <3>. QED BY <2>1, <3>1 DEF Constant
  <2>. QED BY <2>4, <2>5
<1>. QED BY <1>1, <1>2

\* So do a value on its way to memory, and one on its way from it.
LEMMA MemoryStands ==
  ASSUME NEW in \in Assign, NEW path, path \subseteq Assign, NEW lost, NEW v, NEW e, NEW float
  PROVE  /\ Stands(in, path, lost, v, e) =>
              /\ Stands(in, path, lost, FloatBits(v), FloatBits(e))
              /\ Stands(in, path, lost, FromMemory(v, float), FromMemory(e, float))
         /\ Constant(in, path, lost, v) =>
              /\ Constant(in, path, lost, ToMemory(v))
              /\ Constant(in, path, lost, FromMemory(v, float))
<1>1. Stands(in, path, lost, v, e) => e.sort = v.sort /\ e.bits = v.bits
  BY TypeFields DEF Stands
<1>. QED BY <1>1, ConvertStands DEF FloatBits, ToMemory, FromMemory

\* None of these drops an expression.
LEMMA MemoryNotNull ==
  ASSUME NEW e, e # Null, NEW k, NEW n, NEW little, NEW float
  PROVE  FloatBits(e) # Null /\ Byte(e, k, n, little) # Null /\ FromMemory(e, float) # Null
BY TypedFields DEF FloatBits, Byte, FromMemory, ConvertTo

\* What is stored are bits; numbers and floats are stored as their expressions are.
LEMMA MemorySort ==
  ASSUME NEW v, NEW k, NEW n, NEW little
  PROVE  /\ ToMemory(v).sort = "bits"
         /\ v.sort = "bits" => Byte(v, k, n, little).sort = "bits"
         /\ v.sort \in {"bits", "float"} => ToMemory(v) = FloatBits(v)
BY TypedFields, Types DEF FloatBits, ToMemory, Byte, ConvertTo

-------------------------------------------------------------------------------
(* Operators of the program and handlers of the library.                       *)

\* binaryOperatorHandlers names the function that computes the opcode, and builds its type.
LEMMA BinaryHandler ==
  ASSUME NEW o \in BinaryOps
  PROVE  /\ Implements[binaryOperatorHandlers[o]] = o
         /\ \A x : Builds(binaryOperatorHandlers[o], x)
                     = IF o \in {"FAdd", "FSub", "FMul"} THEN Float(x.bits) ELSE Bits(x.bits)
<1>1. Implements[binaryOperatorHandlers[o]] = o
  BY DEF BinaryOps, binaryOperatorHandlers, Implements
<1>2. o \notin Predicates
  BY DEF BinaryOps, Predicates
<1>3. Range(boolHandlers) = {"bool_and", "bool_or", "bool_xor"}
  BY DEF Range, boolHandlers
<1>4. binaryOperatorHandlers[o] \notin Range(boolHandlers)
  BY <1>3 DEF BinaryOps, binaryOperatorHandlers
<1>5. binaryOperatorHandlers[o] \in {"fp_add", "fp_sub", "fp_mul"} <=> o \in {"FAdd", "FSub", "FMul"}
  BY DEF BinaryOps, binaryOperatorHandlers
<1>. QED BY <1>1, <1>2, <1>4, <1>5 DEF Builds

\* So does boolHandlers for truth values.
LEMMA BoolHandler ==
  ASSUME NEW o \in DOMAIN boolHandlers
  PROVE  /\ Implements[boolHandlers[o]] = o
         /\ \A x : Builds(boolHandlers[o], x) = Truth
<1>1. Implements[boolHandlers[o]] = o
  BY DEF boolHandlers, Implements
<1>2. boolHandlers[o] \in Range(boolHandlers)
  BY DEF Range
<1>3. boolHandlers[o] \notin {"fp_add", "fp_sub", "fp_mul"}
  BY DEF boolHandlers
<1>. QED BY <1>1, <1>2, <1>3 DEF Builds

\* comparisonHandlers names the function that computes the predicate.
LEMMA ComparisonHandler ==
  ASSUME NEW p \in DOMAIN comparisonHandlers
  PROVE  /\ Implements[comparisonHandlers[p]] = p
         /\ \A x : Builds(comparisonHandlers[p], x) = Truth
<1>1. Implements[comparisonHandlers[p]] = p
  BY DEF comparisonHandlers, Implements
<1>2. p \in Predicates
  BY DEF comparisonHandlers, Predicates
<1>3. comparisonHandlers[p] \notin {"fp_add", "fp_sub", "fp_mul"}
  BY DEF comparisonHandlers
<1>. QED BY <1>1, <1>2, <1>3 DEF Builds

-------------------------------------------------------------------------------
(* The inductive invariant.                                                    *)

\* A frame has registers and their shadows.
FrameShape(f) ==
  /\ f = [x \in {"fn", "block", "i", "real", "sym"} |-> f[x]]
  /\ f.real = [r \in Regs |-> f.real[r]] /\ f.sym = [r \in Regs |-> f.sym[r]]

\* The shadow of every register that is defined is right.
FrameRight(in, path, lost, f) ==
  \A r \in Regs : f.real[r] # NoValue => Right(in, path, lost, f.real[r], f.sym[r])

RunInv ==
  /\ input \in follows /\ follows \subseteq Assign
  /\ lossy \in BOOLEAN /\ mistranslated \in BOOLEAN

FrameInv ==
  frame # Null =>
    /\ FrameShape(frame)
    /\ ~mistranslated => FrameRight(input, follows, lossy, frame)

\* A caller's registers stay right while the callee runs.
StackInv ==
  /\ \E S : stack \in Seq(S)
  /\ \A j \in 1..Len(stack) :
       /\ FrameShape(stack[j])
       /\ ~mistranslated => FrameRight(input, follows, lossy, stack[j])

\* Memory holds bits, with the right shadows.
MemoryInv ==
  /\ memory = [c \in Addrs |-> memory[c]] /\ shadow = [c \in Addrs |-> shadow[c]]
  /\ ~mistranslated =>
       \A c \in Addrs : memory[c].sort = "bits" /\ Right(input, follows, lossy, memory[c], shadow[c])

\* The constraints hold on the input, and describe its path as long as nothing is lost.
PathInv ==
  ~mistranslated =>
    /\ input \in Satisfying
    /\ ~lossy => Satisfying = follows

SymbolizerInv == RunInv /\ FrameInv /\ StackInv /\ MemoryInv /\ PathInv

\* An expression stays right as fewer inputs follow the path.
LEMMA RightMonotone ==
  ASSUME NEW in, NEW path, NEW path2, path2 \subseteq path, NEW lost, NEW lost2, lost => lost2,
         NEW v, NEW e, Right(in, path, lost, v, e)
  PROVE  Right(in, path2, lost2, v, e)
BY DEF Right, Stands, Constant

\* So do those of a frame.
LEMMA FrameMonotone ==
  ASSUME NEW in, NEW path, NEW path2, path2 \subseteq path, NEW lost, NEW lost2, lost => lost2,
         NEW f, FrameRight(in, path, lost, f)
  PROVE  FrameRight(in, path2, lost2, f)
BY RightMonotone DEF FrameRight

\* A frame is not the end of the program.
LEMMA ShapeNotNull ==
  ASSUME NEW f, FrameShape(f)
  PROVE  f # Null
<1>1. "null" \in DOMAIN Null /\ "null" \notin DOMAIN f
  BY DEF Null, FrameShape
<1>. QED BY <1>1

-------------------------------------------------------------------------------
(* Operands and what is computed from them.                                    *)

\* The expression of an operand is right.
LEMMA OperandRight ==
  ASSUME NEW in \in Assign, NEW path, path \subseteq Assign, NEW lost,
         NEW f, FrameRight(in, path, lost, f), NEW opnd, ValueIn(f, opnd) # NoValue
  PROVE  Right(in, path, lost, ValueIn(f, opnd), ExpressionIn(f, opnd))
<1>1. CASE opnd.reg \in Regs
  BY <1>1 DEF FrameRight, ValueIn, ExpressionIn
<1>2. CASE opnd.reg \notin Regs
  <2>1. \A a \in Assign : ValueIn(f, opnd).val[a] = opnd.const
    BY <1>2, TypedFields DEF ValueIn
  <2>. QED BY <1>2, <2>1 DEF ExpressionIn, Right, Constant
<1>. QED BY <1>1, <1>2

\* A constant stands for a value that is the same for all inputs on the path.
LEMMA ConcreteStands ==
  ASSUME NEW in \in Assign, NEW path, path \subseteq Assign, NEW lost, NEW v,
         Constant(in, path, lost, v)
  PROVE  Stands(in, path, lost, v, Typed(TypeOf(v), [a \in Assign |-> v.val[in]]))
<1>1. TypeOf(Typed(TypeOf(v), [a \in Assign |-> v.val[in]])) = TypeOf(v)
  BY TypedFields DEF TypeOf
<1>2. \A a \in Assign : Typed(TypeOf(v), [b \in Assign |-> v.val[in]]).val[a] = v.val[in]
  BY TypedFields
<1>. QED BY <1>1, <1>2 DEF Stands, Constant

\* What the pass hands to a handler stands for the operand.
LEMMA InputStands ==
  ASSUME RunInv, FrameInv, frame # Null, ~mistranslated, NEW opnd, Defined({opnd})
  PROVE  /\ Stands(input, follows, lossy, Value(opnd), Input(opnd))
         /\ ~Symbolic({opnd}) => Constant(input, follows, lossy, Value(opnd))
         /\ Symbolic({opnd}) => /\ Input(opnd) = getSymbolicExpressionOrNull(opnd)
                                /\ Input(opnd) # Null
<1>1. Right(input, follows, lossy, Value(opnd), getSymbolicExpressionOrNull(opnd))
  BY OperandRight DEF RunInv, FrameInv, Defined, Value, getSymbolicExpressionOrNull
<1>2. Symbolic({opnd}) <=> getSymbolicExpressionOrNull(opnd) # Null
  BY DEF Symbolic
<1>3. CASE Symbolic({opnd})
  BY <1>1, <1>2, <1>3 DEF Input, Right
<1>4. CASE ~Symbolic({opnd})
  <2>1. Constant(input, follows, lossy, Value(opnd))
    BY <1>1, <1>2, <1>4 DEF Right
  <2>2. Input(opnd) = Typed(TypeOf(Value(opnd)), [a \in Assign |-> Value(opnd).val[input]])
    BY <1>2, <1>4 DEF Input, createValueExpression, Concrete
  <2>. QED BY <1>4, <2>1, <2>2, ConcreteStands DEF RunInv
<1>. QED BY <1>3, <1>4

\* A computation that is skipped when no operand is symbolic.
LEMMA ShortCircuitRight ==
  ASSUME NEW in, NEW path, NEW lost, NEW opnds, NEW v, NEW e,
         Symbolic(opnds) => e # Null /\ Stands(in, path, lost, v, e),
         ~Symbolic(opnds) => Constant(in, path, lost, v)
  PROVE  Right(in, path, lost, v, ShortCircuit(opnds, e))
BY DEF Right, ShortCircuit

\* Dropping the expressions of operands is recorded, or they had none.
LEMMA DroppedRight ==
  ASSUME RunInv, FrameInv, frame # Null, ~mistranslated, NEW opnds, Defined(opnds), Lose(opnds)
  PROVE  /\ lossy' \in BOOLEAN /\ (lossy => lossy')
         /\ \A opnd \in opnds : Constant(input, follows, lossy', Value(opnd))
<1>1. lossy' = (lossy \/ Symbolic(opnds))
  BY DEF Lose
<1>2. ASSUME NEW opnd \in opnds PROVE Constant(input, follows, lossy', Value(opnd))
  <2>1. Symbolic({opnd}) => Symbolic(opnds)
    BY DEF Symbolic
  <2>2. Defined({opnd})
    BY DEF Defined
  <2>. QED BY <1>1, <2>1, <2>2, InputStands DEF Constant
<1>3. lossy \in BOOLEAN /\ Symbolic(opnds) \in BOOLEAN
  BY DEF RunInv, Symbolic
<1>. QED BY <1>1, <1>2, <1>3

-------------------------------------------------------------------------------
(* What steps do to frames.                                                    *)

\* The next instruction.
LEMMA AdvancedRight ==
  ASSUME NEW in, NEW path, NEW lost, NEW f, FrameShape(f)
  PROVE  /\ FrameShape(Advanced(f))
         /\ FrameRight(in, path, lost, f) => FrameRight(in, path, lost, Advanced(f))
BY DEF FrameShape, FrameRight, Advanced

\* A register that gets a value with a right expression.
LEMMA AssignedRight ==
  ASSUME NEW in, NEW path, NEW lost, NEW f, FrameShape(f), NEW r, NEW value, NEW expr
  PROVE  /\ FrameShape(Assigned(f, r, value, expr))
         /\ FrameRight(in, path, lost, f) /\ (value # NoValue => Right(in, path, lost, value, expr))
              => FrameRight(in, path, lost, Assigned(f, r, value, expr))
<1>. DEFINE g == Assigned(f, r, value, expr)
<1>1. /\ g = [x \in {"fn", "block", "i", "real", "sym"} |-> g[x]]
      /\ g.real = [f.real EXCEPT ![r] = value]
      /\ g.sym = [f.sym EXCEPT ![r] = expr]
  BY DEF FrameShape, Assigned
<1>. HIDE DEF g
<1>2. /\ FrameShape(g)
      /\ \A q \in Regs : /\ g.real[q] = IF q = r THEN value ELSE f.real[q]
                         /\ g.sym[q] = IF q = r THEN expr ELSE f.sym[q]
  BY <1>1 DEF FrameShape
<1>3. FrameRight(in, path, lost, f) /\ (value # NoValue => Right(in, path, lost, value, expr))
        => FrameRight(in, path, lost, g)
  BY <1>2 DEF FrameRight
<1>. QED BY <1>2, <1>3 DEF g

\* The phis of a block, with the shadows of the edge taken.
LEMMA JumpedRight ==
  ASSUME NEW in \in Assign, NEW path, path \subseteq Assign, NEW lost, NEW f, FrameShape(f), NEW block
  PROVE  /\ FrameShape(Jumped(f, block))
         /\ FrameRight(in, path, lost, f) => FrameRight(in, path, lost, Jumped(f, block))
<1>. DEFINE phis == program.code[f.fn][block].phis
            g == Jumped(f, block)
<1>1. /\ FrameShape(g)
      /\ \A r \in Regs :
           /\ g.real[r] = IF r \in DOMAIN phis THEN ValueIn(f, phis[r][f.block]) ELSE f.real[r]
           /\ g.sym[r] = IF r \in DOMAIN phis THEN ExpressionIn(f, phis[r][f.block]) ELSE f.sym[r]
  BY DEF FrameShape, Jumped
<1>. HIDE DEF phis, g
<1>2. FrameRight(in, path, lost, f) => FrameRight(in, path, lost, g)
  <2>1. SUFFICES ASSUME FrameRight(in, path, lost, f), NEW r \in Regs, g.real[r] # NoValue
                 PROVE  Right(in, path, lost, g.real[r], g.sym[r])
    BY DEF FrameRight
  <2>2. CASE r \in DOMAIN phis
    BY <1>1, <2>1, <2>2, OperandRight
  <2>3. CASE r \notin DOMAIN phis
    BY <1>1, <2>1, <2>3 DEF FrameRight
  <2>. QED BY <2>2, <2>3
<1>. QED BY <1>1, <1>2 DEF g

\* The caller of a call that returns.
LEMMA ReturnToRight ==
  ASSUME NEW in \in Assign, NEW path, path \subseteq Assign, NEW lost, NEW f, FrameShape(f),
         NEW value, NEW expr
  PROVE  /\ FrameShape(ReturnTo(f, value, expr))
         /\ /\ FrameRight(in, path, lost, f)
            /\ InstrOf(f).dst # Null /\ value # NoValue => Right(in, path, lost, value, expr)
            => FrameRight(in, path, lost, ReturnTo(f, value, expr))
<1>. DEFINE call == InstrOf(f)
            after == IF call.dst = Null THEN f ELSE Assigned(f, call.dst, value, expr)
            right == /\ FrameRight(in, path, lost, f)
                     /\ call.dst # Null /\ value # NoValue => Right(in, path, lost, value, expr)
<1>1. FrameShape(after) /\ (right => FrameRight(in, path, lost, after))
  BY AssignedRight
<1>2. ReturnTo(f, value, expr) =
        IF call.op = "invoke" THEN Jumped(after, call.normal) ELSE Advanced(after)
  BY DEF ReturnTo
<1>. HIDE DEF after
<1>3. CASE call.op = "invoke"
  BY <1>1, <1>2, <1>3, JumpedRight
<1>4. CASE call.op # "invoke"
  BY <1>1, <1>2, <1>4, AdvancedRight
<1>. QED BY <1>3, <1>4

-------------------------------------------------------------------------------
(* What steps do to the path.                                                  *)

\* A step that records nothing.
LEMMA SamePath ==
  ASSUME RunInv, PathInv, NoConstraint, UNCHANGED input, lossy' \in BOOLEAN, lossy => lossy',
         mistranslated' \in BOOLEAN, mistranslated => mistranslated'
  PROVE  /\ RunInv' /\ PathInv'
         /\ follows' \subseteq follows /\ (lossy => lossy') /\ (~mistranslated' => ~mistranslated)
<1>1. Satisfying' = Satisfying
  BY DEF NoConstraint, Satisfying
<1>. QED BY <1>1 DEF RunInv, PathInv, NoConstraint

\* New constraints that say of an input that follows the path whether it stays on it.
LEMMA LongerPath ==
  ASSUME RunInv, PathInv, UNCHANGED input, lossy' \in BOOLEAN, lossy => lossy',
         mistranslated' \in BOOLEAN, mistranslated => mistranslated',
         NEW constraints, pathConstraints' = pathConstraints \cup constraints,
         NEW agree, follows' = follows \cap agree, input \in agree,
         ~mistranslated =>
           /\ \A c \in constraints : c.cond.val[input] = c.taken
           /\ ~lossy => \A a \in follows :
                           a \in agree <=> \A c \in constraints : c.cond.val[a] = c.taken
  PROVE  /\ RunInv' /\ PathInv'
         /\ follows' \subseteq follows /\ (lossy => lossy') /\ (~mistranslated' => ~mistranslated)
<1>1. Satisfying' = Satisfying \cap {a \in Assign : \A c \in constraints : c.cond.val[a] = c.taken}
  BY DEF Satisfying
<1>. QED BY <1>1 DEF RunInv, PathInv

\* The handler of an equation says whether two expressions agree.
LEMMA EqualHolds ==
  ASSUME NEW n, NEW x, NEW y
  PROVE  Holds("EQ", n, x, y) <=> x = y
BY DEF Holds

LEMMA EqualValue ==
  ASSUME NEW x, NEW y, NEW a \in Assign
  PROVE  Build(comparisonHandlers["EQ"], x, y).val[a] = 1 <=> x.val[a] = y.val[a]
<1>1. "EQ" \in DOMAIN comparisonHandlers /\ "EQ" \in Predicates
  BY DEF comparisonHandlers, Predicates
<1>2. Build(comparisonHandlers["EQ"], x, y) = Apply("EQ", Truth, x, y)
  BY <1>1, ComparisonHandler DEF Build
<1>3. Build(comparisonHandlers["EQ"], x, y).val[a]
        = IF Holds("EQ", x.bits, x.val[a], y.val[a]) THEN 1 ELSE 0
  BY <1>1, <1>2, TypedFields DEF Apply
<1>. QED BY <1>3, EqualHolds

LEMMA EqualBit ==
  ASSUME NEW x, NEW y, NEW a \in Assign
  PROVE  Build(comparisonHandlers["EQ"], x, y).val[a] \in {0, 1}
<1>1. "EQ" \in DOMAIN comparisonHandlers /\ "EQ" \in Predicates
  BY DEF comparisonHandlers, Predicates
<1>2. Build(comparisonHandlers["EQ"], x, y) = Apply("EQ", Truth, x, y)
  BY <1>1, ComparisonHandler DEF Build
<1>. QED BY <1>1, <1>2, TypedFields DEF Apply

\* What is recorded of an address says which inputs use the same.
LEMMA AddressTaken ==
  ASSUME RunInv, FrameInv, frame # Null, ~mistranslated, NEW opnd, Defined({opnd})
  PROVE  /\ \A c \in tryAlternative(opnd) : c.cond.val[input] = c.taken
         /\ ~lossy => \A a \in follows :
              a \in Agree(opnd) <=> \A c \in tryAlternative(opnd) : c.cond.val[a] = c.taken
<1>. DEFINE expr == getSymbolicExpressionOrNull(opnd)
            cond == Build(comparisonHandlers["EQ"], expr, createValueExpression(opnd))
<1>1. \A a \in Assign : createValueExpression(opnd).val[a] = Concrete(opnd)
  BY TypedFields DEF createValueExpression
<1>2. \A a \in Assign : cond.val[a] = 1 <=> expr.val[a] = Concrete(opnd)
  BY <1>1, EqualValue
<1>3. CASE Symbolic({opnd})
  <2>1. tryAlternative(opnd) = {[cond |-> cond, taken |-> 1]}
    BY <1>3 DEF tryAlternative, PathConstraint
  <2>2. /\ expr.val[input] = Concrete(opnd)
        /\ ~lossy => \A a \in follows : expr.val[a] = Value(opnd).val[a]
    BY <1>3, InputStands DEF Stands, Concrete
  <2>. HIDE DEF cond, expr
  <2>. QED BY <1>2, <2>1, <2>2 DEF Agree, RunInv
<1>4. CASE ~Symbolic({opnd})
  <2>1. tryAlternative(opnd) = {}
    BY <1>4 DEF tryAlternative
  <2>. QED BY <1>4, <2>1, InputStands DEF Constant, Agree, Concrete, RunInv
<1>. QED BY <1>3, <1>4

\* What is recorded of a condition says which inputs take the same branch.
LEMMA BranchTaken ==
  ASSUME RunInv, FrameInv, frame # Null, ~mistranslated, NEW cond, IsTruth(cond)
  PROVE  /\ \A c \in RecordedBranch(cond) : c.cond.val[input] = c.taken
         /\ ~lossy => \A a \in follows :
              a \in Agree(cond) <=> \A c \in RecordedBranch(cond) : c.cond.val[a] = c.taken
<1>. DEFINE expr == getSymbolicExpressionOrNull(cond)
<1>1. Defined({cond}) /\ Concrete(cond) = IF Concrete(cond) = 1 THEN 1 ELSE 0
  BY DEF IsTruth
<1>2. CASE Symbolic({cond})
  <2>1. RecordedBranch(cond) = {[cond |-> expr, taken |-> Concrete(cond)]}
    BY <1>1, <1>2 DEF RecordedBranch, PathConstraint
  <2>2. /\ expr.val[input] = Concrete(cond)
        /\ ~lossy => \A a \in follows : expr.val[a] = Value(cond).val[a]
    BY <1>1, <1>2, InputStands DEF Stands, Concrete
  <2>. HIDE DEF expr
  <2>. QED BY <2>1, <2>2 DEF Agree, RunInv
<1>3. CASE ~Symbolic({cond})
  <2>1. RecordedBranch(cond) = {}
    BY <1>3 DEF RecordedBranch
  <2>. QED BY <1>1, <1>3, <2>1, InputStands DEF Constant, Agree, Concrete, RunInv
<1>. QED BY <1>2, <1>3

\* The run under way agrees with itself.
LEMMA Agrees ==
  ASSUME RunInv, NEW opnd
  PROVE  input \in Agree(opnd)
BY DEF RunInv, Agree, Concrete

-------------------------------------------------------------------------------
(* What a step keeps.                                                          *)

\* As a run goes on fewer inputs follow the path, and what was lost stays lost.
Further ==
  /\ UNCHANGED input /\ RunInv'
  /\ follows' \subseteq follows /\ (lossy => lossy') /\ (~mistranslated' => ~mistranslated)

\* Callers whose registers no step touches.
LEMMA StackKept ==
  ASSUME SymbolizerInv, Further, UNCHANGED stack
  PROVE  StackInv'
BY FrameMonotone DEF SymbolizerInv, Further, StackInv

\* Memory that no step touches.
LEMMA MemoryKept ==
  ASSUME SymbolizerInv, Further, NoMemory
  PROVE  MemoryInv'
BY RightMonotone DEF SymbolizerInv, Further, MemoryInv, NoMemory

\* The frame under way, as it is seen after the step.
LEMMA FrameFurther ==
  ASSUME SymbolizerInv, Further, frame # Null
  PROVE  /\ FrameShape(frame)
         /\ ~mistranslated' => FrameRight(input', follows', lossy', frame)
BY FrameMonotone DEF SymbolizerInv, Further, FrameInv

\* An instruction that defines a register.
LEMMA DefineStep ==
  ASSUME SymbolizerInv, Further, frame # Null, NEW r, NEW value, NEW expr, Define(r, value, expr),
         ~mistranslated' => Right(input', follows', lossy', value, expr)
  PROVE  FrameInv'
BY FrameFurther, AssignedRight, AdvancedRight DEF Define, FrameInv

\* A jump.
LEMMA JumpStep ==
  ASSUME SymbolizerInv, Further, frame # Null, NEW block, JumpTo(block)
  PROVE  FrameInv'
BY FrameFurther, JumpedRight DEF JumpTo, FrameInv, Further, RunInv

\* An instruction that does nothing but define a register.
LEMMA LocalStep ==
  ASSUME SymbolizerInv, frame # Null, NoConstraint, NoMemory, SameFunction,
         lossy' \in BOOLEAN, lossy => lossy',
         mistranslated' \in BOOLEAN, mistranslated => mistranslated',
         NEW r, NEW value, NEW expr, Define(r, value, expr),
         ~mistranslated /\ ~mistranslated' => Right(input, follows, lossy', value, expr)
  PROVE  SymbolizerInv'
<1>1. RunInv' /\ PathInv' /\ Further
  BY SamePath DEF SymbolizerInv, SameFunction, Further
<1>2. StackInv' /\ MemoryInv'
  BY <1>1, StackKept, MemoryKept DEF SameFunction
<1>3. ~mistranslated' => Right(input', follows', lossy', value, expr)
  BY <1>1 DEF Further, NoConstraint
<1>4. FrameInv'
  BY <1>1, <1>3, DefineStep
<1>. QED BY <1>1, <1>2, <1>4 DEF SymbolizerInv

\* InputStands for all operands of an instruction.
LEMMA Inputs ==
  ASSUME SymbolizerInv, frame # Null, ~mistranslated, NEW opnds, Defined(opnds)
  PROVE  /\ \A opnd \in opnds : Stands(input, follows, lossy, Value(opnd), Input(opnd))
         /\ ~Symbolic(opnds) => \A opnd \in opnds : Constant(input, follows, lossy, Value(opnd))
         /\ input \in Assign /\ follows \subseteq Assign
<1>1. ASSUME NEW opnd \in opnds
      PROVE  /\ Stands(input, follows, lossy, Value(opnd), Input(opnd))
             /\ ~Symbolic(opnds) => Constant(input, follows, lossy, Value(opnd))
  <2>1. Defined({opnd}) /\ (Symbolic({opnd}) => Symbolic(opnds))
    BY DEF Defined, Symbolic
  <2>. QED BY <2>1, InputStands DEF SymbolizerInv
<1>. QED BY <1>1 DEF SymbolizerInv, RunInv

-------------------------------------------------------------------------------
(* Instructions without control flow.                                          *)

\* A handler builds an expression.
LEMMA BuildNotNull ==
  ASSUME NEW h, NEW x, NEW y
  PROVE  Build(h, x, y) # Null
BY TypedFields DEF Build, Apply

\* One lemma for every instruction.
LEMMA BinaryStep ==
  ASSUME SymbolizerInv, visitBinaryOperator
  PROVE  SymbolizerInv'
<1>. DEFINE a == Instr.a
            b == Instr.b
            x == Value(a)
            o == Instr.opcode
            handler == IF TypeOf(x) = Truth THEN boolHandlers[o] ELSE binaryOperatorHandlers[o]
            value == Apply(o, TypeOf(x), x, Value(b))
            built == Build(handler, Input(a), Input(b))
<1>1. /\ frame # Null /\ Defined({a, b}) /\ TakesType(o, TypeOf(x))
      /\ Define(Instr.dst, value, ShortCircuit({a, b}, built))
      /\ NoConstraint /\ NoMemory /\ SameFunction /\ Translated /\ UNCHANGED lossy
  BY DEF visitBinaryOperator, At
<1>. HIDE DEF a, b, o
<1>2. ASSUME ~mistranslated
      PROVE  Right(input, follows, lossy, value, ShortCircuit({a, b}, built))
  <2>1. /\ Stands(input, follows, lossy, x, Input(a))
        /\ Stands(input, follows, lossy, Value(b), Input(b))
        /\ ~Symbolic({a, b}) => /\ Constant(input, follows, lossy, x)
                                /\ Constant(input, follows, lossy, Value(b))
        /\ input \in Assign /\ follows \subseteq Assign
    BY <1>1, <1>2, Inputs
  <2>2. TypeOf(Input(a)) = TypeOf(x) /\ Input(a).sort = x.sort /\ Input(a).bits = x.bits
    BY <2>1, TypeFields DEF Stands
  <2>3. Implements[handler] = o /\ Builds(handler, Input(a)) = TypeOf(x)
    <3>1. CASE TypeOf(x) = Truth
      BY <1>1, <3>1, BoolHandler DEF TakesType
    <3>2. CASE TypeOf(x) # Truth
      <4>1. o \in BinaryOps /\ TypeOf(x).sort = IF o \in {"FAdd", "FSub", "FMul"} THEN "float" ELSE "bits"
        BY <1>1, <3>2 DEF TakesType
      <4>2. TypeOf(x) = IF o \in {"FAdd", "FSub", "FMul"} THEN Float(x.bits) ELSE Bits(x.bits)
        BY <4>1 DEF TypeOf, Float, Bits
      <4>. QED BY <2>2, <3>2, <4>1, <4>2, BinaryHandler
    <3>. QED BY <3>1, <3>2
  <2>4. built = Apply(o, TypeOf(x), Input(a), Input(b))
    BY <2>3 DEF Build
  <2>5. /\ Stands(input, follows, lossy, value, built)
        /\ ~Symbolic({a, b}) => Constant(input, follows, lossy, value)
    BY <2>1, <2>4, ApplyStands
  <2>6. built # Null
    BY BuildNotNull
  <2>. HIDE DEF value, built
  <2>. QED BY <2>5, <2>6, ShortCircuitRight
<1>. HIDE DEF value, built
<1>. QED BY <1>1, <1>2, LocalStep DEF SymbolizerInv, RunInv, Translated

LEMMA CmpStep ==
  ASSUME SymbolizerInv, visitCmpInst
  PROVE  SymbolizerInv'
<1>. DEFINE a == Instr.a
            b == Instr.b
            o == Instr.opcode
            value == Apply(o, Truth, Value(a), Value(b))
            built == Build(comparisonHandlers[o], Input(a), Input(b))
<1>1. /\ frame # Null /\ Defined({a, b}) /\ o \in DOMAIN comparisonHandlers
      /\ Define(Instr.dst, value, ShortCircuit({a, b}, built))
      /\ NoConstraint /\ NoMemory /\ SameFunction /\ Translated /\ UNCHANGED lossy
  BY DEF visitCmpInst, At
<1>. HIDE DEF a, b, o
<1>2. ASSUME ~mistranslated
      PROVE  Right(input, follows, lossy, value, ShortCircuit({a, b}, built))
  <2>1. /\ Stands(input, follows, lossy, Value(a), Input(a))
        /\ Stands(input, follows, lossy, Value(b), Input(b))
        /\ ~Symbolic({a, b}) => /\ Constant(input, follows, lossy, Value(a))
                                /\ Constant(input, follows, lossy, Value(b))
        /\ input \in Assign /\ follows \subseteq Assign
    BY <1>1, <1>2, Inputs
  <2>2. built = Apply(o, Truth, Input(a), Input(b))
    BY <1>1, ComparisonHandler DEF Build
  <2>3. /\ Stands(input, follows, lossy, value, built)
        /\ ~Symbolic({a, b}) => Constant(input, follows, lossy, value)
    BY <2>1, <2>2, ApplyStands
  <2>4. built # Null
    BY BuildNotNull
  <2>. HIDE DEF value, built
  <2>. QED BY <2>3, <2>4, ShortCircuitRight
<1>. HIDE DEF value, built
<1>. QED BY <1>1, <1>2, LocalStep DEF SymbolizerInv, RunInv, Translated

LEMMA SelectStep ==
  ASSUME SymbolizerInv, visitSelectInst
  PROVE  SymbolizerInv'
<1>. DEFINE cond == Instr.cond
            chosen == IF Concrete(cond) = 1 THEN Instr.a ELSE Instr.b
<1>1. /\ frame # Null /\ IsTruth(cond) /\ Defined({chosen})
      /\ Define(Instr.dst, Value(chosen), Null) /\ Lose({chosen})
      /\ pathConstraints' = pathConstraints \cup RecordedBranch(cond)
      /\ follows' = follows \cap Agree(cond)
      /\ NoMemory /\ SameFunction /\ Translated
  BY DEF visitSelectInst, At
<1>. HIDE DEF cond, chosen
<1>2. /\ RunInv /\ FrameInv /\ PathInv /\ lossy \in BOOLEAN /\ mistranslated \in BOOLEAN
  BY DEF SymbolizerInv, RunInv
<1>3. lossy' \in BOOLEAN /\ (lossy => lossy')
  BY <1>1, <1>2 DEF Lose, Symbolic
<1>4. mistranslated' = mistranslated /\ UNCHANGED <<input, stack>>
  BY <1>1 DEF Translated, SameFunction
<1>5. RunInv' /\ PathInv' /\ Further
  BY <1>1, <1>2, <1>3, <1>4, BranchTaken, Agrees, LongerPath DEF Further
<1>6. StackInv' /\ MemoryInv'
  BY <1>1, <1>4, <1>5, StackKept, MemoryKept
<1>7. ~mistranslated' => Right(input', follows', lossy', Value(chosen), Null)
  <2>1. ~mistranslated => Constant(input, follows, lossy', Value(chosen))
    BY <1>1, <1>2, DroppedRight
  <2>. QED BY <1>4, <1>5, <2>1 DEF Right, Constant, Further
<1>8. FrameInv'
  BY <1>1, <1>5, <1>7, DefineStep
<1>. QED BY <1>5, <1>6, <1>8 DEF SymbolizerInv

\* Conversions that change nothing.
LEMMA ConvertSame ==
  ASSUME NEW n, NEW x
  PROVE  /\ \A m : Convert("PointerCast", m, n, x) = x /\ Convert("expect", m, n, x) = x
         /\ Convert("IntToPtr", n, n, x) = x /\ Convert("PtrToInt", n, n, x) = x
<1>1. \A m : Convert("PointerCast", m, n, x) = x
  BY DEF Convert
<1>2. \A m : Convert("expect", m, n, x) = x
  BY DEF Convert
<1>3. Convert("IntToPtr", n, n, x) = x
  BY DEF Convert
<1>4. Convert("PtrToInt", n, n, x) = x
  BY DEF Convert
<1>. QED BY <1>1, <1>2, <1>3, <1>4

\* A conversion that is none.
LEMMA SameStands ==
  ASSUME NEW in \in Assign, NEW path, path \subseteq Assign, NEW lost, NEW v, NEW e, NEW t, NEW kind,
         t.sort = v.sort, t.bits = v.bits,
         \A a \in Assign : Convert(kind, v.bits, t.bits, v.val[a]) = v.val[a],
         Stands(in, path, lost, v, e)
  PROVE  Stands(in, path, lost, ConvertTo(t, kind, v), e)
<1>1. \A a \in Assign : ConvertTo(t, kind, v).val[a] = v.val[a]
  BY TypedFields DEF ConvertTo
<1>2. ConvertTo(t, kind, v).sort = v.sort /\ ConvertTo(t, kind, v).bits = v.bits
  BY TypedFields DEF ConvertTo
<1>. QED BY <1>1, <1>2, TypeFields DEF Stands

\* The expression of a conversion that does not deviate.
LEMMA ConversionStands ==
  ASSUME NEW in \in Assign, NEW path, path \subseteq Assign, NEW lost, NEW x, NEW e,
         NEW kind \in ConversionKind, NEW n, kind \in {"ZExt", "SExt"} => n # 1,
         ~Deviates(kind, x, n), Stands(in, path, lost, x, e), e # Null
  PROVE  /\ Stands(in, path, lost, ConvertTo(ConversionType(kind, x, n), kind, x),
                   ConversionHandler(kind, e, n))
         /\ ConversionHandler(kind, e, n) # Null
<1>1. e.sort = x.sort /\ e.bits = x.bits /\ TypeOf(e) = TypeOf(x)
  BY TypeFields DEF Stands
<1>2. \A t, k : ConvertTo(t, k, e) # Null
  BY TypedFields DEF ConvertTo
<1>3. CASE kind \in {"Trunc", "FPToSI", "FPToUI"}
  <2>1. n # 1
    BY <1>3 DEF Deviates
  <2>2. ConversionType(kind, x, n) = Bits(n)
    BY <1>3, <2>1 DEF ConversionType, IntegerType
  <2>3. ConversionHandler(kind, e, n) = ConvertTo(Bits(n), kind, e)
    BY <1>3 DEF ConversionHandler
  <2>. QED BY <1>2, <2>2, <2>3, ConvertStands
<1>4. CASE kind \in {"ZExt", "SExt"}
  <2>1. ConversionType(kind, x, n) = Bits(n)
    BY <1>4 DEF ConversionType, IntegerType
  <2>2. CASE TypeOf(x) = Truth
    <3>1. kind = "ZExt"
      BY <1>4, <2>2 DEF Deviates
    <3>2. ConversionHandler(kind, e, n) = ConvertTo(Bits(n), kind, e)
      BY <1>1, <2>2, <3>1 DEF ConversionHandler
    <3>. QED BY <1>2, <2>1, <3>2, ConvertStands
  <2>3. CASE TypeOf(x) # Truth
    <3>1. ConversionHandler(kind, e, n) = ConvertTo(Bits(n), kind, e)
      BY <1>1, <1>4, <2>3 DEF ConversionHandler
    <3>. QED BY <1>2, <2>1, <3>1, ConvertStands
  <2>. QED BY <2>2, <2>3
<1>5. CASE kind \in {"SIToFP", "UIToFP", "FPExt", "FPTrunc", "BitsToFloat"}
  <2>1. ConversionType(kind, x, n) = Float(n)
    BY <1>5 DEF ConversionType
  <2>2. ConversionHandler(kind, e, n) = ConvertTo(Float(n), kind, e)
    BY <1>5 DEF ConversionHandler
  <2>. QED BY <1>2, <2>1, <2>2, ConvertStands
<1>6. CASE kind \in {"PointerCast", "expect"}
  <2>1. ConversionType(kind, x, n) = TypeOf(x) /\ ConversionHandler(kind, e, n) = e
    BY <1>6 DEF ConversionType, ConversionHandler
  <2>2. TypeOf(x).sort = x.sort /\ TypeOf(x).bits = x.bits
    BY DEF TypeOf
  <2>3. \A a \in Assign : Convert(kind, x.bits, TypeOf(x).bits, x.val[a]) = x.val[a]
    BY <1>6, ConvertSame
  <2>. QED BY <2>1, <2>2, <2>3, SameStands
<1>7. CASE kind \in {"IntToPtr", "PtrToInt"}
  <2>1. TypeOf(x) = Bits(n) /\ n # 1
    BY <1>7 DEF Deviates
  <2>2. ConversionType(kind, x, n) = Bits(n) /\ ConversionHandler(kind, e, n) = e
    BY <1>7, <2>1 DEF ConversionType, ConversionHandler, IntegerType
  <2>3. x.sort = Bits(n).sort /\ x.bits = n /\ Bits(n).bits = n
    BY <2>1, Types DEF TypeOf
  <2>. QED BY <1>7, <2>2, <2>3, ConvertSame, SameStands
<1>8. CASE kind \in {"fabs", "bswap"}
  <2>1. /\ ConversionType(kind, x, n) = TypeOf(x)
        /\ ConversionHandler(kind, e, n) = ConvertTo(TypeOf(x), kind, e)
    BY <1>1, <1>8 DEF ConversionType, ConversionHandler
  <2>. QED BY <1>2, <2>1, ConvertStands
<1>. QED BY <1>3, <1>4, <1>5, <1>6, <1>7, <1>8 DEF ConversionKind

LEMMA CastStep ==
  ASSUME SymbolizerInv, visitCastInst
  PROVE  SymbolizerInv'
<1>. DEFINE a == Instr.a
            n == Instr.bits
            kind == Instr.kind
            x == Value(a)
            value == ConvertTo(ConversionType(kind, x, n), kind, x)
            built == ConversionHandler(kind, Input(a), n)
<1>1. /\ frame # Null /\ Defined({a}) /\ kind \in ConversionKind
      /\ kind \in {"ZExt", "SExt"} => n # 1
      /\ Define(Instr.dst, value, ShortCircuit({a}, built))
      /\ Mistranslate({a}, Deviates(kind, x, n))
      /\ NoConstraint /\ NoMemory /\ SameFunction /\ UNCHANGED lossy
  BY DEF visitCastInst, At
<1>. HIDE DEF a, n, kind
<1>2. mistranslated' = (mistranslated \/ (Symbolic({a}) /\ Deviates(kind, x, n)))
  BY <1>1 DEF Mistranslate
<1>3. lossy \in BOOLEAN /\ mistranslated \in BOOLEAN /\ RunInv /\ FrameInv
  BY DEF SymbolizerInv, RunInv
<1>4. mistranslated' \in BOOLEAN /\ (mistranslated => mistranslated')
  BY <1>2, <1>3 DEF Symbolic
<1>5. ASSUME ~mistranslated, ~mistranslated'
      PROVE  Right(input, follows, lossy', value, ShortCircuit({a}, built))
  <2>1. /\ Stands(input, follows, lossy, x, Input(a))
        /\ ~Symbolic({a}) => Constant(input, follows, lossy, x)
        /\ Symbolic({a}) => Input(a) # Null
        /\ input \in Assign /\ follows \subseteq Assign
    BY <1>1, <1>3, <1>5, InputStands DEF RunInv
  <2>2. Symbolic({a}) => Stands(input, follows, lossy, value, built) /\ built # Null
    BY <1>1, <1>2, <1>5, <2>1, ConversionStands
  <2>3. ~Symbolic({a}) => Constant(input, follows, lossy, value)
    BY <2>1, ConvertStands
  <2>. HIDE DEF value, built
  <2>. QED BY <1>1, <2>2, <2>3, ShortCircuitRight
<1>. HIDE DEF value, built
<1>. QED BY <1>1, <1>3, <1>4, <1>5, LocalStep

LEMMA ConcretizeStep ==
  ASSUME SymbolizerInv, Concretize
  PROVE  SymbolizerInv'
<1>. DEFINE a == Instr.a
            value == ConvertTo(IntegerType(Instr.bits), Instr.kind, Value(a))
<1>1. /\ frame # Null /\ Defined({a}) /\ Define(Instr.dst, value, Null) /\ Lose({a})
      /\ NoConstraint /\ NoMemory /\ SameFunction /\ Translated
  BY DEF Concretize, At
<1>2. lossy \in BOOLEAN /\ mistranslated \in BOOLEAN /\ RunInv /\ FrameInv
  BY DEF SymbolizerInv, RunInv
<1>3. lossy' \in BOOLEAN /\ (lossy => lossy')
  BY <1>1, <1>2 DEF Lose, Symbolic
<1>. HIDE DEF a
<1>4. ~mistranslated => Right(input, follows, lossy', value, Null)
  BY <1>1, <1>2, DroppedRight, ConvertStands DEF Right, RunInv
<1>. HIDE DEF value
<1>. QED BY <1>1, <1>2, <1>3, <1>4, LocalStep DEF Translated

LEMMA GepStep ==
  ASSUME SymbolizerInv, visitGetElementPtrInst
  PROVE  SymbolizerInv'
<1>. DEFINE a == Instr.a
            index == Instr.index
            size == Typed(Address, [c \in Assign |-> Instr.size])
            isZero == index.reg \notin Regs /\ index.const = 0
            value == IF isZero THEN Value(a)
                     ELSE Apply("Add", Address, Element(Value(index), size), Value(a))
            built == Build(binaryOperatorHandlers["Add"],
                           ElementExpression(Input(index), size), Input(a))
            expr == IF isZero THEN getSymbolicExpressionOrNull(a) ELSE ShortCircuit({a, index}, built)
<1>1. /\ frame # Null /\ Defined({a, index})
      /\ Define(Instr.dst, value, expr)
      /\ Mistranslate({a, index}, ~isZero /\ Value(index).bits # PtrBits)
      /\ NoConstraint /\ NoMemory /\ SameFunction /\ UNCHANGED lossy
  BY DEF visitGetElementPtrInst, At
<1>. DEFINE narrow == ~isZero /\ Value(index).bits # PtrBits
<1>2. mistranslated' = (mistranslated \/ (Symbolic({a, index}) /\ narrow))
  BY <1>1 DEF Mistranslate
<1>3. size.bits = PtrBits /\ \A c \in Assign : size.val[c] = Instr.size
  BY TypedFields, Types DEF Address
<1>. HIDE DEF a, index, size
<1>4. lossy \in BOOLEAN /\ mistranslated \in BOOLEAN /\ RunInv /\ FrameInv
  BY DEF SymbolizerInv, RunInv
<1>5. mistranslated' \in BOOLEAN /\ (mistranslated => mistranslated')
  BY <1>2, <1>4 DEF Symbolic
<1>6. ASSUME ~mistranslated, ~mistranslated'
      PROVE  Right(input, follows, lossy', value, expr)
  <2>1. /\ Stands(input, follows, lossy, Value(a), Input(a))
        /\ Stands(input, follows, lossy, Value(index), Input(index))
        /\ ~Symbolic({a, index}) => /\ Constant(input, follows, lossy, Value(a))
                                    /\ Constant(input, follows, lossy, Value(index))
        /\ input \in Assign /\ follows \subseteq Assign
    BY <1>1, <1>6, Inputs
  <2>2. CASE isZero
    <3>1. Right(input, follows, lossy, Value(a), getSymbolicExpressionOrNull(a))
      BY <1>1, <1>4, <1>6, OperandRight
      DEF RunInv, FrameInv, Defined, Value, getSymbolicExpressionOrNull
    <3>. QED BY <1>1, <2>2, <3>1
  <2>3. CASE ~isZero
    <3>. DEFINE wide == IF Value(index).bits = PtrBits THEN Value(index)
                        ELSE ConvertTo(Address, IF Value(index).bits < PtrBits THEN "SExt" ELSE "Trunc",
                                       Value(index))
                product == Apply("Mul", Address, wide, size)
    <3>1. /\ Stands(input, follows, lossy, size, size)
          /\ Constant(input, follows, lossy, size)
      BY <1>3, <2>1 DEF Stands, Constant
    <3>2. value = Apply("Add", Address, product, Value(a))
      BY <2>3 DEF Element
    <3>3. CASE ~Symbolic({a, index})
      <4>1. Constant(input, follows, lossy, wide)
        BY <2>1, <3>3, ConvertStands
      <4>. HIDE DEF wide
      <4>2. Constant(input, follows, lossy, product)
        BY <2>1, <3>1, <4>1, ApplyStands
      <4>. HIDE DEF product
      <4>3. Constant(input, follows, lossy, value)
        BY <2>1, <3>2, <3>3, <4>2, ApplyStands
      <4>. HIDE DEF value, built
      <4>. QED BY <1>1, <2>3, <3>3, <4>3 DEF ShortCircuit, Right
    <3>4. CASE Symbolic({a, index})
      <4>1. Value(index).bits = PtrBits /\ Input(index).bits = PtrBits
        BY <1>2, <1>6, <2>1, <2>3, <3>4, TypeFields DEF Stands
      <4>2. ElementExpression(Input(index), size)
              = Build(binaryOperatorHandlers["Mul"], Input(index), size)
        BY <4>1 DEF ElementExpression
      <4>3. /\ "Mul" \in BinaryOps /\ "Add" \in BinaryOps
            /\ {"Mul", "Add"} \cap {"FAdd", "FSub", "FMul"} = {}
        BY DEF BinaryOps
      <4>4. Build(binaryOperatorHandlers["Mul"], Input(index), size)
              = Apply("Mul", Address, Input(index), size)
        BY <4>1, <4>3, BinaryHandler DEF Build, Address
      <4>5. Apply("Mul", Address, Input(index), size).bits = PtrBits
        BY TypedFields, Types DEF Apply, Address
      <4>6. built = Apply("Add", Address, Apply("Mul", Address, Input(index), size), Input(a))
        BY <4>2, <4>3, <4>4, <4>5, BinaryHandler DEF Build, Address
      <4>7. Stands(input, follows, lossy, product, Apply("Mul", Address, Input(index), size))
        BY <2>1, <3>1, <4>1, ApplyStands
      <4>. HIDE DEF product
      <4>8. Stands(input, follows, lossy, value, built)
        BY <2>1, <3>2, <4>6, <4>7, ApplyStands
      <4>9. built # Null
        BY BuildNotNull
      <4>. HIDE DEF value, built
      <4>. QED BY <1>1, <2>3, <3>4, <4>8, <4>9 DEF ShortCircuit, Right
    <3>. QED BY <3>3, <3>4
  <2>. QED BY <2>2, <2>3
<1>. HIDE DEF value, expr
<1>. QED BY <1>1, <1>4, <1>5, <1>6, LocalStep

\* A member of an aggregate.
LEMMA MemberStands ==
  ASSUME NEW in \in Assign, NEW path, path \subseteq Assign, NEW lost, NEW v, NEW e
  PROVE  /\ Stands(in, path, lost, v, e) => Stands(in, path, lost, Member(v), Member(e))
         /\ Constant(in, path, lost, v) => Constant(in, path, lost, Member(v))
<1>. DEFINE n == Instr.size
            Bytes(x) == [k \in 0..(n - 1) |-> Byte(x, Instr.offset + k, Instr.of, FALSE)]
<1>1. /\ Stands(in, path, lost, v, e) =>
           \A k \in 0..(n - 1) : Stands(in, path, lost, Bytes(v)[k], Bytes(e)[k])
      /\ Constant(in, path, lost, v) => \A k \in 0..(n - 1) : Constant(in, path, lost, Bytes(v)[k])
  BY ByteStands
<1>2. \A x : Member(x) = Joined(Bytes(x), n, Instr.little)
  BY DEF Member
<1>. HIDE DEF Bytes, n
<1>. QED BY <1>1, <1>2, JoinedStands

\* Bytes put together are an expression.
LEMMA JoinedNotNull ==
  ASSUME NEW bytes, NEW n, NEW little, n = 1 => bytes[0] # Null
  PROVE  Joined(bytes, n, little) # Null
BY TypedFields DEF Joined

LEMMA ExtractStep ==
  ASSUME SymbolizerInv, visitExtractValueInst
  PROVE  SymbolizerInv'
<1>. DEFINE a == Instr.a
            value == Member(Value(a))
            built == Member(Input(a))
<1>1. /\ frame # Null /\ Defined({a}) /\ Define(Instr.dst, value, ShortCircuit({a}, built))
      /\ NoConstraint /\ NoMemory /\ SameFunction /\ Translated /\ UNCHANGED lossy
  BY DEF visitExtractValueInst, At
<1>. HIDE DEF a
<1>2. lossy \in BOOLEAN /\ mistranslated \in BOOLEAN /\ RunInv /\ FrameInv
  BY DEF SymbolizerInv, RunInv
<1>3. ASSUME ~mistranslated
      PROVE  Right(input, follows, lossy, value, ShortCircuit({a}, built))
  <2>1. /\ Stands(input, follows, lossy, Value(a), Input(a))
        /\ ~Symbolic({a}) => Constant(input, follows, lossy, Value(a))
        /\ Symbolic({a}) => Input(a) # Null
        /\ input \in Assign /\ follows \subseteq Assign
    BY <1>1, <1>2, <1>3, InputStands DEF RunInv
  <2>2. Symbolic({a}) => Stands(input, follows, lossy, value, built)
    BY <2>1, MemberStands
  <2>3. ~Symbolic({a}) => Constant(input, follows, lossy, value)
    BY <2>1, MemberStands
  <2>4. Symbolic({a}) => built # Null
    <3>1. SUFFICES ASSUME Symbolic({a}) PROVE built # Null
      OBVIOUS
    <3>2. \A k : Byte(Input(a), k, Instr.of, FALSE) # Null
      BY <2>1, <3>1, MemoryNotNull
    <3>3. Instr.size = 1 => 0 \in 0..(Instr.size - 1)
      OBVIOUS
    <3>. QED BY <3>2, <3>3, JoinedNotNull DEF Member
  <2>. HIDE DEF value, built
  <2>. QED BY <2>2, <2>3, <2>4, ShortCircuitRight
<1>. HIDE DEF value, built
<1>. QED BY <1>1, <1>2, <1>3, LocalStep DEF Translated

LEMMA InsertStep ==
  ASSUME SymbolizerInv, InsertValue
  PROVE  SymbolizerInv'
<1>. DEFINE a == Instr.a
            b == Instr.b
            n == Instr.of
            position == Instr.offset..(Instr.offset + Instr.size - 1)
            bytes == [k \in 0..(n - 1) |->
                        IF k \in position
                        THEN Byte(Value(b), k - Instr.offset, Instr.size, Instr.little)
                        ELSE Byte(Value(a), k, n, FALSE)]
            value == Joined(bytes, n, FALSE)
<1>1. /\ frame # Null /\ Defined({a, b}) /\ Define(Instr.dst, value, Null) /\ Lose({a, b})
      /\ NoConstraint /\ NoMemory /\ SameFunction /\ Translated
  BY DEF InsertValue, At
<1>. HIDE DEF a, b, n, position
<1>2. lossy \in BOOLEAN /\ mistranslated \in BOOLEAN /\ RunInv /\ FrameInv
  BY DEF SymbolizerInv, RunInv
<1>3. lossy' \in BOOLEAN /\ (lossy => lossy')
  BY <1>1, <1>2 DEF Lose, Symbolic
<1>4. ASSUME ~mistranslated
      PROVE  Right(input, follows, lossy', value, Null)
  <2>1. /\ Constant(input, follows, lossy', Value(a)) /\ Constant(input, follows, lossy', Value(b))
        /\ input \in Assign /\ follows \subseteq Assign
    BY <1>1, <1>2, <1>4, DroppedRight DEF RunInv
  <2>2. \A k \in 0..(n - 1) : Constant(input, follows, lossy', bytes[k])
    BY <2>1, ByteStands
  <2>. HIDE DEF bytes
  <2>3. Constant(input, follows, lossy', value)
    BY <2>1, <2>2, JoinedStands
  <2>. QED BY <2>3 DEF Right
<1>. HIDE DEF value
<1>. QED BY <1>1, <1>2, <1>3, <1>4, LocalStep DEF Translated

-------------------------------------------------------------------------------
(* Memory.                                                                     *)

\* The path after an access, or after a call through a pointer.
LEMMA AddressPath ==
  ASSUME SymbolizerInv, frame # Null, NEW opnd, Defined({opnd}),
         pathConstraints' = pathConstraints \cup tryAlternative(opnd),
         follows' = follows \cap Agree(opnd), UNCHANGED input,
         lossy' \in BOOLEAN, lossy => lossy', mistranslated' \in BOOLEAN, mistranslated => mistranslated'
  PROVE  RunInv' /\ PathInv' /\ Further
BY AddressTaken, Agrees, LongerPath DEF SymbolizerInv, Further

LEMMA LoadStep ==
  ASSUME SymbolizerInv, visitLoadInst
  PROVE  SymbolizerInv'
<1>. DEFINE a == Instr.a
            n == Instr.size
            little == Instr.little
            address == Concrete(a)
            cells == 0..(n - 1)
            OfByte(c) == IF shadow[c] = Null
                         THEN Typed(TypeOf(memory[c]), [b \in Assign |-> memory[c].val[input]])
                         ELSE shadow[c]
            contents == [k \in cells |-> memory[address + k]]
            expressions == [k \in cells |-> OfByte(address + k)]
            data == readMemory(address, n, little)
            value == FromMemory(Joined(contents, n, little), Instr.float)
            expr == OrNull(data, FromMemory(data, Instr.float))
<1>1. /\ frame # Null /\ InMemory(a, n) /\ Define(Instr.dst, value, expr)
      /\ pathConstraints' = pathConstraints \cup tryAlternative(a)
      /\ follows' = follows \cap Agree(a)
      /\ NoMemory /\ SameFunction /\ Translated /\ UNCHANGED lossy
  BY DEF visitLoadInst, At
<1>2. data = IF \A k \in cells : shadow[address + k] = Null THEN Null
             ELSE Joined(expressions, n, little)
  BY DEF readMemory
<1>3. Defined({a}) /\ \A k \in cells : address + k \in Addrs
  BY <1>1 DEF InMemory
<1>. HIDE DEF a, n, little, address, data
<1>4. lossy \in BOOLEAN /\ mistranslated \in BOOLEAN /\ RunInv
  BY DEF SymbolizerInv, RunInv
<1>5. RunInv' /\ PathInv' /\ Further
  BY <1>1, <1>3, <1>4, AddressPath DEF SameFunction, Translated
<1>6. StackInv' /\ MemoryInv'
  BY <1>1, <1>5, StackKept, MemoryKept DEF SameFunction
<1>7. ASSUME ~mistranslated
      PROVE  Right(input, follows, lossy, value, expr)
  <2>1. input \in Assign /\ follows \subseteq Assign
    BY <1>4 DEF RunInv
  <2>2. \A c \in Addrs : Right(input, follows, lossy, memory[c], shadow[c])
    BY <1>7 DEF SymbolizerInv, MemoryInv
  <2>3. \A c \in Addrs : Stands(input, follows, lossy, memory[c], OfByte(c))
    BY <2>1, <2>2, ConcreteStands DEF Right
  <2>4. \A k \in cells : Stands(input, follows, lossy, contents[k], expressions[k])
    BY <1>3, <2>3
  <2>5. CASE \A k \in cells : shadow[address + k] = Null
    <3>1. \A k \in cells : Constant(input, follows, lossy, contents[k])
      BY <1>3, <2>2, <2>5 DEF Right
    <3>. HIDE DEF contents
    <3>2. Constant(input, follows, lossy, value)
      BY <2>1, <3>1, JoinedStands, MemoryStands
    <3>. HIDE DEF value
    <3>. QED BY <1>2, <2>5, <3>2 DEF Right, OrNull
  <2>6. CASE ~\A k \in cells : shadow[address + k] = Null
    <3>1. data = Joined(expressions, n, little)
      BY <1>2, <2>6
    <3>2. n = 1 => expressions[0] # Null
      <4>1. SUFFICES ASSUME n = 1 PROVE expressions[0] # Null
        OBVIOUS
      <4>2. cells = {0}
        BY <4>1
      <4>3. shadow[address + 0] # Null
        BY <2>6, <4>2
      <4>. QED BY <4>2, <4>3
    <3>3. data # Null
      BY <3>1, <3>2, JoinedNotNull
    <3>4. FromMemory(data, Instr.float) # Null
      BY <3>3, MemoryNotNull
    <3>. HIDE DEF contents, expressions
    <3>5. Stands(input, follows, lossy, Joined(contents, n, little), data)
      BY <2>1, <2>4, <3>1, JoinedStands
    <3>6. Stands(input, follows, lossy, value, FromMemory(data, Instr.float))
      BY <2>1, <3>5, MemoryStands
    <3>. HIDE DEF value
    <3>. QED BY <3>3, <3>4, <3>6 DEF Right, OrNull
  <2>. QED BY <2>5, <2>6
<1>8. ~mistranslated' => Right(input', follows', lossy', value, expr)
  BY <1>5, <1>7, RightMonotone DEF Further
<1>. HIDE DEF value, expr
<1>9. FrameInv'
  BY <1>1, <1>5, <1>8, DefineStep
<1>. QED BY <1>5, <1>6, <1>9 DEF SymbolizerInv

LEMMA StoreStep ==
  ASSUME SymbolizerInv, visitStoreInst
  PROVE  SymbolizerInv'
<1>. DEFINE a == Instr.a
            b == Instr.b
            n == Instr.size
            little == Instr.little
            address == Concrete(a)
            data == getSymbolicExpressionOrNull(b)
            stored == address..(address + n - 1)
            value(c) == Byte(ToMemory(Value(b)), c - address, n, little)
            expr(c) == OrNull(data, Byte(FloatBits(data), c - address, n, TRUE))
<1>1. /\ frame # Null /\ InMemory(a, n) /\ Defined({b})
      /\ memory' = [c \in Addrs |-> IF c \in stored THEN value(c) ELSE memory[c]]
      /\ shadow' = [c \in Addrs |-> IF c \in stored THEN expr(c) ELSE shadow[c]]
      /\ Mistranslate({b}, (~little /\ n # 1) \/ Value(b).sort \notin {"bits", "float"})
      /\ frame' = Advanced(frame)
      /\ pathConstraints' = pathConstraints \cup tryAlternative(a)
      /\ follows' = follows \cap Agree(a)
      /\ UNCHANGED <<program, input, stack, params, returned, lossy>>
  BY DEF visitStoreInst, At
<1>2. Defined({a})
  BY <1>1 DEF InMemory
<1>. HIDE DEF a, b, n, little, address, stored
<1>3. mistranslated' = (mistranslated \/ (Symbolic({b}) /\
                         ((~little /\ n # 1) \/ Value(b).sort \notin {"bits", "float"})))
  BY <1>1 DEF Mistranslate
<1>4. lossy \in BOOLEAN /\ mistranslated \in BOOLEAN /\ RunInv /\ FrameInv
  BY DEF SymbolizerInv, RunInv
<1>5. mistranslated' \in BOOLEAN /\ (mistranslated => mistranslated')
  BY <1>3, <1>4 DEF Symbolic
<1>6. RunInv' /\ PathInv' /\ Further
  BY <1>1, <1>2, <1>4, <1>5, AddressPath
<1>7. StackInv'
  BY <1>1, <1>6, StackKept
<1>8. FrameInv'
  BY <1>1, <1>6, FrameFurther, AdvancedRight DEF FrameInv
<1>9. ASSUME ~mistranslated, ~mistranslated', NEW c
      PROVE  value(c).sort = "bits" /\ Right(input, follows, lossy, value(c), expr(c))
  <2>1. /\ input \in Assign /\ follows \subseteq Assign
        /\ Symbolic({b}) => Stands(input, follows, lossy, Value(b), data)
        /\ ~Symbolic({b}) => Constant(input, follows, lossy, Value(b))
        /\ Symbolic({b}) <=> data # Null
    BY <1>1, <1>4, <1>9, InputStands DEF RunInv, Symbolic
  <2>2. value(c).sort = "bits"
    BY MemorySort
  <2>3. CASE ~Symbolic({b})
    <3>1. Constant(input, follows, lossy, value(c))
      BY <2>1, <2>3, MemoryStands, ByteStands
    <3>. HIDE DEF value, data
    <3>. QED BY <2>1, <2>2, <2>3, <3>1 DEF Right, OrNull
  <2>4. CASE Symbolic({b})
    <3>1. (little \/ n = 1) /\ Value(b).sort \in {"bits", "float"}
      BY <1>3, <1>9, <2>4
    <3>2. value(c) = Byte(FloatBits(Value(b)), c - address, n, TRUE)
      <4>1. ToMemory(Value(b)) = FloatBits(Value(b))
        BY <3>1, MemorySort
      <4>. QED BY <3>1, <4>1 DEF Byte, Place
    <3>3. Stands(input, follows, lossy, value(c), Byte(FloatBits(data), c - address, n, TRUE))
      BY <2>1, <2>4, <3>2, MemoryStands, ByteStands
    <3>4. Byte(FloatBits(data), c - address, n, TRUE) # Null
      BY <2>1, <2>4, MemoryNotNull
    <3>. HIDE DEF value, data
    <3>. QED BY <2>1, <2>2, <2>4, <3>3, <3>4 DEF Right, OrNull
  <2>. QED BY <2>3, <2>4
<1>. HIDE DEF value, expr
<1>10. MemoryInv'
  <2>1. memory' = [c \in Addrs |-> memory'[c]] /\ shadow' = [c \in Addrs |-> shadow'[c]]
    BY <1>1
  <2>2. ASSUME ~mistranslated', NEW c \in Addrs
        PROVE  memory'[c].sort = "bits" /\ Right(input', follows', lossy', memory'[c], shadow'[c])
    <3>1. /\ memory'[c] = IF c \in stored THEN value(c) ELSE memory[c]
          /\ shadow'[c] = IF c \in stored THEN expr(c) ELSE shadow[c]
      BY <1>1
    <3>2. memory[c].sort = "bits" /\ Right(input, follows, lossy, memory[c], shadow[c])
      BY <1>6, <2>2 DEF SymbolizerInv, MemoryInv, Further
    <3>3. value(c).sort = "bits" /\ Right(input, follows, lossy, value(c), expr(c))
      BY <1>6, <1>9, <2>2 DEF Further
    <3>. QED BY <1>1, <1>6, <3>1, <3>2, <3>3, RightMonotone DEF Further
  <2>. QED BY <2>1, <2>2 DEF MemoryInv
<1>. QED BY <1>6, <1>7, <1>8, <1>10 DEF SymbolizerInv

-------------------------------------------------------------------------------
(* Jumps.                                                                      *)

\* A jump that records what it has to.
LEMMA JumpingStep ==
  ASSUME SymbolizerInv, frame # Null, NoMemory, SameFunction, RunInv', PathInv', Further,
         NEW block, JumpTo(block)
  PROVE  SymbolizerInv'
BY StackKept, MemoryKept, JumpStep DEF SameFunction, SymbolizerInv

LEMMA BranchStep ==
  ASSUME SymbolizerInv, visitBranchInst
  PROVE  SymbolizerInv'
<1>. DEFINE cond == Instr.cond
            block == IF Concrete(cond) = 1 THEN Instr.then ELSE Instr.else
<1>1. /\ frame # Null /\ IsTruth(cond) /\ JumpTo(block)
      /\ pathConstraints' = pathConstraints \cup RecordedBranch(cond)
      /\ follows' = follows \cap Agree(cond)
      /\ NoMemory /\ SameFunction /\ Translated /\ UNCHANGED lossy
  BY DEF visitBranchInst, At
<1>. HIDE DEF cond, block
<1>2. RunInv /\ FrameInv /\ PathInv /\ lossy \in BOOLEAN /\ mistranslated \in BOOLEAN
  BY DEF SymbolizerInv, RunInv
<1>3. UNCHANGED <<input, lossy, mistranslated>>
  BY <1>1 DEF SameFunction, Translated
<1>4. RunInv' /\ PathInv' /\ Further
  BY <1>1, <1>2, <1>3, BranchTaken, Agrees, LongerPath DEF Further
<1>. QED BY <1>1, <1>4, JumpingStep

LEMMA SwitchStep ==
  ASSUME SymbolizerInv, visitSwitchInst
  PROVE  SymbolizerInv'
<1>. DEFINE cond == Instr.cond
            cases == DOMAIN Instr.targets
            value == Value(cond)
            taken == Concrete(cond)
            expr == getSymbolicExpressionOrNull(cond)
            SameCase(a) == \A case \in cases : value.val[a] = case <=> taken = case
            OfCase(case) ==
              PathConstraint(Build(comparisonHandlers["EQ"], expr,
                                   createValueExpression(Const(TypeOf(value), case))), case = taken)
            constraints == IF expr = Null THEN {} ELSE {OfCase(case) : case \in cases}
            agree == {a \in follows : SameCase(a)}
            block == IF taken \in cases THEN Instr.targets[taken] ELSE Instr.default
<1>1. /\ frame # Null /\ Defined({cond}) /\ JumpTo(block)
      /\ pathConstraints' = pathConstraints \cup constraints
      /\ follows' = agree
      /\ NoMemory /\ SameFunction /\ Translated /\ UNCHANGED lossy
  BY DEF visitSwitchInst, At
<1>. HIDE DEF cond, cases, block
<1>2. RunInv /\ FrameInv /\ PathInv /\ lossy \in BOOLEAN /\ mistranslated \in BOOLEAN
  BY DEF SymbolizerInv, RunInv
<1>3. UNCHANGED <<input, lossy, mistranslated>>
  BY <1>1 DEF SameFunction, Translated
<1>4. follows' = follows \cap agree /\ input \in agree
  BY <1>1, <1>2 DEF RunInv, Concrete
<1>5. ASSUME NEW case \in cases, NEW a \in Assign
      PROVE  OfCase(case).cond.val[a] = OfCase(case).taken <=> (expr.val[a] = case <=> taken = case)
  <2>. DEFINE const == createValueExpression(Const(TypeOf(value), case))
              built == Build(comparisonHandlers["EQ"], expr, const)
  <2>1. const.val[a] = case
    <3>1. Const(TypeOf(value), case).reg = Null /\ Const(TypeOf(value), case).const = case
      BY DEF Const
    <3>2. Value(Const(TypeOf(value), case)).val[input] = case
      BY <1>2, <3>1, RegsAssumption, TypedFields DEF Value, ValueIn, RunInv
    <3>. QED BY <3>2, TypedFields DEF createValueExpression, Concrete
  <2>2. OfCase(case).cond = built /\ OfCase(case).taken = IF case = taken THEN 1 ELSE 0
    BY DEF PathConstraint
  <2>. HIDE DEF const, OfCase
  <2>3. built.val[a] \in {0, 1} /\ (built.val[a] = 1 <=> expr.val[a] = const.val[a])
    BY EqualValue, EqualBit
  <2>. QED BY <2>1, <2>2, <2>3
<1>. HIDE DEF OfCase
<1>6. ASSUME ~mistranslated
      PROVE  /\ \A c \in constraints : c.cond.val[input] = c.taken
             /\ ~lossy => \A a \in follows :
                  a \in agree <=> \A c \in constraints : c.cond.val[a] = c.taken
  <2>1. Symbolic({cond}) <=> expr # Null
    BY DEF Symbolic
  <2>2. input \in Assign /\ follows \subseteq Assign
    BY <1>2 DEF RunInv
  <2>3. CASE expr # Null
    <3>1. /\ expr.val[input] = taken
          /\ ~lossy => \A a \in follows : expr.val[a] = value.val[a]
      BY <1>1, <1>2, <1>6, <2>1, <2>3, InputStands DEF Stands, Concrete
    <3>2. constraints = {OfCase(case) : case \in cases}
      BY <2>3
    <3>. HIDE DEF expr, value, taken, constraints
    <3>3. \A c \in constraints : c.cond.val[input] = c.taken
      BY <1>5, <2>2, <3>1, <3>2
    <3>4. ASSUME ~lossy, NEW a \in follows
          PROVE  a \in agree <=> \A c \in constraints : c.cond.val[a] = c.taken
      <4>1. \A case \in cases : OfCase(case).cond.val[a] = OfCase(case).taken
                                  <=> (value.val[a] = case <=> taken = case)
        BY <1>5, <2>2, <3>1, <3>4
      <4>. QED BY <3>2, <4>1
    <3>. QED BY <3>3, <3>4
  <2>4. CASE expr = Null
    <3>1. ~lossy => \A a \in follows : value.val[a] = taken
      BY <1>1, <1>2, <1>6, <2>1, <2>4, InputStands DEF Constant, Concrete
    <3>2. constraints = {}
      BY <2>4
    <3>. HIDE DEF expr, value, taken, constraints
    <3>. QED BY <3>1, <3>2
  <2>. QED BY <2>3, <2>4
<1>. HIDE DEF constraints, agree
<1>7. RunInv' /\ PathInv' /\ Further
  BY <1>1, <1>2, <1>3, <1>4, <1>6, LongerPath DEF Further
<1>. QED BY <1>1, <1>7, JumpingStep

LEMMA IndirectBrStep ==
  ASSUME SymbolizerInv, visitIndirectBrInst
  PROVE  SymbolizerInv'
<1>1. /\ frame # Null /\ Defined({Instr.a}) /\ JumpTo(Concrete(Instr.a))
      /\ pathConstraints' = pathConstraints \cup tryAlternative(Instr.a)
      /\ follows' = follows \cap Agree(Instr.a)
      /\ NoMemory /\ SameFunction /\ Translated /\ UNCHANGED lossy
  BY DEF visitIndirectBrInst, At
<1>2. lossy \in BOOLEAN /\ mistranslated \in BOOLEAN
  BY DEF SymbolizerInv, RunInv
<1>3. RunInv' /\ PathInv' /\ Further
  BY <1>1, <1>2, AddressPath DEF SameFunction, Translated
<1>. QED BY <1>1, <1>3, JumpingStep

-------------------------------------------------------------------------------
(* Calls, returns and exceptions.                                              *)

\* The callers and the frame under way, as they are seen after the step.
LEMMA FramesFurther ==
  ASSUME SymbolizerInv, Further, frame # Null
  PROVE  LET frames == Append(stack, frame)
         IN /\ \E S : frames \in Seq(S)
            /\ Len(frames) \in Nat
            /\ \A j \in 1..Len(frames) :
                 /\ FrameShape(frames[j])
                 /\ ~mistranslated' => FrameRight(input', follows', lossy', frames[j])
<1>. DEFINE frames == Append(stack, frame)
<1>1. PICK S : stack \in Seq(S)
  BY DEF SymbolizerInv, StackInv
<1>2. frames \in Seq(S \cup {frame}) /\ stack \in Seq(S \cup {frame})
  BY <1>1
<1>3. /\ Len(frames) = Len(stack) + 1 /\ Len(stack) \in Nat
      /\ \A j \in 1..Len(stack) : frames[j] = stack[j]
      /\ frames[Len(stack) + 1] = frame
  BY <1>2
<1>. HIDE DEF frames
<1>4. ASSUME NEW j \in 1..Len(frames)
      PROVE  /\ FrameShape(frames[j])
             /\ ~mistranslated' => FrameRight(input', follows', lossy', frames[j])
  <2>1. CASE j = Len(stack) + 1
    BY <1>3, <2>1, FrameFurther
  <2>2. CASE j # Len(stack) + 1
    <3>1. j \in 1..Len(stack)
      BY <1>3, <2>2
    <3>2. /\ FrameShape(stack[j])
          /\ ~mistranslated => FrameRight(input, follows, lossy, stack[j])
      BY <3>1 DEF SymbolizerInv, StackInv
    <3>. QED BY <1>3, <3>1, <3>2, FrameMonotone DEF Further
  <2>. QED BY <2>1, <2>2
<1>. QED BY <1>2, <1>3, <1>4 DEF frames

\* A call adds its caller.
LEMMA StackPushed ==
  ASSUME SymbolizerInv, Further, frame # Null, stack' = Append(stack, frame)
  PROVE  StackInv'
BY FramesFurther DEF StackInv

\* The first frames of a stack.
LEMMA SubSeqOf ==
  ASSUME NEW S, NEW s \in Seq(S), NEW j \in 0..Len(s)
  PROVE  /\ SubSeq(s, 1, j) \in Seq(S) /\ Len(SubSeq(s, 1, j)) = j
         /\ \A k \in 1..j : SubSeq(s, 1, j)[k] = s[k]
OBVIOUS

\* An exception on its way to the last invoke.
LEMMA Unwound ==
  ASSUME SymbolizerInv, Further, frame # Null, NEW thrown, Unwind(thrown),
         ~mistranslated' => Right(input', follows', lossy', thrown, Null)
  PROVE  FrameInv' /\ StackInv'
<1>. DEFINE frames == Append(stack, frame)
            handlers == {j \in DOMAIN frames : InstrOf(frames[j]).op = "invoke"}
            caught(j) == Assigned(frames[j], InstrOf(frames[j]).caught, thrown, Null)
<1>1. PICK S : frames \in Seq(S)
  BY FramesFurther
<1>2. /\ DOMAIN frames = 1..Len(frames) /\ Len(frames) \in Nat
      /\ \A j \in 1..Len(frames) :
           /\ FrameShape(frames[j])
           /\ ~mistranslated' => FrameRight(input', follows', lossy', frames[j])
  BY <1>1, FramesFurther
<1>3. CASE handlers = {}
  <2>1. frame' = Null /\ stack' = <<>>
    BY <1>3 DEF Unwind
  <2>2. <<>> \in Seq({}) /\ Len(<<>>) = 0
    OBVIOUS
  <2>3. \A j \in 1..Len(stack') : FALSE
    BY <2>1, <2>2
  <2>. QED BY <2>1, <2>2, <2>3 DEF FrameInv, StackInv
<1>4. CASE handlers # {}
  <2>1. PICK j \in handlers : /\ frame' = Jumped(caught(j), InstrOf(frames[j]).unwind)
                              /\ stack' = SubSeq(frames, 1, j - 1)
    BY <1>4 DEF Unwind
  <2>2. j \in 1..Len(frames)
    BY <1>2
  <2>. HIDE DEF frames, handlers
  <2>3. /\ FrameShape(caught(j))
        /\ ~mistranslated' => FrameRight(input', follows', lossy', caught(j))
    BY <1>2, <2>2, AssignedRight
  <2>4. input' \in Assign /\ follows' \subseteq Assign
    BY DEF Further, RunInv
  <2>. HIDE DEF caught
  <2>5. FrameInv'
    BY <2>1, <2>3, <2>4, JumpedRight DEF FrameInv
  <2>6. j - 1 \in 0..Len(frames)
    BY <1>2, <2>2
  <2>7. /\ stack' \in Seq(S) /\ Len(stack') = j - 1
        /\ \A k \in 1..(j - 1) : stack'[k] = frames[k]
    BY <1>1, <2>1, <2>6, SubSeqOf
  <2>8. 1..(j - 1) \subseteq 1..Len(frames)
    BY <1>2, <2>2
  <2>9. \A k \in 1..Len(stack') :
          /\ FrameShape(stack'[k])
          /\ ~mistranslated' => FrameRight(input', follows', lossy', stack'[k])
    BY <1>2, <2>7, <2>8
  <2>10. StackInv'
    BY <2>7, <2>9 DEF StackInv
  <2>. QED BY <2>5, <2>10
<1>. QED BY <1>3, <1>4

\* What all calls have in common.
LEMMA CallsPath ==
  ASSUME SymbolizerInv, Calls, lossy' \in BOOLEAN, lossy => lossy'
  PROVE  /\ frame # Null /\ Defined(Range(Instr.args))
         /\ RunInv' /\ PathInv' /\ Further
<1>1. /\ frame # Null /\ Defined({Instr.callee}) /\ Defined(Range(Instr.args))
      /\ pathConstraints' = pathConstraints \cup tryAlternative(Instr.callee)
      /\ follows' = follows \cap Agree(Instr.callee)
      /\ UNCHANGED <<input, mistranslated>>
  BY DEF Calls, At, Defined
<1>2. mistranslated \in BOOLEAN
  BY DEF SymbolizerInv, RunInv
<1>. QED BY <1>1, <1>2, AddressPath

LEMMA CallStep ==
  ASSUME SymbolizerInv, Call
  PROVE  SymbolizerInv'
<1>. DEFINE fn == CalledFunction
            args == Instr.args
            parameters == program.parameters[fn]
            index(r) == CHOOSE j \in DOMAIN parameters : parameters[j] = r
            isParameter(r) == \E j \in DOMAIN parameters : parameters[j] = r
            callee == Callee(fn, args, params')
<1>1. /\ Calls /\ DOMAIN parameters \subseteq DOMAIN args
      /\ params' = setParameterExpressions(args)
      /\ frame' = callee /\ stack' = Append(stack, frame)
      /\ NoMemory /\ UNCHANGED lossy
  BY DEF Call, Calls
<1>2. lossy' \in BOOLEAN /\ (lossy => lossy')
  BY <1>1 DEF SymbolizerInv, RunInv
<1>3. /\ frame # Null /\ Defined(Range(args))
      /\ RunInv' /\ PathInv' /\ Further
  BY <1>1, <1>2, CallsPath
<1>4. StackInv' /\ MemoryInv'
  BY <1>1, <1>3, StackPushed, MemoryKept
<1>5. /\ FrameShape(callee)
      /\ \A r \in Regs :
           /\ callee.real[r] = IF isParameter(r) THEN Value(args[index(r)]) ELSE NoValue
           /\ callee.sym[r] = IF isParameter(r) THEN params'[index(r)] ELSE Null
  BY DEF Callee, FrameShape
<1>6. \A j \in DOMAIN args : params'[j] = getSymbolicExpressionOrNull(args[j])
  BY <1>1 DEF setParameterExpressions
<1>7. ~mistranslated' => FrameRight(input', follows', lossy', callee)
  <2>1. SUFFICES ASSUME ~mistranslated', NEW r \in Regs, callee.real[r] # NoValue
                 PROVE  Right(input', follows', lossy', callee.real[r], callee.sym[r])
    BY DEF FrameRight
  <2>2. isParameter(r)
    BY <1>5, <2>1
  <2>3. index(r) \in DOMAIN args
    BY <1>1, <2>2
  <2>. DEFINE j == index(r)
  <2>4. callee.real[r] = ValueIn(frame, args[j]) /\ callee.sym[r] = ExpressionIn(frame, args[j])
    BY <1>5, <1>6, <2>2, <2>3 DEF Value, getSymbolicExpressionOrNull
  <2>5. FrameRight(input', follows', lossy', frame) /\ input' \in Assign /\ follows' \subseteq Assign
    BY <1>3, <2>1, FrameFurther DEF Further, RunInv
  <2>. HIDE DEF j, callee
  <2>. QED BY <2>1, <2>4, <2>5, OperandRight
<1>8. FrameInv'
  BY <1>1, <1>5, <1>7 DEF FrameInv
<1>. QED BY <1>3, <1>4, <1>8 DEF SymbolizerInv

LEMMA ReturnStep ==
  ASSUME SymbolizerInv, visitReturnInst
  PROVE  SymbolizerInv'
<1>1. /\ frame # Null /\ Returns
      /\ returned' = IF Instr.void THEN returned ELSE getSymbolicExpressionOrNull(Instr.a)
      /\ NoConstraint /\ NoMemory /\ UNCHANGED <<input, lossy, mistranslated>>
  BY DEF visitReturnInst, At
<1>2. RunInv' /\ PathInv' /\ Further
  BY <1>1, SamePath DEF SymbolizerInv, RunInv, Further
<1>3. MemoryInv'
  BY <1>1, <1>2, MemoryKept
<1>4. PICK S : stack \in Seq(S)
  BY DEF SymbolizerInv, StackInv
<1>5. CASE stack = <<>>
  <2>1. frame' = Null /\ stack' = <<>>
    BY <1>5 DEF visitReturnInst
  <2>2. <<>> \in Seq({}) /\ Len(<<>>) = 0
    OBVIOUS
  <2>3. \A j \in 1..Len(stack') : FALSE
    BY <2>1, <2>2
  <2>. QED BY <1>2, <1>3, <2>1, <2>2, <2>3 DEF FrameInv, StackInv, SymbolizerInv
<1>6. CASE stack # <<>>
  <2>. DEFINE caller == stack[Len(stack)]
              value == Value(Instr.a)
  <2>1. Len(stack) \in Nat /\ Len(stack) >= 1 /\ Len(stack) \in 1..Len(stack)
    BY <1>4, <1>6
  <2>2. /\ frame' = ReturnTo(caller, value, returned')
        /\ stack' = SubSeq(stack, 1, Len(stack) - 1)
        /\ Instr.void => InstrOf(caller).dst = Null
    BY <1>1, <1>6 DEF visitReturnInst, Returns, Last, Front
  <2>3. Len(stack) - 1 \in 0..Len(stack)
    BY <2>1
  <2>4. /\ stack' \in Seq(S) /\ Len(stack') = Len(stack) - 1
        /\ \A k \in 1..(Len(stack) - 1) : stack'[k] = stack[k]
    BY <1>4, <2>2, <2>3, SubSeqOf
  <2>5. \A k \in 1..Len(stack) :
          /\ FrameShape(stack[k])
          /\ ~mistranslated => FrameRight(input, follows, lossy, stack[k])
    BY DEF SymbolizerInv, StackInv
  <2>6. /\ input' = input /\ follows' = follows /\ lossy' = lossy /\ mistranslated' = mistranslated
        /\ input \in Assign /\ follows \subseteq Assign
    BY <1>1 DEF NoConstraint, SymbolizerInv, RunInv
  <2>7. \A k \in 1..Len(stack') : k \in 1..Len(stack) /\ stack'[k] = stack[k]
    BY <2>1, <2>4
  <2>8. StackInv'
    BY <2>4, <2>5, <2>6, <2>7 DEF StackInv
  <2>9. ASSUME ~mistranslated, value # NoValue, ~Instr.void
        PROVE  Right(input, follows, lossy, value, returned')
    BY <1>1, <2>6, <2>9, OperandRight DEF SymbolizerInv, FrameInv, Value, getSymbolicExpressionOrNull
  <2>10. /\ FrameShape(caller)
         /\ ~mistranslated => FrameRight(input, follows, lossy, caller)
    BY <2>1, <2>5
  <2>. HIDE DEF caller, value
  <2>11. /\ FrameShape(frame')
         /\ ~mistranslated => FrameRight(input, follows, lossy, frame')
    BY <2>2, <2>6, <2>9, <2>10, ReturnToRight
  <2>12. FrameInv'
    BY <2>6, <2>11 DEF FrameInv
  <2>. QED BY <1>2, <1>3, <2>8, <2>12 DEF SymbolizerInv
<1>. QED BY <1>5, <1>6

LEMMA CallUninstrumentedStep ==
  ASSUME SymbolizerInv, CallUninstrumented
  PROVE  SymbolizerInv'
<1>. DEFINE arg == Instr.args[1]
            value == ConvertTo(Bits(Value(arg).bits), program.external[CalledFunction], Value(arg))
<1>1. /\ Calls /\ 1 \in DOMAIN Instr.args /\ EmptiesMailbox
      /\ frame' = ReturnTo(frame, value, returned')
      /\ Lose(Range(Instr.args))
      /\ NoMemory /\ UNCHANGED stack
  BY DEF CallUninstrumented
<1>2. lossy' \in BOOLEAN /\ (lossy => lossy') /\ RunInv /\ FrameInv
  BY <1>1 DEF SymbolizerInv, RunInv, Lose, Symbolic
<1>3. /\ frame # Null /\ Defined(Range(Instr.args))
      /\ RunInv' /\ PathInv' /\ Further
  BY <1>1, <1>2, CallsPath
<1>4. StackInv' /\ MemoryInv'
  BY <1>1, <1>3, StackKept, MemoryKept
<1>5. arg \in Range(Instr.args)
  BY <1>1 DEF Range
<1>6. ASSUME ~mistranslated'
      PROVE  Right(input', follows', lossy', value, Null)
  <2>1. Constant(input, follows, lossy', Value(arg))
    BY <1>1, <1>2, <1>3, <1>5, <1>6, DroppedRight DEF Further
  <2>2. Constant(input, follows, lossy', value)
    BY <1>2, <2>1, ConvertStands DEF RunInv
  <2>. QED BY <1>3, <2>2 DEF Right, Constant, Further
<1>7. InstrOf(frame).dst # Null => returned' = Null
  BY <1>1 DEF EmptiesMailbox, Instr
<1>. HIDE DEF value
<1>8. FrameInv'
  <2>1. input' \in Assign /\ follows' \subseteq Assign
    BY <1>3 DEF RunInv
  <2>2. /\ FrameShape(frame)
        /\ ~mistranslated' => FrameRight(input', follows', lossy', frame)
    BY <1>3, FrameFurther
  <2>. QED BY <1>1, <1>6, <1>7, <2>1, <2>2, ReturnToRight DEF FrameInv
<1>. QED BY <1>3, <1>4, <1>8 DEF SymbolizerInv

LEMMA CallInterceptedStep ==
  ASSUME SymbolizerInv, CallIntercepted
  PROVE  SymbolizerInv'
<1>. DEFINE cell == Concrete(Instr.args[1])
            byte == Typed(Bits(program.byteBits), [a \in Assign |-> a])
            value == Typed(Bits(program.byteBits), [a \in Assign |-> 1])
<1>1. /\ Calls /\ EmptiesMailbox
      /\ memory' = [memory EXCEPT ![cell] = byte] /\ shadow' = [shadow EXCEPT ![cell] = byte]
      /\ frame' = ReturnTo(frame, value, returned')
      /\ UNCHANGED <<stack, lossy>>
  BY DEF CallIntercepted
<1>2. lossy' \in BOOLEAN /\ (lossy => lossy')
  BY <1>1 DEF SymbolizerInv, RunInv
<1>3. frame # Null /\ RunInv' /\ PathInv' /\ Further
  BY <1>1, <1>2, CallsPath
<1>4. StackInv'
  BY <1>1, <1>3, StackKept
<1>5. input' \in Assign /\ follows' \subseteq Assign
  BY <1>3 DEF RunInv
<1>6. /\ byte.sort = "bits" /\ byte # Null
      /\ Right(input', follows', lossy', byte, byte)
  BY <1>5, TypedFields, Types DEF Right, Stands
<1>7. Right(input', follows', lossy', value, Null)
  BY <1>5, TypedFields DEF Right, Constant
<1>8. InstrOf(frame).dst # Null => returned' = Null
  BY <1>1 DEF EmptiesMailbox, Instr
<1>. HIDE DEF value, byte, cell
<1>9. MemoryInv'
  <2>1. memory = [c \in Addrs |-> memory[c]] /\ shadow = [c \in Addrs |-> shadow[c]]
    BY DEF SymbolizerInv, MemoryInv
  <2>2. /\ memory' = [c \in Addrs |-> IF c = cell THEN byte ELSE memory[c]]
        /\ shadow' = [c \in Addrs |-> IF c = cell THEN byte ELSE shadow[c]]
    BY <1>1, <2>1
  <2>3. memory' = [c \in Addrs |-> memory'[c]] /\ shadow' = [c \in Addrs |-> shadow'[c]]
    BY <2>2
  <2>4. ASSUME ~mistranslated', NEW c \in Addrs
        PROVE  memory'[c].sort = "bits" /\ Right(input', follows', lossy', memory'[c], shadow'[c])
    <3>1. memory[c].sort = "bits" /\ Right(input', follows', lossy', memory[c], shadow[c])
      BY <1>3, <2>4, RightMonotone DEF SymbolizerInv, MemoryInv, Further
    <3>. QED BY <1>6, <2>2, <3>1
  <2>. QED BY <2>3, <2>4 DEF MemoryInv
<1>10. FrameInv'
  <2>1. /\ FrameShape(frame)
        /\ ~mistranslated' => FrameRight(input', follows', lossy', frame)
    BY <1>3, FrameFurther
  <2>. QED BY <1>1, <1>5, <1>7, <1>8, <2>1, ReturnToRight DEF FrameInv
<1>. QED BY <1>3, <1>4, <1>9, <1>10 DEF SymbolizerInv

LEMMA ThrowStep ==
  ASSUME SymbolizerInv, Throw
  PROVE  SymbolizerInv'
<1>. DEFINE arg == Instr.args[1]
<1>1. /\ Calls /\ 1 \in DOMAIN Instr.args /\ Unwind(Value(arg))
      /\ Lose(Range(Instr.args)) /\ NoMemory
  BY DEF Throw
<1>2. lossy' \in BOOLEAN /\ (lossy => lossy') /\ RunInv /\ FrameInv
  BY <1>1 DEF SymbolizerInv, RunInv, Lose, Symbolic
<1>3. /\ frame # Null /\ Defined(Range(Instr.args))
      /\ RunInv' /\ PathInv' /\ Further
  BY <1>1, <1>2, CallsPath
<1>4. MemoryInv'
  BY <1>1, <1>3, MemoryKept
<1>5. arg \in Range(Instr.args)
  BY <1>1 DEF Range
<1>6. ASSUME ~mistranslated'
      PROVE  Right(input', follows', lossy', Value(arg), Null)
  <2>1. Constant(input, follows, lossy', Value(arg))
    BY <1>1, <1>2, <1>3, <1>5, <1>6, DroppedRight DEF Further
  <2>. QED BY <1>3, <2>1 DEF Right, Constant, Further
<1>7. FrameInv' /\ StackInv'
  BY <1>1, <1>3, <1>6, Unwound
<1>. QED BY <1>3, <1>4, <1>7 DEF SymbolizerInv

LEMMA ResumeStep ==
  ASSUME SymbolizerInv, Resume
  PROVE  SymbolizerInv'
<1>. DEFINE a == Instr.a
<1>1. /\ frame # Null /\ Defined({a}) /\ Unwind(Value(a)) /\ Lose({a})
      /\ NoConstraint /\ NoMemory /\ UNCHANGED <<input, mistranslated>>
  BY DEF Resume, At
<1>2. /\ RunInv /\ FrameInv /\ lossy' \in BOOLEAN /\ (lossy => lossy')
      /\ mistranslated' \in BOOLEAN
  BY <1>1 DEF SymbolizerInv, RunInv, Lose, Symbolic
<1>3. RunInv' /\ PathInv' /\ Further
  BY <1>1, <1>2, SamePath DEF SymbolizerInv, Further
<1>4. MemoryInv'
  BY <1>1, <1>3, MemoryKept
<1>5. ASSUME ~mistranslated'
      PROVE  Right(input', follows', lossy', Value(a), Null)
  <2>1. Constant(input, follows, lossy', Value(a))
    BY <1>1, <1>2, <1>5, DroppedRight
  <2>. QED BY <1>3, <2>1 DEF Right, Constant, Further
<1>6. FrameInv' /\ StackInv'
  BY <1>1, <1>3, <1>5, Unwound
<1>. QED BY <1>3, <1>4, <1>6 DEF SymbolizerInv

-------------------------------------------------------------------------------
(* Theorems.                                                                   *)

\* Before the first instruction nothing has a value.
LEMMA SymbolizerInvInit ==
  ASSUME Init
  PROVE  SymbolizerInv
<1>1. input \in Assign /\ follows = Assign /\ lossy = FALSE /\ mistranslated = FALSE
  BY DEF Init
<1>2. RunInv
  BY <1>1 DEF RunInv
<1>3. FrameShape(frame) /\ \A r \in Regs : frame.real[r] = NoValue
  BY DEF Init, FrameShape
<1>4. FrameInv
  BY <1>3 DEF FrameInv, FrameRight
<1>5. StackInv
  <2>1. stack = <<>> /\ <<>> \in Seq({}) /\ Len(<<>>) = 0
    BY DEF Init
  <2>2. \A j \in 1..Len(stack) : FALSE
    BY <2>1
  <2>. QED BY <2>1, <2>2 DEF StackInv
<1>6. MemoryInv
  <2>. DEFINE zero == Typed(Bits(program.byteBits), [a \in Assign |-> 0])
  <2>1. memory = [c \in Addrs |-> zero] /\ shadow = [c \in Addrs |-> Null]
    BY DEF Init
  <2>2. zero.sort = "bits" /\ \A a \in Assign : zero.val[a] = 0
    BY TypedFields, Types
  <2>. HIDE DEF zero
  <2>. QED BY <1>1, <2>1, <2>2 DEF MemoryInv, Right, Constant
<1>7. PathInv
  BY <1>1 DEF Init, PathInv, Satisfying
<1>. QED BY <1>2, <1>4, <1>5, <1>6, <1>7 DEF SymbolizerInv

\* Every instruction keeps the invariant.
LEMMA SymbolizerInvStep ==
  ASSUME SymbolizerInv, [Next]_vars
  PROVE  SymbolizerInv'
<1>1. CASE UNCHANGED vars
  BY <1>1 DEF vars, SymbolizerInv, RunInv, FrameInv, StackInv, MemoryInv, PathInv, Satisfying
<1>2. CASE Done
  BY <1>1, <1>2 DEF Done
<1>. QED
  BY <1>1, <1>2, BinaryStep, CmpStep, SelectStep, CastStep, ConcretizeStep, GepStep, LoadStep,
     StoreStep, ExtractStep, InsertStep, BranchStep, SwitchStep, IndirectBrStep, CallStep, ReturnStep,
     CallUninstrumentedStep, CallInterceptedStep, ThrowStep, ResumeStep DEF Next

\* At every instruction of every program all shadows, those of the callers included, are right
\* for the path so far: every handler of compiler_symbolizer.cpp keeps them so.
THEOREM SymbolizerInvHolds == Spec => []SymbolizerInv
<1>. QED BY SymbolizerInvInit, SymbolizerInvStep, PTL DEF Spec

\* The parts of the invariant say of each shadow what the properties say of all.
LEMMA ShadowOf ==
  ASSUME SymbolizerInv, ~mistranslated, NEW s \in Shadows
  PROVE  Right(input, follows, lossy, s[1], s[2])
<1>1. s \in UNION {ShadowsIn(f) : f \in Frames} \/ \E c \in Addrs : s = <<memory[c], shadow[c]>>
  BY DEF Shadows
<1>2. CASE \E c \in Addrs : s = <<memory[c], shadow[c]>>
  BY <1>2 DEF SymbolizerInv, MemoryInv
<1>3. CASE s \in UNION {ShadowsIn(f) : f \in Frames}
  <2>1. PICK f \in Frames : s \in ShadowsIn(f)
    BY <1>3
  <2>2. PICK r \in Regs : f.real[r] # NoValue /\ s = <<f.real[r], f.sym[r]>>
    BY <2>1 DEF ShadowsIn
  <2>3. FrameRight(input, follows, lossy, f)
    <3>1. CASE f = frame /\ frame # Null
      BY <3>1 DEF SymbolizerInv, FrameInv
    <3>2. CASE f \in Range(stack)
      BY <3>2 DEF Range, SymbolizerInv, StackInv
    <3>. QED BY <3>1, <3>2 DEF Frames
  <2>. QED BY <2>2, <2>3 DEF FrameRight
<1>. QED BY <1>1, <1>2, <1>3

\* The run under way agrees with everything that is recorded about it (ShadowsHold): no visitor
\* of the pass records a constraint or keeps an expression that the run contradicts, except by
\* the deviations that `mistranslated' names.
THEOREM ShadowsHoldAlways == Spec => []ShadowsHold
<1>1. SymbolizerInv => ShadowsHold
  BY ShadowOf DEF ShadowsHold, Right, Stands, SymbolizerInv, MemoryInv, PathInv
<1>. QED BY <1>1, SymbolizerInvHolds, PTL

\* As long as no expression is dropped the path constraints describe the path exactly
\* (PathExact): whoever solves them with one negated leaves the path at that branch.
THEOREM PathExactAlways == Spec => []PathExact
<1>1. SymbolizerInv => PathExact
  BY ShadowOf DEF PathExact, Right, Stands, Constant, SymbolizerInv, PathInv
<1>. QED BY <1>1, SymbolizerInvHolds, PTL
===============================================================================
