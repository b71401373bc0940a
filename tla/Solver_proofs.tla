----------------------------- MODULE Solver_proofs -----------------------------
(***************************************************************************)
(* Theorems about Solver, for every set of programs over every input, every *)
(* width of values, and whether or not Z3 gives up.                        *)
(***************************************************************************)
EXTENDS Solver, TLAPS

-------------------------------------------------------------------------------
(* Values and comparisons.                                                     *)

LEMMA WrapTyped ==
  ASSUME NEW n \in Int, -W < n, n < 2 * W
  PROVE  Wrap(n) \in Value
  BY SolverAssumption DEF Wrap, Value

LEMMA ProgramTyped ==
  ASSUME program \in Programs
  PROVE  /\ program.inputs \in Assign
         /\ program.value \in [Expr -> [Assign -> Value]]
         /\ program.deps \in [Expr -> SUBSET Byte]
         /\ program.events \in Seq(Event)
         /\ program.skip_query \in BOOLEAN
  BY SolverProgramsAssumption DEF ProgramType

LEMMA TermTyped ==
  ASSUME program \in Programs, NEW t \in Term, NEW a \in Assign
  PROVE  TermValue(t, a) \in Value /\ TermDeps(t) \subseteq Byte
<1>1. t.expr \in Expr /\ t.const \in Value /\ t.op \in {"const", "sym", "add", "sub"}
  BY DEF Term
<1>2. program.value[t.expr][a] \in Value /\ program.deps[t.expr] \subseteq Byte
  BY <1>1, ProgramTyped
<1>3. /\ Wrap(t.const + program.value[t.expr][a]) \in Value
      /\ Wrap(t.const - program.value[t.expr][a]) \in Value
  BY <1>1, <1>2, SolverAssumption DEF Wrap, Value
<1>4. TermValue(t, a) \in Value
  BY <1>1, <1>2, <1>3 DEF TermValue
<1>5. TermDeps(t) \subseteq Byte
  BY <1>2 DEF TermDeps
<1>6. QED BY <1>4, <1>5

LEMMA SignedTyped ==
  ASSUME NEW v \in Value
  PROVE  v \in Int /\ Signed(v) \in Int
  BY SolverAssumption DEF Value, Signed

LEMMA CompareTyped ==
  ASSUME NEW kind \in Kind, NEW u, NEW v
  PROVE  Compare(kind, u, v) \in BOOLEAN
<1>1. Compare("Equal", u, v) \in BOOLEAN
  BY DEF Compare
<1>2. Compare("Distinct", u, v) \in BOOLEAN
  BY DEF Compare
<1>3. Compare("Ult", u, v) \in BOOLEAN
  BY DEF Compare
<1>4. Compare("Ule", u, v) \in BOOLEAN
  BY DEF Compare
<1>5. Compare("Ugt", u, v) \in BOOLEAN
  BY DEF Compare
<1>6. Compare("Uge", u, v) \in BOOLEAN
  BY DEF Compare
<1>7. Compare("Slt", u, v) \in BOOLEAN
  BY DEF Compare
<1>8. Compare("Sle", u, v) \in BOOLEAN
  BY DEF Compare
<1>9. Compare("Sgt", u, v) \in BOOLEAN
  BY DEF Compare
<1>10. Compare("Sge", u, v) \in BOOLEAN
  BY DEF Compare
<1>11. QED BY <1>1, <1>2, <1>3, <1>4, <1>5, <1>6, <1>7, <1>8, <1>9, <1>10 DEF Kind

\* The negated comparison holds exactly when the comparison does not.
LEMMA NegateCorrect ==
  ASSUME NEW kind \in Kind, NEW u \in Value, NEW v \in Value
  PROVE  /\ negateKind(kind) \in Kind
         /\ Compare(negateKind(kind), u, v) <=> ~Compare(kind, u, v)
<1>1. u \in Int /\ v \in Int /\ Signed(u) \in Int /\ Signed(v) \in Int
  BY SignedTyped
<1>2. CASE kind = "Equal"
  <2>1. negateKind(kind) = "Distinct"
    BY <1>2 DEF negateKind
  <2>2. Compare("Distinct", u, v) <=> ~Compare("Equal", u, v)
    BY <1>1 DEF Compare
  <2>3. QED BY <1>2, <2>1, <2>2 DEF Kind
<1>3. CASE kind = "Distinct"
  <2>1. negateKind(kind) = "Equal"
    BY <1>3 DEF negateKind
  <2>2. Compare("Equal", u, v) <=> ~Compare("Distinct", u, v)
    BY <1>1 DEF Compare
  <2>3. QED BY <1>3, <2>1, <2>2 DEF Kind
<1>4. CASE kind = "Ult"
  <2>1. negateKind(kind) = "Uge"
    BY <1>4 DEF negateKind
  <2>2. Compare("Uge", u, v) <=> ~Compare("Ult", u, v)
    BY <1>1 DEF Compare
  <2>3. QED BY <1>4, <2>1, <2>2 DEF Kind
<1>5. CASE kind = "Ule"
  <2>1. negateKind(kind) = "Ugt"
    BY <1>5 DEF negateKind
  <2>2. Compare("Ugt", u, v) <=> ~Compare("Ule", u, v)
    BY <1>1 DEF Compare
  <2>3. QED BY <1>5, <2>1, <2>2 DEF Kind
<1>6. CASE kind = "Ugt"
  <2>1. negateKind(kind) = "Ule"
    BY <1>6 DEF negateKind
  <2>2. Compare("Ule", u, v) <=> ~Compare("Ugt", u, v)
    BY <1>1 DEF Compare
  <2>3. QED BY <1>6, <2>1, <2>2 DEF Kind
<1>7. CASE kind = "Uge"
  <2>1. negateKind(kind) = "Ult"
    BY <1>7 DEF negateKind
  <2>2. Compare("Ult", u, v) <=> ~Compare("Uge", u, v)
    BY <1>1 DEF Compare
  <2>3. QED BY <1>7, <2>1, <2>2 DEF Kind
<1>8. CASE kind = "Slt"
  <2>1. negateKind(kind) = "Sge"
    BY <1>8 DEF negateKind
  <2>2. Compare("Sge", u, v) <=> ~Compare("Slt", u, v)
    BY <1>1 DEF Compare
  <2>3. QED BY <1>8, <2>1, <2>2 DEF Kind
<1>9. CASE kind = "Sle"
  <2>1. negateKind(kind) = "Sgt"
    BY <1>9 DEF negateKind
  <2>2. Compare("Sgt", u, v) <=> ~Compare("Sle", u, v)
    BY <1>1 DEF Compare
  <2>3. QED BY <1>9, <2>1, <2>2 DEF Kind
<1>10. CASE kind = "Sgt"
  <2>1. negateKind(kind) = "Sle"
    BY <1>10 DEF negateKind
  <2>2. Compare("Sle", u, v) <=> ~Compare("Sgt", u, v)
    BY <1>1 DEF Compare
  <2>3. QED BY <1>10, <2>1, <2>2 DEF Kind
<1>11. CASE kind = "Sge"
  <2>1. negateKind(kind) = "Slt"
    BY <1>11 DEF negateKind
  <2>2. Compare("Slt", u, v) <=> ~Compare("Sge", u, v)
    BY <1>1 DEF Compare
  <2>3. QED BY <1>11, <2>1, <2>2 DEF Kind
<1>12. QED BY <1>2, <1>3, <1>4, <1>5, <1>6, <1>7, <1>8, <1>9, <1>10, <1>11 DEF Kind

\* The swapped comparison compares the other way round.
LEMMA SwapCorrect ==
  ASSUME NEW kind \in Kind, NEW u \in Value, NEW v \in Value
  PROVE  swapKind(kind) \in Kind /\ Compare(swapKind(kind), u, v) = Compare(kind, v, u)
<1>1. u \in Int /\ v \in Int /\ Signed(u) \in Int /\ Signed(v) \in Int
  BY SignedTyped
<1>2. CASE kind = "Equal"
  <2>1. swapKind(kind) = "Equal"
    BY <1>2 DEF swapKind
  <2>2. Compare("Equal", u, v) = Compare("Equal", v, u)
    BY <1>1 DEF Compare
  <2>3. QED BY <1>2, <2>1, <2>2 DEF Kind
<1>3. CASE kind = "Distinct"
  <2>1. swapKind(kind) = "Distinct"
    BY <1>3 DEF swapKind
  <2>2. Compare("Distinct", u, v) = Compare("Distinct", v, u)
    BY <1>1 DEF Compare
  <2>3. QED BY <1>3, <2>1, <2>2 DEF Kind
<1>4. CASE kind = "Ult"
  <2>1. swapKind(kind) = "Ugt"
    BY <1>4 DEF swapKind
  <2>2. Compare("Ugt", u, v) = Compare("Ult", v, u)
    BY <1>1 DEF Compare
  <2>3. QED BY <1>4, <2>1, <2>2 DEF Kind
<1>5. CASE kind = "Ule"
  <2>1. swapKind(kind) = "Uge"
    BY <1>5 DEF swapKind
  <2>2. Compare("Uge", u, v) = Compare("Ule", v, u)
    BY <1>1 DEF Compare
  <2>3. QED BY <1>5, <2>1, <2>2 DEF Kind
<1>6. CASE kind = "Ugt"
  <2>1. swapKind(kind) = "Ult"
    BY <1>6 DEF swapKind
  <2>2. Compare("Ult", u, v) = Compare("Ugt", v, u)
    BY <1>1 DEF Compare
  <2>3. QED BY <1>6, <2>1, <2>2 DEF Kind
<1>7. CASE kind = "Uge"
  <2>1. swapKind(kind) = "Ule"
    BY <1>7 DEF swapKind
  <2>2. Compare("Ule", u, v) = Compare("Uge", v, u)
    BY <1>1 DEF Compare
  <2>3. QED BY <1>7, <2>1, <2>2 DEF Kind
<1>8. CASE kind = "Slt"
  <2>1. swapKind(kind) = "Sgt"
    BY <1>8 DEF swapKind
  <2>2. Compare("Sgt", u, v) = Compare("Slt", v, u)
    BY <1>1 DEF Compare
  <2>3. QED BY <1>8, <2>1, <2>2 DEF Kind
<1>9. CASE kind = "Sle"
  <2>1. swapKind(kind) = "Sge"
    BY <1>9 DEF swapKind
  <2>2. Compare("Sge", u, v) = Compare("Sle", v, u)
    BY <1>1 DEF Compare
  <2>3. QED BY <1>9, <2>1, <2>2 DEF Kind
<1>10. CASE kind = "Sgt"
  <2>1. swapKind(kind) = "Slt"
    BY <1>10 DEF swapKind
  <2>2. Compare("Slt", u, v) = Compare("Sgt", v, u)
    BY <1>1 DEF Compare
  <2>3. QED BY <1>10, <2>1, <2>2 DEF Kind
<1>11. CASE kind = "Sge"
  <2>1. swapKind(kind) = "Sle"
    BY <1>11 DEF swapKind
  <2>2. Compare("Sle", u, v) = Compare("Sge", v, u)
    BY <1>1 DEF Compare
  <2>3. QED BY <1>11, <2>1, <2>2 DEF Kind
<1>12. QED BY <1>2, <1>3, <1>4, <1>5, <1>6, <1>7, <1>8, <1>9, <1>10, <1>11 DEF Kind

LEMMA TruthTyped ==
  ASSUME program \in Programs, NEW c \in Condition, NEW a \in Assign
  PROVE  Truth(c, a) \in BOOLEAN /\ CondDeps(c) \subseteq Byte
<1>1. c.kind \in Kind /\ c.left \in Term /\ c.right \in Term
  BY DEF Condition
<1>2. QED BY <1>1, TermTyped, CompareTyped DEF Truth, CondDeps

\* A term, and a condition, depends on its bytes only.
LEMMA TermDepends ==
  ASSUME program \in Programs, NEW t \in Term, NEW a \in Assign, NEW b \in Assign,
         \A i \in TermDeps(t) : a[i] = b[i]
  PROVE  TermValue(t, a) = TermValue(t, b)
<1>1. t.expr \in Expr /\ t.op \in {"const", "sym", "add", "sub"}
  BY DEF Term
<1>2. CASE t.op = "const"
  BY <1>2 DEF TermValue
<1>3. CASE t.op # "const"
  <2>1. TermDeps(t) = program.deps[t.expr]
    BY <1>3 DEF TermDeps, IsSymbolic
  <2>2. program.value[t.expr][a] = program.value[t.expr][b]
    BY <1>1, <2>1, SolverDepsAssumption DEF DepsSound
  <2>3. QED BY <1>1, <1>3, <2>2 DEF TermValue
<1>4. QED BY <1>2, <1>3

LEMMA CondDepends ==
  ASSUME program \in Programs, NEW c \in Condition, NEW a \in Assign, NEW b \in Assign,
         \A i \in CondDeps(c) : a[i] = b[i]
  PROVE  Truth(c, a) = Truth(c, b)
<1>1. c.left \in Term /\ c.right \in Term
  BY DEF Condition
<1>2. TermValue(c.left, a) = TermValue(c.left, b) /\ TermValue(c.right, a) = TermValue(c.right, b)
  BY <1>1, TermDepends DEF CondDeps
<1>3. QED BY <1>2 DEF Truth

-------------------------------------------------------------------------------
(* What a condition on one expression and a constant says of a range.          *)

Narrowing(c) == [expr |-> SymOf(c).expr, neg |-> SymOf(c).op = "sub"]
Adjustment(c) == IF SymOf(c).op = "sym" THEN 0 ELSE SymOf(c).const

LEMMA SymTyped ==
  ASSUME NEW c \in Condition, isConstSym(c)
  PROVE  /\ SymOf(c) \in Term /\ IsSymbolic(SymOf(c))
         /\ ConstOf(c) \in Value
         /\ Narrowing(c) \in Canonical
         /\ Adjustment(c) \in Value
<1>1. c.left \in Term /\ c.right \in Term
  BY DEF Condition
<1>2. SymOf(c) \in Term /\ IsSymbolic(SymOf(c))
  BY <1>1 DEF isConstSym, SymOf, IsSymbolic
<1>3. ConstOf(c) \in Value
  BY <1>1 DEF ConstOf, Term
<1>4. Narrowing(c) \in Canonical
  BY <1>2 DEF Narrowing, Canonical, Term
<1>5. Adjustment(c) \in Value
  BY <1>2, SolverAssumption DEF Adjustment, Term, Value
<1>6. QED BY <1>2, <1>3, <1>4, <1>5

LEMMA CanonicalTyped ==
  ASSUME program \in Programs, NEW x \in Canonical, NEW a \in Assign
  PROVE  CanonicalValue(x, a) \in Value /\ program.deps[x.expr] \subseteq Byte
<1>1. x.expr \in Expr /\ x.neg \in BOOLEAN
  BY DEF Canonical
<1>2. program.value[x.expr][a] \in Value /\ program.deps[x.expr] \subseteq Byte
  BY <1>1, ProgramTyped
<1>3. Wrap(0 - program.value[x.expr][a]) \in Value
  BY <1>2, SolverAssumption DEF Wrap, Value
<1>4. QED BY <1>1, <1>2, <1>3 DEF CanonicalValue

\* The adjusted value of the canonical expression is that of the term.
LEMMA Adjusted ==
  ASSUME program \in Programs, NEW c \in Condition, isConstSym(c), NEW a \in Assign
  PROVE  Wrap(Adjustment(c) + CanonicalValue(Narrowing(c), a)) = TermValue(SymOf(c), a)
<1> DEFINE t == SymOf(c)
           v == program.value[t.expr][a]
<1>1. t \in Term /\ t.op \in {"sym", "add", "sub"} /\ t.expr \in Expr /\ t.const \in Value
  BY SymTyped DEF IsSymbolic, Term
<1>2. v \in Value
  BY <1>1, ProgramTyped
<1>3. CASE t.op = "sym"
  <2>1. Wrap(0 + v) = v
    BY <1>2, SolverAssumption DEF Wrap, Value
  <2>2. QED BY <1>3, <2>1 DEF Adjustment, Narrowing, CanonicalValue, TermValue
<1>4. CASE t.op = "add"
  BY <1>4 DEF Adjustment, Narrowing, CanonicalValue, TermValue
<1>5. CASE t.op = "sub"
  <2>1. Wrap(t.const + Wrap(0 - v)) = Wrap(t.const - v)
    BY <1>1, <1>2, SolverAssumption DEF Wrap, Value
  <2>2. QED BY <1>5, <2>1 DEF Adjustment, Narrowing, CanonicalValue, TermValue
<1>6. QED BY <1>1, <1>3, <1>4, <1>5

\* A range keeps the values for which the condition has the outcome recorded.
LEMMA RangeCorrect ==
  ASSUME program \in Programs, NEW c \in Condition, isConstSym(c), NEW taken \in BOOLEAN,
         NEW a \in Assign
  PROVE  Compare(RangeKind(c, taken), Wrap(Adjustment(c) + CanonicalValue(Narrowing(c), a)), ConstOf(c))
           = (Truth(c, a) = taken)
<1> DEFINE kind == IF IsSymbolic(c.left) THEN c.kind ELSE swapKind(c.kind)
           u == TermValue(SymOf(c), a)
           v == ConstOf(c)
<1>1. c.kind \in Kind /\ c.left \in Term /\ c.right \in Term
  BY DEF Condition
<1>2. u \in Value /\ v \in Value
  BY SymTyped, TermTyped
<1>3. kind \in Kind /\ Compare(kind, u, v) = Truth(c, a)
  <2>1. CASE IsSymbolic(c.left)
    <3>1. c.right.op = "const"
      BY <2>1 DEF isConstSym, IsSymbolic
    <3>2. SymOf(c) = c.left /\ v = TermValue(c.right, a)
      BY <2>1, <3>1 DEF SymOf, ConstOf, TermValue
    <3>3. QED BY <1>1, <2>1, <3>2 DEF Truth
  <2>2. CASE ~IsSymbolic(c.left)
    <3>1. c.left.op = "const"
      BY <2>2 DEF IsSymbolic
    <3>2. SymOf(c) = c.right /\ v = TermValue(c.left, a)
      BY <2>2, <3>1 DEF SymOf, ConstOf, TermValue
    <3>3. swapKind(c.kind) \in Kind /\ Compare(swapKind(c.kind), u, v) = Compare(c.kind, v, u)
      BY <1>1, <1>2, SwapCorrect
    <3>4. QED BY <2>2, <3>2, <3>3 DEF Truth
  <2>3. QED BY <2>1, <2>2
<1>4. Truth(c, a) \in BOOLEAN
  BY TruthTyped
<1>5. Compare(RangeKind(c, taken), u, v) = (Truth(c, a) = taken)
  <2>1. CASE taken
    <3>1. RangeKind(c, taken) = kind
      BY <2>1 DEF RangeKind
    <3>2. QED BY <1>3, <1>4, <2>1, <3>1
  <2>2. CASE ~taken
    <3>1. RangeKind(c, taken) = negateKind(kind)
      BY <2>2 DEF RangeKind
    <3>2. negateKind(kind) \in Kind /\ (Compare(negateKind(kind), u, v) <=> ~Compare(kind, u, v))
      BY <1>2, <1>3, NegateCorrect
    <3>3. Compare(negateKind(kind), u, v) \in BOOLEAN
      BY <3>2, CompareTyped
    <3>4. QED BY <1>3, <1>4, <2>2, <3>1, <3>2, <3>3
  <2>3. QED BY <2>1, <2>2
<1>6. QED BY <1>5, Adjusted

-------------------------------------------------------------------------------
(* Calls and nodes.                                                            *)

LEMMA CallTyped ==
  ASSUME program \in Programs, NEW j \in DOMAIN program.events
  PROVE  /\ Call(j) \in Event /\ Call(j).cond \in Condition
         /\ Call(j).cond.left \in Term
         /\ CallDeps(j) \subseteq Byte
<1>1. Call(j) \in Event
  BY ProgramTyped DEF Call
<1>2. Call(j).cond \in Condition /\ Call(j).cond.left \in Term
  BY <1>1 DEF Event, Condition
<1>3. CallDeps(j) = CondDeps(Call(j).cond) \/ CallDeps(j) = TermDeps(Call(j).cond.left)
  BY DEF CallDeps, Call
<1>4. inputs \in Assign
  BY ProgramTyped DEF inputs
<1>5. CondDeps(Call(j).cond) \subseteq Byte /\ TermDeps(Call(j).cond.left) \subseteq Byte
  BY <1>2, <1>4, TermTyped, TruthTyped
<1>6. QED BY <1>1, <1>2, <1>3, <1>5

\* Two inputs that agree on the bytes of a call behave the same there.
LEMMA SameDepends ==
  ASSUME program \in Programs, NEW j \in DOMAIN program.events,
         NEW a \in Assign, NEW b \in Assign, \A i \in CallDeps(j) : a[i] = b[i]
  PROVE  Same(j, a) <=> Same(j, b)
<1>1. Call(j).cond \in Condition /\ Call(j).cond.left \in Term
  BY CallTyped
<1>2. CASE Call(j).call = "addJcc"
  <2>1. \A i \in CondDeps(Call(j).cond) : a[i] = b[i]
    BY <1>2 DEF CallDeps, Call
  <2>2. Truth(Call(j).cond, a) = Truth(Call(j).cond, b)
    BY <1>1, <2>1, CondDepends
  <2>3. QED BY <1>2, <2>2 DEF Same
<1>3. CASE Call(j).call # "addJcc"
  <2>1. \A i \in TermDeps(Call(j).cond.left) : a[i] = b[i]
    BY <1>3 DEF CallDeps, Call
  <2>2. TermValue(Call(j).cond.left, a) = TermValue(Call(j).cond.left, b)
    BY <1>1, <2>1, TermDepends
  <2>3. QED BY <1>3, <2>2 DEF Same
<1>4. QED BY <1>2, <1>3

LEMMA NodeTyped ==
  ASSUME program \in Programs, NEW n \in Node
  PROVE  NodeDeps(n) \subseteq Byte
<1>1. inputs \in Assign
  BY ProgramTyped DEF inputs
<1>2. CASE n.range
  BY <1>1, <1>2, CanonicalTyped DEF NodeDeps, Node
<1>3. CASE ~n.range
  BY <1>1, <1>3, TruthTyped DEF NodeDeps, Node
<1>4. QED BY <1>2, <1>3

\* Whether a node holds depends on its bytes only.
LEMMA NodeDepends ==
  ASSUME program \in Programs, NEW n \in Node, NEW a \in Assign, NEW b \in Assign,
         \A i \in NodeDeps(n) : a[i] = b[i]
  PROVE  NodeHolds(n, a) <=> NodeHolds(n, b)
<1>1. CASE n.range
  <2>1. n.canonical \in Canonical /\ NodeDeps(n) = program.deps[n.canonical.expr]
    BY <1>1 DEF Node, NodeDeps
  <2>2. n.canonical.expr \in Expr
    BY <2>1 DEF Canonical
  <2>3. program.value[n.canonical.expr][a] = program.value[n.canonical.expr][b]
    BY <2>1, <2>2, SolverDepsAssumption DEF DepsSound
  <2>4. QED BY <1>1, <2>3 DEF NodeHolds, CanonicalValue
<1>2. CASE ~n.range
  <2>1. n.cond \in Condition /\ NodeDeps(n) = CondDeps(n.cond)
    BY <1>2 DEF Node, NodeDeps
  <2>2. Truth(n.cond, a) = Truth(n.cond, b)
    BY <2>1, CondDepends
  <2>3. QED BY <1>2, <2>2 DEF NodeHolds
<1>3. QED BY <1>1, <1>2

-------------------------------------------------------------------------------
(* Recording a condition.                                                      *)

Covered == \A i \in Byte : \E t \in forest : i \in t.deps
Disjoint == \A s, t \in forest : s.deps \cap t.deps # {} => s = t
Inside == \A t \in forest : \A n \in t.nodes : NodeDeps(n) \subseteq t.deps
Tree == [deps : SUBSET Byte, nodes : SUBSET Node]

\* The trees that share a byte with the new node are merged with it.
LEMMA AddNodeForest ==
  ASSUME program \in Programs, forest \subseteq Tree, Covered, Disjoint, Inside,
         NEW n \in Node, AddNode(n)
  PROVE  /\ forest' \subseteq Tree
         /\ \A i \in Byte : \E t \in forest' : i \in t.deps
         /\ \A s, t \in forest' : s.deps \cap t.deps # {} => s = t
         /\ \A t \in forest' : \A m \in t.nodes : NodeDeps(m) \subseteq t.deps
         /\ NodesOf(forest') = NodesOf(forest) \cup (IF NodeDeps(n) = {} THEN {} ELSE {n})
<1>1. CASE NodeDeps(n) = {}
  BY <1>1 DEF AddNode, Covered, Disjoint, Inside
<1>2. CASE NodeDeps(n) # {}
  <2> DEFINE touched == Touched(NodeDeps(n))
             tree == [deps |-> UNION {t.deps : t \in touched}, nodes |-> NodesOf(touched) \cup {n}]
  <2>1. forest' = (forest \ touched) \cup {tree}
    BY <1>2 DEF AddNode
  <2>2. touched = {t \in forest : t.deps \cap NodeDeps(n) # {}}
    BY DEF Touched
  <2>3. tree \in Tree
    BY <2>2 DEF Tree, NodesOf
  <2>4. /\ \A i : i \in tree.deps <=> \E t \in touched : i \in t.deps
        /\ \A m : m \in tree.nodes <=> m = n \/ \E t \in touched : m \in t.nodes
    BY DEF NodesOf
  <2> HIDE DEF tree, touched
  <2>5. NodeDeps(n) \subseteq tree.deps
    <3> SUFFICES ASSUME NEW i \in NodeDeps(n)
                 PROVE  i \in tree.deps
      OBVIOUS
    <3>1. PICK t \in forest : i \in t.deps
      BY NodeTyped DEF Covered
    <3>2. QED BY <2>2, <2>4, <3>1
  <2>6. \A i \in Byte : \E t \in forest' : i \in t.deps
    BY <2>1, <2>4 DEF Covered
  <2>7. \A s \in forest \ touched : s.deps \cap tree.deps = {}
    BY <2>2, <2>4 DEF Disjoint
  <2>8. \A s, t \in forest' : s.deps \cap t.deps # {} => s = t
    BY <2>1, <2>7 DEF Disjoint
  <2>9. \A t \in forest' : \A m \in t.nodes : NodeDeps(m) \subseteq t.deps
    BY <2>1, <2>2, <2>4, <2>5 DEF Inside
  <2>10. NodesOf(forest') = NodesOf(forest) \cup {n}
    BY <2>1, <2>2, <2>4 DEF NodesOf
  <2>11. QED BY <1>2, <2>1, <2>3, <2>6, <2>8, <2>9, <2>10
<1>3. QED BY <1>1, <1>2

\* The node that stands for a condition.
NodeOf(c, taken) == IF isConstSym(c) THEN Ranged(Narrowing(c)) ELSE Relational(c, taken)

LEMMA RecordNode ==
  ASSUME program \in Programs, program' = program, ranges \in [Canonical -> SUBSET Value],
         NEW c \in Condition, NEW taken \in BOOLEAN, Record(c, taken)
  PROVE  /\ AddNode(NodeOf(c, taken))
         /\ NodeOf(c, taken) \in Node
         /\ NodeDeps(NodeOf(c, taken)) = CondDeps(c)
         /\ ranges' \in [Canonical -> SUBSET Value]
         /\ \A x \in Canonical : ranges'[x] \subseteq ranges[x]
         /\ \A x \in Canonical : \A a \in Assign :
              CanonicalValue(x, a) \in ranges[x] /\ Truth(c, a) = taken =>
                CanonicalValue(x, a) \in ranges'[x]
         /\ \A a \in Assign : NodeHolds(NodeOf(c, taken), a)' => Truth(c, a) = taken
<1>1. CASE isConstSym(c)
  <2> DEFINE x == Narrowing(c)
             Keeps(v) == Compare(RangeKind(c, taken), Wrap(Adjustment(c) + v), ConstOf(c))
  <2>1. x \in Canonical /\ SymOf(c) \in Term /\ IsSymbolic(SymOf(c))
    BY <1>1, SymTyped
  <2>2. ranges' = [ranges EXCEPT ![x] = {v \in @ : Keeps(v)}] /\ AddNode(Ranged(x))
    BY <1>1 DEF Record, Narrowing, Adjustment
  <2>3. NodeOf(c, taken) = Ranged(x) /\ Ranged(x) \in Node
    BY <1>1, <2>1 DEF NodeOf, Ranged, Node
  <2>4. NodeDeps(NodeOf(c, taken)) = CondDeps(c)
    <3>1. NodeDeps(Ranged(x)) = TermDeps(SymOf(c))
      BY <2>1 DEF NodeDeps, Ranged, Narrowing, TermDeps
    <3>2. CondDeps(c) = TermDeps(SymOf(c))
      BY <1>1 DEF CondDeps, TermDeps, isConstSym, SymOf, IsSymbolic
    <3>3. QED BY <2>3, <3>1, <3>2
  <2>5. \A a \in Assign : Keeps(CanonicalValue(x, a)) = (Truth(c, a) = taken)
    BY <1>1, RangeCorrect
  <2>6. \A y \in Canonical : ranges'[y] = IF y = x THEN {v \in ranges[y] : Keeps(v)} ELSE ranges[y]
    BY <2>2
  <2>7. ranges' \in [Canonical -> SUBSET Value]
    BY <2>1, <2>2
  <2>8. ASSUME NEW a \in Assign, NodeHolds(Ranged(x), a)'
        PROVE  Truth(c, a) = taken
    <3>1. CanonicalValue(x, a)' \in ranges'[x]
      BY <2>8 DEF NodeHolds, Ranged
    <3>2. CanonicalValue(x, a)' = CanonicalValue(x, a)
      BY DEF CanonicalValue
    <3>3. Keeps(CanonicalValue(x, a))
      BY <2>1, <2>6, <3>1, <3>2
    <3>4. QED BY <2>5, <3>3
  <2> HIDE DEF Keeps, x
  <2>9. QED BY <2>2, <2>3, <2>4, <2>5, <2>6, <2>7, <2>8
<1>2. CASE ~isConstSym(c)
  <2>1. NodeOf(c, taken) = Relational(c, taken) /\ ranges' = ranges /\ AddNode(Relational(c, taken))
    BY <1>2 DEF NodeOf, Record
  <2>2. Relational(c, taken) \in Node /\ NodeDeps(Relational(c, taken)) = CondDeps(c)
    BY DEF Relational, Node, NodeDeps
  <2>3. \A a \in Assign : NodeHolds(Relational(c, taken), a)' => Truth(c, a) = taken
    BY DEF NodeHolds, Relational, Truth, TermValue
  <2>4. QED BY <2>1, <2>2, <2>3
<1>3. QED BY <1>1, <1>2

\* The forest of the invariant.
LEMMA ForestParts ==
  ASSUME program \in Programs
  PROVE  ForestInv <=> /\ Covered /\ Disjoint /\ Inside
                       /\ \A x \in Canonical : CanonicalValue(x, inputs) \in ranges[x]
                       /\ \A n \in NodesOf(forest) : NodeHolds(n, inputs)
  BY DEF ForestInv, Covered, Disjoint, Inside, NodesOf

\* Recording what the run did at a call, as a condition that says just that.
LEMMA RecordStep ==
  ASSUME TypeOK, ForestInv, PathInv, program' = program, k \in DOMAIN program.events,
         NEW c \in Condition, NEW taken \in BOOLEAN, Record(c, taken),
         k' = k + 1, dropped' = dropped,
         CondDeps(c) = CallDeps(k),
         \A a \in Assign : Truth(c, a) = taken <=> Same(k, a)
  PROVE  /\ ForestInv' /\ PathInv'
         /\ forest' \subseteq Tree
         /\ ranges' \in [Canonical -> SUBSET Value]
<1> DEFINE n == NodeOf(c, taken)
<1>1. program \in Programs /\ ranges \in [Canonical -> SUBSET Value] /\ forest \subseteq Tree
  BY DEF TypeOK, Tree
<1>2. /\ Covered /\ Disjoint /\ Inside
      /\ \A x \in Canonical : CanonicalValue(x, inputs) \in ranges[x]
      /\ \A m \in NodesOf(forest) : NodeHolds(m, inputs)
  BY <1>1, ForestParts
<1>3. /\ AddNode(n) /\ n \in Node /\ NodeDeps(n) = CondDeps(c)
      /\ ranges' \in [Canonical -> SUBSET Value]
      /\ \A x \in Canonical : ranges'[x] \subseteq ranges[x]
      /\ \A x \in Canonical : \A a \in Assign :
           CanonicalValue(x, a) \in ranges[x] /\ Truth(c, a) = taken =>
             CanonicalValue(x, a) \in ranges'[x]
      /\ \A a \in Assign : NodeHolds(n, a)' => Truth(c, a) = taken
  BY <1>1, RecordNode
<1>4. /\ forest' \subseteq Tree
      /\ \A i \in Byte : \E t \in forest' : i \in t.deps
      /\ \A s, t \in forest' : s.deps \cap t.deps # {} => s = t
      /\ \A t \in forest' : \A m \in t.nodes : NodeDeps(m) \subseteq t.deps
      /\ NodesOf(forest') = NodesOf(forest) \cup (IF NodeDeps(n) = {} THEN {} ELSE {n})
  BY <1>1, <1>2, <1>3, AddNodeForest
<1>5. NodesOf(forest) \subseteq Node
  BY <1>1 DEF NodesOf, Tree
<1>6. inputs \in Assign /\ inputs' = inputs
  BY <1>1, ProgramTyped DEF inputs
<1>7. /\ \A x, a : CanonicalValue(x, a)' = CanonicalValue(x, a)
      /\ \A m : NodeDeps(m)' = NodeDeps(m)
      /\ \A m, a : Truth(m, a)' = Truth(m, a)
      /\ \A j, a : Same(j, a)' = Same(j, a)
  BY DEF CanonicalValue, NodeDeps, CondDeps, TermDeps, Truth, TermValue, Same, Call, inputs
<1>8. \A m \in Node : \A a \in Assign : NodeHolds(m, a)' => NodeHolds(m, a)
  BY <1>3, <1>7 DEF NodeHolds, Node
<1>9. Truth(c, inputs) = taken
  BY <1>6 DEF Same
<1>10. \A x \in Canonical : CanonicalValue(x, inputs) \in ranges'[x]
  BY <1>2, <1>3, <1>6, <1>9
<1>11. \A m \in Node : NodeHolds(m, inputs) => NodeHolds(m, inputs)'
  BY <1>3, <1>6, <1>7, <1>10 DEF NodeHolds, Node
<1>12. NodeHolds(n, inputs)'
  <2>1. CASE n.range
    BY <1>3, <1>6, <1>7, <1>10, <2>1 DEF NodeHolds, Node
  <2>2. CASE ~n.range
    BY <1>6, <1>7, <1>9, <2>2 DEF NodeHolds, NodeOf, Ranged, Relational
  <2>3. QED BY <2>1, <2>2
<1> HIDE DEF n
<1>13. ForestInv'
  <2>1. \A m \in NodesOf(forest') : NodeHolds(m, inputs)'
    BY <1>2, <1>4, <1>5, <1>11, <1>12
  <2>2. \A t \in forest' : \A m \in t.nodes : m \in NodesOf(forest')
    BY DEF NodesOf
  <2>3. \A t \in forest' : \A m \in t.nodes : NodeDeps(m)' \subseteq t.deps /\ NodeHolds(m, inputs)'
    BY <1>4, <1>7, <2>1, <2>2
  <2>4. \A x \in Canonical : CanonicalValue(x, inputs)' \in ranges'[x]
    BY <1>6, <1>7, <1>10 DEF CanonicalValue
  <2>5. QED BY <1>4, <1>6, <2>3, <2>4 DEF ForestInv
<1>14. PathInv'
  <2> SUFFICES ASSUME NEW a \in Assign, \A m \in NodesOf(forest') : NodeHolds(m, a)'
               PROVE  Follows(k, a)'
    BY DEF PathInv
  <2>1. \A m \in NodesOf(forest) : NodeHolds(m, a)
    BY <1>4, <1>5, <1>8
  <2>2. Follows(k, a)
    BY <2>1 DEF PathInv
  <2>3. Same(k, a)
    <3>1. CASE NodeDeps(n) # {}
      BY <1>3, <1>4, <3>1
    <3>2. CASE NodeDeps(n) = {}
      <4>1. CallDeps(k) = {}
        BY <1>3, <3>2
      <4>2. Same(k, a) <=> Same(k, inputs)
        BY <1>1, <1>6, <4>1, SameDepends
      <4>3. QED BY <1>6, <4>2 DEF Same
    <3>3. QED BY <3>1, <3>2
  <2>4. k \in Int /\ k' = k + 1
    BY <1>1, ProgramTyped
  <2>5. \A i \in 1 .. k' - 1 : i \in dropped' \/ Same(i, a)
    BY <2>2, <2>3, <2>4 DEF Follows
  <2>6. \A i \in 1 .. k' - 1 : i \in dropped' \/ Same(i, a)'
    BY <1>7, <2>5
  <2>7. QED BY <2>6 DEF Follows
<1>15. QED BY <1>3, <1>4, <1>13, <1>14

-------------------------------------------------------------------------------
(* What is asserted.                                                           *)

Z3State == [models : SUBSET Assign, bytes : SUBSET Byte]

LEMMA AssertTyped ==
  ASSUME NEW s \in Z3State, NEW holds, NEW deps \in SUBSET Byte
  PROVE  /\ Assert(s, holds, deps) \in Z3State
         /\ Reset \in Z3State
         /\ Assert(s, holds, deps).models = s.models \cap holds
         /\ Assert(s, holds, deps).bytes = s.bytes \cup Mentions(holds, deps)
         /\ Mentions(holds, deps) \subseteq deps
<1>1. Mentions(holds, deps) \subseteq deps
  BY DEF Mentions
<1>2. QED BY <1>1 DEF Assert, Z3State, Reset

\* The trees that hold the bytes of a call.
LEMMA TreesCover ==
  ASSUME TypeOK, ForestInv, k \in DOMAIN program.events
  PROVE  /\ CallDeps(k) \subseteq UNION {t.deps : t \in SliceTrees}
         /\ NodesOf(SliceTrees) \subseteq Node
         /\ SliceTrees \subseteq forest
<1>1. program \in Programs
  BY DEF TypeOK
<1>2. CallDeps(k) \subseteq Byte
  BY <1>1, CallTyped
<1>3. ASSUME NEW i \in CallDeps(k)
      PROVE  \E t \in SliceTrees : i \in t.deps
  <2>1. PICK t \in forest : i \in t.deps
    BY <1>2 DEF ForestInv
  <2>2. QED BY <2>1 DEF SliceTrees, Touched
<1>4. SliceTrees \subseteq forest /\ forest \subseteq Tree
  BY DEF SliceTrees, Touched, TypeOK, Tree
<1>5. NodesOf(SliceTrees) \subseteq Node
  BY <1>4 DEF NodesOf, Tree
<1>6. QED BY <1>3, <1>4, <1>5

LEMMA SliceSliced ==
  ASSUME TypeOK, ForestInv, k \in DOMAIN program.events
  PROVE  Slice(CallDeps(k)) \in Z3State /\ Sliced(Slice(CallDeps(k)))
<1> DEFINE nodes == NodesOf(SliceTrees)
           s == Slice(CallDeps(k))
<1>1. /\ s.models = {a \in Assign : \A n \in nodes : NodeHolds(n, a)}
      /\ s.bytes = UNION {Mentions(NodeModels(n), NodeDeps(n)) : n \in nodes}
      /\ s = [models |-> s.models, bytes |-> s.bytes]
  BY DEF Slice, SliceTrees
<1>2. \A n \in nodes : Mentions(NodeModels(n), NodeDeps(n)) \subseteq NodeDeps(n)
  BY DEF Mentions
<1>3. \A n \in nodes : \E t \in SliceTrees : NodeDeps(n) \subseteq t.deps
  BY TreesCover DEF NodesOf, ForestInv
<1>4. \A t \in SliceTrees : t.deps \subseteq Byte
  <2>1. SliceTrees \subseteq Tree
    BY TreesCover DEF TypeOK, Tree
  <2>2. QED BY <2>1 DEF Tree
<1>5. s.bytes \subseteq UNION {t.deps : t \in SliceTrees}
  BY <1>1, <1>2, <1>3
<1>6. s.bytes \subseteq Byte /\ s.models \subseteq Assign
  BY <1>1, <1>4, <1>5
<1>7. s \in Z3State
  BY <1>1, <1>6 DEF Z3State
<1>8. \A n \in nodes : /\ s.models \subseteq NodeModels(n)
                       /\ Mentions(NodeModels(n), NodeDeps(n)) \subseteq s.bytes
  BY <1>1 DEF NodeModels
<1>9. QED BY <1>5, <1>7, <1>8 DEF Sliced

\* Asserting something about the bytes of the call keeps what was asserted.
LEMMA AssertSliced ==
  ASSUME TypeOK, ForestInv, k \in DOMAIN program.events,
         NEW s \in Z3State, Sliced(s), NEW holds, NEW deps \in SUBSET CallDeps(k)
  PROVE  Assert(s, holds, deps) \in Z3State /\ Sliced(Assert(s, holds, deps))
<1>1. deps \in SUBSET Byte
  BY CallTyped DEF TypeOK
<1>2. QED BY <1>1, AssertTyped, TreesCover DEF Sliced

\* Asserting that the call is passed differently mentions its bytes: the input of the run
\* does not satisfy it.
LEMMA AssertDiffers ==
  ASSUME TypeOK, k \in DOMAIN program.events, NEW s \in Z3State, CallDeps(k) = {} => s.bytes = {},
         NEW holds, holds = {a \in Assign : ~Same(k, a)}
  PROVE  /\ Assert(s, holds, CallDeps(k)) \in Z3State
         /\ Differs(Assert(s, holds, CallDeps(k)))
<1>1. CallDeps(k) \in SUBSET Byte
  BY CallTyped DEF TypeOK
<1>2. inputs \in Assign /\ Same(k, inputs)
  BY ProgramTyped DEF TypeOK, inputs, Same
<1>3. holds # Assign
  BY <1>2
<1>4. Mentions(holds, CallDeps(k)) = CallDeps(k)
  BY <1>3 DEF Mentions
<1>5. PICK t \in Z3State : t = Assert(s, holds, CallDeps(k))
  BY <1>1, AssertTyped
<1>6. t.models = s.models \cap holds /\ t.bytes = s.bytes \cup CallDeps(k)
  BY <1>4, <1>5 DEF Assert
<1>7. Differs(t)
  BY <1>6 DEF Differs
<1>8. QED BY <1>5, <1>7

LEMMA DiffersKept ==
  ASSUME NEW s \in Z3State, Differs(s), NEW holds, NEW deps \in SUBSET Byte, deps \subseteq CallDeps(k)
  PROVE  Differs(Assert(s, holds, deps))
  BY AssertTyped DEF Differs

\* The state of the solver is read only through the run and the forest.
LEMMA SlicedStable ==
  ASSUME UNCHANGED <<program, k, forest, ranges>>, NEW s
  PROVE  (Sliced(s)' <=> Sliced(s)) /\ (Differs(s)' <=> Differs(s))
<1>1. /\ \A x, a : CanonicalValue(x, a)' = CanonicalValue(x, a)
      /\ \A n : NodeDeps(n)' = NodeDeps(n)
      /\ \A c, a : Truth(c, a)' = Truth(c, a)
      /\ \A j, a : Same(j, a)' = Same(j, a)
      /\ CallDeps(k)' = CallDeps(k)
  BY DEF CanonicalValue, NodeDeps, CondDeps, TermDeps, Truth, TermValue, Same, Call, inputs, CallDeps
<1>2. \A n, a : NodeHolds(n, a)' = NodeHolds(n, a)
  BY <1>1 DEF NodeHolds
<1>3. SliceTrees' = SliceTrees /\ \A n : NodeModels(n)' = NodeModels(n)
  BY <1>1, <1>2 DEF SliceTrees, Touched, NodeModels
<1>4. Sliced(s)' <=> Sliced(s)
  BY <1>1, <1>3 DEF Sliced, NodesOf
<1>5. Differs(s)' <=> Differs(s)
  BY <1>1 DEF Differs
<1>6. QED BY <1>4, <1>5

-------------------------------------------------------------------------------
(* Saving a model as a testcase.                                               *)

\* A testcase made of a model that satisfies the slice, and of the bytes of the input where
\* the model says nothing, takes the path of the run.
LEMMA ValuesFollow ==
  ASSUME TypeOK, ForestInv, PathInv, k \in DOMAIN program.events,
         Sliced(solver), NEW m \in solver.models
  PROVE  Follows(k, Values(m))
<1>1. /\ program \in Programs /\ m \in Assign /\ solver.bytes \subseteq Byte
      /\ forest \subseteq Tree
  BY DEF TypeOK, Tree
<1>2. inputs \in Assign
  BY <1>1, ProgramTyped DEF inputs
<1>3. PICK v \in Assign : v = Values(m)
  BY <1>1, <1>2 DEF Values, Assign
<1>4. \A i \in Byte : v[i] = IF i \in solver.bytes THEN m[i] ELSE inputs[i]
  BY <1>3 DEF Values
<1>5. ASSUME NEW t \in forest, NEW n \in t.nodes
      PROVE  NodeHolds(n, v)
  <2>1. n \in Node /\ NodeDeps(n) \subseteq t.deps /\ t.deps \subseteq Byte /\ NodeHolds(n, inputs)
    BY <1>1 DEF Tree, ForestInv
  <2>2. CASE t \in SliceTrees
    <3>1. n \in NodesOf(SliceTrees)
      BY <2>2 DEF NodesOf
    <3>2. NodeHolds(n, m) /\ Mentions(NodeModels(n), NodeDeps(n)) \subseteq solver.bytes
      BY <3>1 DEF Sliced, NodeModels
    <3>3. CASE NodeModels(n) = Assign
      BY <3>3 DEF NodeModels
    <3>4. CASE NodeModels(n) # Assign
      <4>1. NodeDeps(n) \subseteq solver.bytes
        BY <3>2, <3>4 DEF Mentions
      <4>2. \A i \in NodeDeps(n) : v[i] = m[i]
        BY <1>4, <2>1, <4>1
      <4>3. QED BY <1>1, <2>1, <3>2, <4>2, NodeDepends
    <3>5. QED BY <3>3, <3>4
  <2>3. CASE t \notin SliceTrees
    <3>1. \A i \in t.deps : i \notin solver.bytes
      <4> SUFFICES ASSUME NEW i \in t.deps, i \in solver.bytes PROVE FALSE
        OBVIOUS
      <4>1. PICK s \in SliceTrees : i \in s.deps
        BY DEF Sliced
      <4>2. s \in forest
        BY TreesCover
      <4>3. QED BY <2>3, <4>1, <4>2 DEF ForestInv
    <3>2. \A i \in NodeDeps(n) : v[i] = inputs[i]
      BY <1>4, <2>1, <3>1
    <3>3. QED BY <1>1, <1>2, <2>1, <3>2, NodeDepends
  <2>4. QED BY <2>2, <2>3
<1>6. \A n \in NodesOf(forest) : NodeHolds(n, v)
  BY <1>5 DEF NodesOf
<1>7. Follows(k, v)
  BY <1>6 DEF PathInv
<1>8. QED BY <1>3, <1>7

\* A model that differs from the run at the call differs from it whatever the bytes it does
\* not mention are; a model that mentions nothing makes the input of the run.
LEMMA ValuesDiffer ==
  ASSUME TypeOK, k \in DOMAIN program.events, Differs(solver), NEW m \in solver.models
  PROVE  Flips(k, Values(m))
<1>1. program \in Programs /\ m \in Assign /\ CallDeps(k) \subseteq Byte
  BY CallTyped DEF TypeOK
<1>2. inputs \in Assign
  BY <1>1, ProgramTyped DEF inputs
<1>3. PICK v \in Assign : v = Values(m)
  BY <1>1, <1>2 DEF Values, Assign
<1>4. CASE CallDeps(k) = {}
  <2>1. \A i \in Byte : v[i] = inputs[i]
    BY <1>3, <1>4 DEF Values, Differs
  <2>2. v = inputs
    BY <1>2, <1>3, <2>1 DEF Assign
  <2>3. QED BY <1>3, <1>4, <2>2 DEF Flips
<1>5. CASE CallDeps(k) # {}
  <2>1. \A i \in CallDeps(k) : v[i] = m[i]
    BY <1>1, <1>3 DEF Values, Differs
  <2>2. ~Same(k, m)
    BY <1>5 DEF Differs
  <2>3. ~Same(k, v)
    BY <1>1, <2>1, <2>2, SameDepends
  <2>4. QED BY <1>3, <1>5, <2>3 DEF Flips
<1>6. QED BY <1>4, <1>5

FilesTyped ==
  /\ num_generated_ \in Nat
  /\ \A name \in DOMAIN files :
       files[name] \in [values : Assign, call : 1 .. k, postfix : {"", "optimistic"}]

LEMMA NextNat ==
  ASSUME NEW n \in Nat
  PROVE  n + 1 \in Nat
  OBVIOUS

LEMMA CounterTyped ==
  ASSUME TypeOK
  PROVE  k \in Nat \ {0} /\ Len(program.events) \in Nat /\ DOMAIN program.events = 1 .. Len(program.events)
<1>1. program.events \in Seq(Event)
  BY ProgramTyped DEF TypeOK
<1>2. Len(program.events) \in Nat /\ DOMAIN program.events = 1 .. Len(program.events)
  BY <1>1
<1>3. k \in 1 .. Len(program.events) + 1
  BY DEF TypeOK
<1>4. QED BY <1>2, <1>3

LEMMA CallsGrow ==
  ASSUME TypeOK, k' \in {k, k + 1}
  PROVE  k' \in Nat \ {0} /\ k <= k' /\ 1 .. k \subseteq 1 .. k' /\ k \in 1 .. k'
  BY CounterTyped

LEMMA CallSplit ==
  ASSUME TypeOK, k' = k + 1
  PROVE  \A i \in 1 .. k' - 1 : i \in 1 .. k - 1 \/ i = k
  BY CounterTyped

\* The calls and the input do not change, and a call dropped stays dropped.
LEMMA FollowsStable ==
  ASSUME program' = program, dropped \subseteq dropped'
  PROVE  /\ \A j, a : Same(j, a)' <=> Same(j, a)
         /\ \A j, a : Follows(j, a) => Follows(j, a)'
         /\ \A j, a : Flips(j, a)' <=> Flips(j, a)
         /\ \A j : Call(j)' = Call(j)
<1>1. \A j, a : Same(j, a)' <=> Same(j, a)
  BY DEF Same, Call, inputs, Truth, TermValue
<1>2. \A j, a : Follows(j, a) => Follows(j, a)'
  BY <1>1 DEF Follows
<1>3. \A j : Call(j)' = Call(j) /\ CallDeps(j)' = CallDeps(j)
  BY DEF Call, CallDeps, CondDeps, TermDeps
<1>4. inputs' = inputs
  BY DEF inputs
<1>5. \A j, a : Flips(j, a)' <=> Flips(j, a)
  BY <1>1, <1>3, <1>4 DEF Flips
<1>6. QED BY <1>1, <1>2, <1>3, <1>5

LEMMA SaveStep ==
  ASSUME TypeOK, ForestInv, PathInv, SavedFollowsPath, k \in DOMAIN program.events,
         NEW m \in solver.models, NEW post \in {"", "optimistic"}, Save(m, post),
         post = "" => Sliced(solver),
         Call(k).call \in {"addJcc", "solveAll"} => Differs(solver),
         program' = program, dropped \subseteq dropped', k' \in {k, k + 1}
  PROVE  FilesTyped' /\ SavedFollowsPath'
<1> DEFINE name == <<Number(num_generated_), post>>
           f == [values |-> Values(m), call |-> k, postfix |-> post]
<1>1. /\ DOMAIN files' = DOMAIN files \cup {name}
      /\ files'[name] = f
      /\ \A x \in DOMAIN files : x # name => files'[x] = files[x]
      /\ num_generated_' = num_generated_ + 1
  BY DEF Save, Extend
<1>2. /\ program \in Programs /\ m \in Assign /\ solver.bytes \subseteq Byte
      /\ num_generated_ \in Nat
  BY DEF TypeOK
<1>3. Values(m) \in Assign
  BY <1>2, ProgramTyped DEF Values, Assign, inputs
<1>4. FilesTyped'
  <2>1. ASSUME NEW x \in DOMAIN files', x # name
        PROVE  files'[x] \in [values : Assign, call : 1 .. k', postfix : {"", "optimistic"}]
    <3>1. files[x] \in [values : Assign, call : 1 .. k, postfix : {"", "optimistic"}]
      BY <1>1, <2>1 DEF TypeOK
    <3>2. 1 .. k \subseteq 1 .. k'
      BY CallsGrow
    <3>3. QED BY <1>1, <2>1, <3>1, <3>2
  <2>2. f \in [values : Assign, call : 1 .. k', postfix : {"", "optimistic"}]
    BY <1>3, CallsGrow
  <2> HIDE DEF name, f
  <2>3. num_generated_' \in Nat
    <3>1. num_generated_' = num_generated_ + 1
      BY <1>1
    <3>2. num_generated_ \in Nat
      BY <1>2
    <3>3. QED BY <3>1, <3>2, NextNat
  <2>4. \A x \in DOMAIN files' :
          files'[x] \in [values : Assign, call : 1 .. k', postfix : {"", "optimistic"}]
    BY <1>1, <2>1, <2>2
  <2>5. QED BY <2>3, <2>4 DEF FilesTyped
<1>5. /\ f.postfix = "" => Follows(f.call, f.values)
      /\ Flips(f.call, f.values)
  BY ValuesFollow, ValuesDiffer DEF Flips
<1> HIDE DEF name, f
<1>6. \A x \in DOMAIN files' :
        /\ files'[x].postfix = "" => Follows(files'[x].call, files'[x].values)
        /\ Flips(files'[x].call, files'[x].values)
  BY <1>1, <1>5 DEF SavedFollowsPath
<1>7. SavedFollowsPath'
  <2> SUFFICES ASSUME NEW x \in DOMAIN files'
               PROVE  /\ files'[x].postfix = "" => Follows(files[x].call, files[x].values)'
                      /\ Flips(files[x].call, files[x].values)'
    BY DEF SavedFollowsPath
  <2>1. PICK g, j, a : g = files'[x] /\ j = g.call /\ a = g.values
    OBVIOUS
  <2>2. /\ g.postfix = "" => Follows(j, a)
        /\ Flips(j, a)
    BY <1>6, <2>1
  <2>3. /\ g.postfix = "" => Follows(j, a)'
        /\ Flips(j, a)'
    BY <2>2, FollowsStable
  <2>4. QED BY <2>1, <2>3 DEF Follows, Flips, Same, Call, CallDeps, inputs
<1>8. QED BY <1>4, <1>7

LEMMA NothingSaved ==
  ASSUME TypeOK, SavedFollowsPath, SaveNothing, program' = program, dropped \subseteq dropped',
         k' \in {k, k + 1}
  PROVE  FilesTyped' /\ SavedFollowsPath'
<1>1. files' = files /\ num_generated_' = num_generated_
  BY DEF SaveNothing
<1>2. FilesTyped'
  <2>1. 1 .. k \subseteq 1 .. k'
    BY CallsGrow
  <2>2. QED BY <1>1, <2>1 DEF TypeOK, FilesTyped
<1>3. SavedFollowsPath'
  <2> SUFFICES ASSUME NEW x \in DOMAIN files'
               PROVE  /\ files'[x].postfix = "" => Follows(files[x].call, files[x].values)'
                      /\ Flips(files[x].call, files[x].values)'
    BY DEF SavedFollowsPath
  <2>1. PICK g, j, a : g = files'[x] /\ j = g.call /\ a = g.values
    OBVIOUS
  <2>2. /\ g.postfix = "" => Follows(j, a)
        /\ Flips(j, a)
    BY <1>1, <2>1 DEF SavedFollowsPath
  <2>3. /\ g.postfix = "" => Follows(j, a)'
        /\ Flips(j, a)'
    BY <2>2, FollowsStable
  <2>4. QED BY <2>1, <2>3 DEF Follows, Flips, Same, Call, CallDeps, inputs
<1>4. QED BY <1>2, <1>3

-------------------------------------------------------------------------------
(* The steps of a call.                                                        *)

AskedTyped == explored \subseteq 1 .. k /\ gaveUp \subseteq 1 .. k /\ dropped \subseteq 1 .. k - 1

BoundsTyped ==
  /\ DOMAIN found = {"min", "max"}
  /\ \A d \in {"min", "max"} : found[d] = <<>> \/ found[d] \in [Assign -> Value]

Phases ==
  {"run", "negate", "optimistic", "value", "addr", "min", "max", "solve_min", "solve_max",
   "check_min", "check_max", "all", "enumerate", "aborted"}

LEMMA TypeParts ==
  TypeOK <=> /\ program \in Programs
             /\ k \in 1 .. Len(program.events) + 1
             /\ pc \in Phases /\ (pc # "run" => k \in DOMAIN program.events)
             /\ last_interested_ \in BOOLEAN
             /\ forest \subseteq Tree
             /\ ranges \in [Canonical -> SUBSET Value]
             /\ solver \in Z3State /\ pushed \in Z3State
             /\ BoundsTyped
             /\ postfix \in {"", "optimistic"}
             /\ FilesTyped /\ AskedTyped
  BY DEF TypeOK, Phases, Tree, Z3State, BoundsTyped, FilesTyped, AskedTyped

\* What no step of a call changes, or changes to another value of its type.
Keeps ==
  /\ program' = program
  /\ last_interested_' \in BOOLEAN
  /\ solver' \in Z3State /\ pushed' \in Z3State
  /\ BoundsTyped'
  /\ postfix' \in {"", "optimistic"}
  /\ FilesTyped' /\ SavedFollowsPath'
  /\ explored' \subseteq 1 .. k /\ gaveUp' \subseteq 1 .. k

\* A step within a call.
LEMMA MidCall ==
  ASSUME SolverInv, Keeps, UNCHANGED <<k, forest, ranges, dropped>>,
         pc' \in Phases, k \in DOMAIN program.events, AssertedInv'
  PROVE  SolverInv'
<1>1. TypeOK /\ ForestInv /\ PathInv
  BY DEF SolverInv
<1>2. TypeOK'
  <2>1. AskedTyped'
    BY <1>1, TypeParts DEF AskedTyped, Keeps
  <2>2. /\ program' \in Programs /\ k' \in 1 .. Len(program'.events) + 1
        /\ (pc' # "run" => k' \in DOMAIN program'.events)
        /\ forest' \subseteq Tree /\ ranges' \in [Canonical -> SUBSET Value]
    BY <1>1, TypeParts DEF Keeps
  <2>3. QED BY <2>1, <2>2 DEF TypeOK, Tree, Z3State, Phases, Keeps, BoundsTyped, FilesTyped, AskedTyped
<1>3. /\ \A x, a : CanonicalValue(x, a)' = CanonicalValue(x, a)
      /\ \A n : NodeDeps(n)' = NodeDeps(n)
      /\ \A c, a : Truth(c, a)' = Truth(c, a)
      /\ inputs' = inputs
  BY DEF Keeps, CanonicalValue, NodeDeps, CondDeps, TermDeps, Truth, TermValue, inputs
<1>4. \A n, a : NodeHolds(n, a)' = NodeHolds(n, a)
  BY <1>3 DEF NodeHolds
<1>5. ForestInv'
  BY <1>1, <1>3, <1>4 DEF ForestInv, NodeHolds, CanonicalValue, Keeps
<1>6. PathInv'
  BY <1>1, <1>4, FollowsStable DEF PathInv, NodesOf, Keeps, Follows
<1>7. QED BY <1>2, <1>5, <1>6 DEF SolverInv, Keeps

\* What the run did at the call, as the condition addConstraint is given.
RecordsCall ==
  IF event.call = "addJcc" THEN Record(event.cond, Taken) ELSE Record(ValueCondition, TRUE)

LEMMA ValueConditionCorrect ==
  ASSUME TypeOK, k \in DOMAIN program.events, event.call # "addJcc"
  PROVE  /\ ValueCondition \in Condition
         /\ CondDeps(ValueCondition) = CallDeps(k)
         /\ \A a \in Assign : Truth(ValueCondition, a) = TRUE <=> Same(k, a)
<1> DEFINE left == event.cond.left
           v == TermValue(left, inputs)
<1>1. left \in Term /\ event = Call(k) /\ inputs \in Assign /\ program \in Programs
  BY CallTyped, ProgramTyped DEF TypeOK, event, Call, inputs
<1>2. v \in Value
  BY <1>1, TermTyped
<1>3. Constant(v) \in Term /\ Constant(v).op = "const" /\ Constant(v).const = v
  BY <1>1, <1>2 DEF Constant, Term
<1>4. /\ ValueCondition \in Condition
      /\ ValueCondition = [kind |-> "Equal", left |-> left, right |-> Constant(v)]
  BY <1>1, <1>3 DEF ValueCondition, Condition, Kind
<1>5. CondDeps(ValueCondition) = CallDeps(k)
  BY <1>3, <1>4 DEF CondDeps, CallDeps, TermDeps, IsSymbolic, event
<1>6. ASSUME NEW a \in Assign
      PROVE  Truth(ValueCondition, a) = TRUE <=> Same(k, a)
  <2>1. TermValue(Constant(v), a) = v
    BY <1>3 DEF TermValue
  <2>2. Truth(ValueCondition, a) <=> TermValue(left, a) = v
    BY <1>4, <2>1 DEF Truth, Compare
  <2>3. Same(k, a) <=> TermValue(left, a) = v
    BY <1>1 DEF Same
  <2>4. Truth(ValueCondition, a) \in BOOLEAN
    BY <1>1, <1>4, TruthTyped
  <2>5. QED BY <2>2, <2>3, <2>4
<1>7. QED BY <1>4, <1>5, <1>6

\* The end of a call that is recorded.
LEMMA EndCall ==
  ASSUME SolverInv, Keeps, RecordsCall, Advance, UNCHANGED dropped,
         k \in DOMAIN program.events
  PROVE  SolverInv'
<1>1. TypeOK /\ ForestInv /\ PathInv /\ k' = k + 1 /\ pc' = "run" /\ program' = program
  BY DEF SolverInv, Advance, Keeps
<1>2. program \in Programs /\ event = Call(k) /\ event.cond \in Condition /\ inputs \in Assign
  BY <1>1, CallTyped, ProgramTyped DEF TypeOK, event, Call, inputs
<1>3. ForestInv' /\ PathInv' /\ forest' \subseteq Tree /\ ranges' \in [Canonical -> SUBSET Value]
  <2>1. CASE event.call = "addJcc"
    <3>1. Record(event.cond, Taken)
      BY <2>1 DEF RecordsCall
    <3>2. Taken \in BOOLEAN
      BY <1>2, TruthTyped DEF Taken
    <3>3. CondDeps(event.cond) = CallDeps(k)
      BY <2>1 DEF CallDeps, event
    <3>4. \A a \in Assign : Truth(event.cond, a) = Taken <=> Same(k, a)
      BY <1>2, <2>1 DEF Same, Taken
    <3>5. PICK c \in Condition, taken \in BOOLEAN : c = event.cond /\ taken = Taken
      BY <1>2, <3>2
    <3>6. /\ Record(c, taken) /\ CondDeps(c) = CallDeps(k)
          /\ \A a \in Assign : Truth(c, a) = taken <=> Same(k, a)
      BY <3>1, <3>3, <3>4, <3>5
    <3>7. QED BY <1>1, <3>6, RecordStep
  <2>2. CASE event.call # "addJcc"
    <3>1. Record(ValueCondition, TRUE)
      BY <2>2 DEF RecordsCall
    <3>2. /\ ValueCondition \in Condition
          /\ CondDeps(ValueCondition) = CallDeps(k)
          /\ \A a \in Assign : Truth(ValueCondition, a) = TRUE <=> Same(k, a)
      BY <1>1, <2>2, ValueConditionCorrect
    <3>3. PICK c \in Condition : c = ValueCondition
      BY <3>2
    <3>4. /\ Record(c, TRUE) /\ CondDeps(c) = CallDeps(k)
          /\ \A a \in Assign : Truth(c, a) = TRUE <=> Same(k, a)
      BY <3>1, <3>2, <3>3
    <3>5. QED BY <1>1, <3>4, RecordStep
  <2>3. QED BY <2>1, <2>2
<1>4. k' \in 1 .. Len(program.events) + 1
  BY <1>1, CounterTyped
<1>5. AskedTyped'
  <2>1. 1 .. k \subseteq 1 .. k' /\ 1 .. k - 1 \subseteq 1 .. k' - 1
    BY <1>1, CounterTyped
  <2>2. QED BY <1>1, <2>1, TypeParts DEF AskedTyped, Keeps
<1>6. TypeOK'
  <2>1. /\ program' \in Programs /\ k' \in 1 .. Len(program'.events) + 1
        /\ pc' \in Phases /\ (pc' # "run" => k' \in DOMAIN program'.events)
    BY <1>1, <1>2, <1>4 DEF Phases
  <2>2. QED BY <1>3, <1>5, <2>1
             DEF TypeOK, Tree, Z3State, Phases, Keeps, BoundsTyped, FilesTyped, AskedTyped
<1>7. AssertedInv'
  BY <1>1 DEF AssertedInv
<1>8. QED BY <1>3, <1>6, <1>7 DEF SolverInv, Keeps

\* The end of a call that is not recorded: it was dropped, or every input passes it alike.
LEMMA PassCall ==
  ASSUME SolverInv, Keeps, Advance, UNCHANGED <<forest, ranges>>,
         dropped \subseteq dropped', dropped' \subseteq 1 .. k,
         k \in DOMAIN program.events,
         k \in dropped' \/ \A a \in Assign : Same(k, a)
  PROVE  SolverInv'
<1>1. TypeOK /\ ForestInv /\ PathInv /\ k' = k + 1 /\ pc' = "run" /\ program' = program
  BY DEF SolverInv, Advance, Keeps
<1>2. k \in Nat \ {0} /\ k' \in 1 .. Len(program.events) + 1 /\ k' - 1 = k /\ 1 .. k \subseteq 1 .. k'
  BY <1>1, CounterTyped
<1>3. TypeOK'
  <2>1. /\ program' \in Programs /\ k' \in 1 .. Len(program'.events) + 1
        /\ pc' \in Phases /\ (pc' # "run" => k' \in DOMAIN program'.events)
        /\ forest' \subseteq Tree /\ ranges' \in [Canonical -> SUBSET Value]
    BY <1>1, <1>2, TypeParts DEF Phases
  <2>2. AskedTyped'
    BY <1>2 DEF AskedTyped, Keeps
  <2>3. QED BY <2>1, <2>2
             DEF TypeOK, Tree, Z3State, Phases, Keeps, BoundsTyped, FilesTyped, AskedTyped
<1>4. /\ \A x, a : CanonicalValue(x, a)' = CanonicalValue(x, a)
      /\ \A n : NodeDeps(n)' = NodeDeps(n)
      /\ \A c, a : Truth(c, a)' = Truth(c, a)
      /\ inputs' = inputs
  BY <1>1 DEF CanonicalValue, NodeDeps, CondDeps, TermDeps, Truth, TermValue, inputs
<1>5. \A n, a : NodeHolds(n, a)' = NodeHolds(n, a)
  BY <1>4 DEF NodeHolds
<1>6. ForestInv'
  BY <1>1, <1>4, <1>5 DEF ForestInv, NodeHolds, CanonicalValue
<1>7. PathInv'
  <2> SUFFICES ASSUME NEW a \in Assign, \A n \in NodesOf(forest) : NodeHolds(n, a)'
               PROVE  Follows(k, a)'
    BY DEF PathInv
  <2>1. Follows(k, a)
    BY <1>1, <1>5 DEF PathInv
  <2>2. \A i \in 1 .. k' - 1 : i \in 1 .. k - 1 \/ i = k
    BY <1>1, CallSplit
  <2>3. \A i \in 1 .. k' - 1 : i \in dropped' \/ Same(i, a)
    BY <2>1, <2>2 DEF Follows
  <2>4. \A i \in 1 .. k' - 1 : i \in dropped' \/ Same(i, a)'
    BY <1>1, <2>3, FollowsStable
  <2>5. QED BY <2>4 DEF Follows
<1>8. AssertedInv'
  BY <1>1 DEF AssertedInv
<1>9. QED BY <1>3, <1>6, <1>7, <1>8 DEF SolverInv, Keeps

\* What a step of a call may assume.
LEMMA Context ==
  ASSUME SolverInv, k \in DOMAIN program.events
  PROVE  /\ TypeOK /\ ForestInv /\ PathInv /\ AssertedInv /\ SavedFollowsPath
         /\ program \in Programs /\ event = Call(k) /\ CallDeps(k) \in SUBSET Byte
         /\ solver \in Z3State /\ pushed \in Z3State /\ Reset \in Z3State
         /\ BoundsTyped /\ postfix \in {"", "optimistic"} /\ last_interested_ \in BOOLEAN
         /\ explored \subseteq 1 .. k /\ explored \cup {k} \subseteq 1 .. k
         /\ gaveUp \subseteq 1 .. k /\ gaveUp \cup {k} \subseteq 1 .. k
         /\ dropped \subseteq 1 .. k - 1 /\ dropped \cup {k} \subseteq 1 .. k
         /\ k \in {k, k + 1} /\ k + 1 \in {k, k + 1}
<1>1. TypeOK /\ ForestInv /\ PathInv /\ AssertedInv /\ SavedFollowsPath
  BY DEF SolverInv
<1>2. /\ program \in Programs /\ solver \in Z3State /\ pushed \in Z3State
      /\ BoundsTyped /\ postfix \in {"", "optimistic"} /\ last_interested_ \in BOOLEAN
      /\ AskedTyped
  BY <1>1, TypeParts
<1>3. event = Call(k) /\ CallDeps(k) \in SUBSET Byte /\ Reset \in Z3State
  BY <1>2, CallTyped DEF event, Call, Reset, Z3State
<1>4. k \in 1 .. k /\ 1 .. k - 1 \subseteq 1 .. k
  BY <1>1, CounterTyped
<1>5. QED BY <1>1, <1>2, <1>3, <1>4 DEF AskedTyped

LEMMA NotSatKeeps ==
  ASSUME SolverInv, k \in DOMAIN program.events, NotSat
  PROVE  SaveNothing /\ gaveUp' \subseteq 1 .. k
  BY Context DEF NotSat

LEMMA SlicedNow ==
  ASSUME UNCHANGED <<program, k, forest, ranges>>, NEW s
  PROVE  /\ s = solver' /\ Sliced(s) => Sliced(solver)'
         /\ s = solver' /\ Differs(s) => Differs(solver)'
         /\ s = pushed' /\ Sliced(s) => Sliced(pushed)'
<1>1. (Sliced(s)' <=> Sliced(s)) /\ (Differs(s)' <=> Differs(s))
  BY SlicedStable
<1>2. s = solver' => (Sliced(s)' <=> Sliced(solver)')
  BY DEF Sliced
<1>3. s = solver' => (Differs(s)' <=> Differs(solver)')
  BY DEF Differs
<1>4. s = pushed' => (Sliced(s)' <=> Sliced(pushed)')
  BY DEF Sliced
<1>5. QED BY <1>1, <1>2, <1>3, <1>4

\* Calls that are not asked to behave as the run did.
LEMMA QuestionTyped ==
  ASSUME SolverInv, k \in DOMAIN program.events
  PROVE  /\ event.call = "addJcc" => /\ CallDeps(k) = CondDeps(event.cond)
                                     /\ Negated = {a \in Assign : ~Same(k, a)}
         /\ event.call # "addJcc" => /\ CallDeps(k) = Deps
                                     /\ Different = {a \in Assign : ~Same(k, a)}
<1>1. /\ event.call = "addJcc" => CallDeps(k) = CondDeps(event.cond)
      /\ event.call # "addJcc" => CallDeps(k) = Deps
  BY DEF CallDeps, Deps, event
<1>2. event.call = "addJcc" => Negated = {a \in Assign : ~Same(k, a)}
  BY DEF Negated, Same, Call, event
<1>3. event.call # "addJcc" => Different = {a \in Assign : ~Same(k, a)}
  BY DEF Different, Same, Call, event
<1>4. QED BY <1>1, <1>2, <1>3

\* Every input passes a concrete call alike: nothing has to be recorded.
LEMMA ConcreteSame ==
  ASSUME SolverInv, k \in DOMAIN program.events, CallDeps(k) = {}
  PROVE  \A a \in Assign : Same(k, a)
<1> SUFFICES ASSUME NEW a \in Assign PROVE Same(k, a)
  OBVIOUS
<1>1. inputs \in Assign /\ Same(k, inputs)
  BY Context, ProgramTyped DEF inputs, Same
<1>2. PICK b \in Assign : b = inputs
  BY <1>1
<1>3. Same(k, a) <=> Same(k, b)
  BY Context, SameDepends
<1>4. QED BY <1>1, <1>2, <1>3

LEMMA ReturnsAtOnce ==
  ASSUME SolverInv, k \in DOMAIN program.events, Advance, CallDeps(k) = {},
         UNCHANGED <<program, last_interested_, forest, ranges, solver, pushed, found, postfix,
                     files, num_generated_, explored, gaveUp, dropped>>
  PROVE  SolverInv'
<1>1. k' = k + 1
  BY DEF Advance
<1>2. FilesTyped' /\ SavedFollowsPath'
  BY <1>1, Context, NothingSaved DEF SaveNothing
<1>3. Keeps
  BY <1>2, Context DEF Keeps, BoundsTyped
<1>4. dropped \subseteq dropped' /\ dropped' \subseteq 1 .. k
  BY Context
<1>5. QED BY <1>3, <1>4, ConcreteSame, PassCall

LEMMA ConcreteInv ==
  ASSUME SolverInv, Concrete
  PROVE  SolverInv'
<1>1. /\ k \in DOMAIN program.events /\ Advance /\ CallDeps(k) = {}
      /\ UNCHANGED <<program, last_interested_, forest, ranges, solver, pushed, found, postfix,
                     files, num_generated_, explored, gaveUp, dropped>>
  BY CounterTyped DEF SolverInv, Concrete, IsConcrete, history
<1>2. QED BY <1>1, ReturnsAtOnce

LEMMA AddJccInv ==
  ASSUME SolverInv, AddJcc
  PROVE  SolverInv'
<1>1. /\ k \in DOMAIN program.events /\ event.call = "addJcc" /\ pc = "run" /\ CallDeps(k) # {}
      /\ UNCHANGED <<program, pushed, found, postfix, files, num_generated_, gaveUp, dropped>>
  BY CounterTyped DEF SolverInv, AddJcc, At, IsConcrete
<1>2. last_interested_' \in BOOLEAN
  BY <1>1, Context DEF AddJcc
<1> DEFINE asserted == Assert(Slice(CallDeps(k)), {a \in Assign : ~Same(k, a)}, CallDeps(k))
<1>3. CASE last_interested_' /\ ~program.skip_query
  <2>1. /\ solver' = asserted /\ explored' = explored \cup {k} /\ pc' = "negate"
        /\ UNCHANGED <<forest, ranges, k>>
    BY <1>1, <1>3, QuestionTyped DEF AddJcc, RecordNothing
  <2>2. Slice(CallDeps(k)) \in Z3State /\ Sliced(Slice(CallDeps(k)))
    BY <1>1, Context, SliceSliced
  <2>3. asserted \in Z3State /\ Sliced(asserted) /\ Differs(asserted)
    <3>1. PICK s \in Z3State : s = Slice(CallDeps(k)) /\ Sliced(s)
      BY <2>2
    <3>2. PICK holds : holds = {a \in Assign : ~Same(k, a)}
      OBVIOUS
    <3>3. CallDeps(k) \in SUBSET CallDeps(k)
      OBVIOUS
    <3>4. PICK d \in SUBSET CallDeps(k) : d = CallDeps(k)
      BY <3>3
    <3>5. Assert(s, holds, d) \in Z3State /\ Sliced(Assert(s, holds, d))
      BY <1>1, <3>1, Context, AssertSliced
    <3>6. Differs(Assert(s, holds, CallDeps(k)))
      BY <1>1, <3>1, <3>2, Context, AssertDiffers
    <3>7. asserted = Assert(s, holds, d) /\ asserted = Assert(s, holds, CallDeps(k))
      BY <3>1, <3>2, <3>4
    <3> HIDE DEF asserted
    <3>8. QED BY <3>5, <3>6, <3>7
  <2> HIDE DEF asserted
  <2>4. Sliced(solver)' /\ Differs(solver)'
    <3>1. PICK s \in Z3State : s = asserted
      BY <2>3
    <3>2. QED BY <1>1, <2>1, <2>3, <3>1, SlicedNow
  <2>5. AssertedInv'
    BY <1>1, <2>1, <2>4 DEF AssertedInv, event
  <2>6. FilesTyped' /\ SavedFollowsPath'
    BY <1>1, <2>1, Context, NothingSaved DEF SaveNothing
  <2>7. Keeps
    BY <1>1, <1>2, <2>1, <2>3, <2>6, Context DEF Keeps, BoundsTyped
  <2>8. QED BY <1>1, <2>1, <2>5, <2>7, MidCall DEF Phases
<1>4. CASE ~(last_interested_' /\ ~program.skip_query)
  <2>1. Record(event.cond, Taken) /\ Advance /\ k' = k + 1 /\ UNCHANGED <<solver, explored>>
    BY <1>4 DEF AddJcc, Advance
  <2>2. FilesTyped' /\ SavedFollowsPath'
    BY <1>1, <2>1, Context, NothingSaved DEF SaveNothing
  <2>3. Keeps
    BY <1>1, <1>2, <2>1, <2>2, Context DEF Keeps, BoundsTyped
  <2>4. RecordsCall
    BY <1>1, <2>1 DEF RecordsCall
  <2>5. QED BY <1>1, <2>1, <2>3, <2>4, EndCall
<1>5. QED BY <1>3, <1>4

LEMMA NegateInv ==
  ASSUME SolverInv, Negate
  PROVE  SolverInv'
<1>1. /\ pc = "negate"
      /\ UNCHANGED <<program, last_interested_, pushed, found, postfix, explored, dropped>>
  BY DEF Negate
<1>2. k \in DOMAIN program.events
  BY <1>1 DEF SolverInv, TypeOK
<1>3. event.call = "addJcc" /\ Sliced(solver) /\ Differs(solver)
  BY <1>1 DEF SolverInv, AssertedInv
<1>4. CASE /\ \E m \in solver.models : Save(m, "")
           /\ Record(event.cond, Taken) /\ Advance
           /\ UNCHANGED <<solver, gaveUp>>
  <2>1. k' = k + 1
    BY <1>4 DEF Advance
  <2>2. FilesTyped' /\ SavedFollowsPath'
    BY <1>1, <1>2, <1>3, <1>4, <2>1, Context, SaveStep
  <2>3. Keeps
    BY <1>1, <1>2, <1>4, <2>2, Context DEF Keeps, BoundsTyped
  <2>4. RecordsCall
    BY <1>3, <1>4 DEF RecordsCall
  <2>5. QED BY <1>1, <1>2, <1>4, <2>3, <2>4, EndCall
<1>5. CASE /\ NotSat
           /\ solver' = Assert(Reset, Negated, CondDeps(event.cond))
           /\ pc' = "optimistic"
           /\ RecordNothing /\ UNCHANGED k
  <2>1. UNCHANGED <<forest, ranges, k>> /\ SaveNothing /\ gaveUp' \subseteq 1 .. k
    BY <1>2, <1>5, NotSatKeeps DEF RecordNothing
  <2>2. solver' \in Z3State /\ Differs(solver')
    <3>1. PICK holds : holds = {a \in Assign : ~Same(k, a)}
      OBVIOUS
    <3>2. solver' = Assert(Reset, holds, CallDeps(k))
      BY <1>2, <1>3, <1>5, <3>1, QuestionTyped
    <3>3. /\ Assert(Reset, holds, CallDeps(k)) \in Z3State
          /\ Differs(Assert(Reset, holds, CallDeps(k)))
      <4>1. PICK s \in Z3State : s = Reset
        BY <1>2, Context
      <4>2. s.bytes = {}
        BY <4>1 DEF Reset
      <4>3. QED BY <1>2, <3>1, <4>1, <4>2, Context, AssertDiffers
    <3>4. QED BY <3>2, <3>3
  <2>3. PICK s \in Z3State : s = solver' /\ Differs(s)
    BY <2>2
  <2>4. Differs(solver)'
    BY <1>1, <2>1, <2>3, SlicedNow
  <2>5. AssertedInv'
    BY <1>1, <1>3, <1>5, <2>1, <2>4 DEF AssertedInv, event
  <2>6. FilesTyped' /\ SavedFollowsPath'
    BY <1>1, <1>2, <2>1, Context, NothingSaved
  <2>7. Keeps
    BY <1>1, <1>2, <2>1, <2>2, <2>6, Context DEF Keeps, BoundsTyped
  <2>8. QED BY <1>1, <1>2, <1>5, <2>1, <2>5, <2>7, MidCall DEF Phases
<1>6. QED BY <1>4, <1>5 DEF Negate

LEMMA NegateOptimisticInv ==
  ASSUME SolverInv, NegateOptimistic
  PROVE  SolverInv'
<1>1. /\ pc = "optimistic" /\ Record(event.cond, Taken) /\ Advance /\ k' = k + 1
      /\ UNCHANGED <<program, last_interested_, solver, pushed, found, postfix, explored, dropped>>
  BY DEF NegateOptimistic, Advance
<1>2. k \in DOMAIN program.events
  BY <1>1 DEF SolverInv, TypeOK
<1>3. event.call = "addJcc" /\ Differs(solver)
  BY <1>1 DEF SolverInv, AssertedInv
<1>4. FilesTyped' /\ SavedFollowsPath' /\ gaveUp' \subseteq 1 .. k
  <2>1. CASE \E m \in solver.models : Save(m, "optimistic") /\ UNCHANGED gaveUp
    BY <1>1, <1>2, <1>3, <2>1, Context, SaveStep
  <2>2. CASE NotSat
    BY <1>1, <1>2, <2>2, Context, NotSatKeeps, NothingSaved
  <2>3. QED BY <2>1, <2>2 DEF NegateOptimistic
<1>5. Keeps
  BY <1>1, <1>2, <1>4, Context DEF Keeps, BoundsTyped
<1>6. RecordsCall
  BY <1>1, <1>3 DEF RecordsCall
<1>7. QED BY <1>1, <1>2, <1>5, <1>6, EndCall

LEMMA AddValueInv ==
  ASSUME SolverInv, AddValue
  PROVE  SolverInv'
<1>1. /\ IF CallDeps(k) = {} THEN RecordNothing ELSE Record(ValueCondition, TRUE)
      /\ Advance /\ k' = k + 1
      /\ UNCHANGED <<program, last_interested_, solver, pushed, found, postfix, files,
                     num_generated_, explored, gaveUp, dropped>>
  BY DEF AddValue, Advance, history, IsConcrete
<1>2. k \in DOMAIN program.events /\ event.call # "addJcc"
  <2>1. CASE pc = "value"
    BY <2>1 DEF SolverInv, TypeOK, AssertedInv
  <2>2. CASE At("addValue")
    BY <2>2, CounterTyped DEF SolverInv, At
  <2>3. QED BY <2>1, <2>2 DEF AddValue
<1>3. CASE CallDeps(k) = {}
  BY <1>1, <1>2, <1>3, ReturnsAtOnce DEF RecordNothing
<1>4. CASE CallDeps(k) # {}
  <2>1. FilesTyped' /\ SavedFollowsPath'
    BY <1>1, <1>2, Context, NothingSaved DEF SaveNothing
  <2>2. Keeps
    BY <1>1, <1>2, <2>1, Context DEF Keeps, BoundsTyped
  <2>3. RecordsCall
    BY <1>1, <1>2, <1>4 DEF RecordsCall
  <2>4. QED BY <1>1, <1>2, <2>2, <2>3, EndCall
<1>5. QED BY <1>3, <1>4

LEMMA AddAddrInv ==
  ASSUME SolverInv, AddAddr
  PROVE  SolverInv'
<1>1. /\ k \in DOMAIN program.events /\ event.call = "addAddr" /\ pc = "run"
      /\ UNCHANGED <<program, k, last_interested_, forest, ranges, pushed, found, postfix, files,
                     num_generated_, gaveUp, dropped>>
  BY CounterTyped DEF SolverInv, AddAddr, At
<1>2. FilesTyped' /\ SavedFollowsPath'
  BY <1>1, Context, NothingSaved DEF SaveNothing
<1>3. CASE last_interested_
  <2>1. solver' = Slice(CallDeps(k)) /\ explored' = explored \cup {k} /\ pc' = "addr"
    BY <1>1, <1>3, QuestionTyped DEF AddAddr
  <2>2. PICK s \in Z3State : s = solver' /\ Sliced(s)
    BY <1>1, <2>1, Context, SliceSliced
  <2>3. Sliced(solver)'
    BY <1>1, <2>2, SlicedNow
  <2>4. AssertedInv'
    BY <1>1, <2>1, <2>3 DEF AssertedInv, event
  <2>5. Keeps
    BY <1>1, <1>2, <2>1, <2>2, Context DEF Keeps, BoundsTyped
  <2>6. QED BY <1>1, <2>1, <2>4, <2>5, MidCall DEF Phases
<1>4. CASE ~last_interested_
  <2>1. pc' = "value" /\ UNCHANGED <<solver, explored>>
    BY <1>4 DEF AddAddr
  <2>2. AssertedInv'
    BY <1>1, <2>1 DEF AssertedInv, event
  <2>3. Keeps
    BY <1>1, <1>2, <2>1, Context DEF Keeps, BoundsTyped
  <2>4. QED BY <1>1, <2>1, <2>2, <2>3, MidCall DEF Phases
<1>5. QED BY <1>3, <1>4

LEMMA CheckAddrInv ==
  ASSUME SolverInv, CheckAddr
  PROVE  SolverInv'
<1>1. /\ pc = "addr"
      /\ UNCHANGED <<program, last_interested_, forest, ranges, solver, postfix, explored>>
  BY DEF CheckAddr
<1>2. k \in DOMAIN program.events
  BY <1>1 DEF SolverInv, TypeOK
<1>3. event.call = "addAddr" /\ Sliced(solver)
  BY <1>1 DEF SolverInv, AssertedInv
<1>4. CASE /\ pushed' = solver
           /\ found' = [min |-> <<>>, max |-> <<>>]
           /\ pc' = "min"
           /\ SaveNothing /\ UNCHANGED <<k, gaveUp, dropped>>
  <2>1. PICK s \in Z3State : s = solver /\ Sliced(s)
    BY <1>2, <1>3, Context
  <2>2. Sliced(solver)' /\ Sliced(pushed)'
    BY <1>1, <1>4, <2>1, SlicedNow
  <2>3. AssertedInv'
    BY <1>1, <1>3, <1>4, <2>2 DEF AssertedInv, event
  <2>4. FilesTyped' /\ SavedFollowsPath'
    BY <1>1, <1>2, <1>4, Context, NothingSaved
  <2>5. BoundsTyped'
    BY <1>4 DEF BoundsTyped
  <2>6. Keeps
    BY <1>1, <1>2, <1>4, <2>4, <2>5, Context DEF Keeps
  <2>7. QED BY <1>1, <1>2, <1>4, <2>3, <2>6, MidCall DEF Phases
<1>5. CASE /\ NotSat
           /\ dropped' = dropped \cup {k}
           /\ Advance
           /\ UNCHANGED <<pushed, found>>
  <2>1. /\ k' = k + 1 /\ SaveNothing /\ gaveUp' \subseteq 1 .. k
        /\ dropped \subseteq dropped' /\ dropped' \subseteq 1 .. k /\ k \in dropped'
    BY <1>2, <1>5, NotSatKeeps, Context DEF Advance
  <2>2. FilesTyped' /\ SavedFollowsPath'
    BY <1>1, <1>2, <2>1, Context, NothingSaved
  <2>3. Keeps
    BY <1>1, <1>2, <1>5, <2>1, <2>2, Context DEF Keeps, BoundsTyped
  <2>4. QED BY <1>1, <1>2, <1>5, <2>1, <2>3, PassCall
<1>6. QED BY <1>4, <1>5 DEF CheckAddr

\* The value of a model, with the bytes it does not mention left symbolic.
LEMMA EvalTyped ==
  ASSUME SolverInv, k \in DOMAIN program.events, NEW m \in solver.models
  PROVE  Eval(m) \in [Assign -> Value]
<1>1. event.cond.left \in Term /\ m \in Assign /\ program \in Programs
  BY Context, CallTyped DEF Z3State
<1>2. ASSUME NEW a \in Assign
      PROVE  TermValue(event.cond.left, [i \in Byte |-> IF i \in solver.bytes THEN m[i] ELSE a[i]])
               \in Value
  <2>1. PICK b \in Assign : b = [i \in Byte |-> IF i \in solver.bytes THEN m[i] ELSE a[i]]
    BY <1>1 DEF Assign
  <2>2. TermValue(event.cond.left, b) \in Value
    BY <1>1, TermTyped
  <2>3. QED BY <2>1, <2>2
<1>3. QED BY <1>2 DEF Eval

\* What is asserted about the bytes of an address keeps the slice.
LEMMA AddrSliced ==
  ASSUME SolverInv, k \in DOMAIN program.events, event.call # "addJcc",
         Sliced(solver), NEW holds
  PROVE  Assert(solver, holds, Deps) \in Z3State /\ Sliced(Assert(solver, holds, Deps))
<1>1. PICK s \in Z3State : s = solver /\ Sliced(s)
  BY Context
<1>2. PICK d \in SUBSET CallDeps(k) : d = Deps
  BY QuestionTyped
<1>3. Assert(s, holds, d) \in Z3State /\ Sliced(Assert(s, holds, d))
  BY <1>1, Context, AssertSliced
<1>4. QED BY <1>1, <1>2, <1>3

LEMMA FindBoundInv ==
  ASSUME SolverInv, FindBound
  PROVE  SolverInv'
<1>1. /\ pc \in {"min", "max"}
      /\ UNCHANGED <<program, k, pc, last_interested_, forest, ranges, pushed, postfix, explored,
                     gaveUp, dropped>>
  BY DEF FindBound, history
<1>2. PICK m \in solver.models : /\ Save(m, "")
                                 /\ found' = [found EXCEPT ![pc] = Eval(m)]
                                 /\ solver' = Assert(solver, Beyond(Eval(m)), Deps)
  BY DEF FindBound
<1>3. k \in DOMAIN program.events
  BY <1>1 DEF SolverInv, TypeOK
<1>4. event.call = "addAddr" /\ Sliced(solver) /\ Sliced(pushed)
  BY <1>1 DEF SolverInv, AssertedInv
<1>5. FilesTyped' /\ SavedFollowsPath'
  <2>1. Call(k).call \notin {"addJcc", "solveAll"}
    BY <1>3, <1>4, Context
  <2>2. QED BY <1>1, <1>2, <1>3, <1>4, <2>1, Context, SaveStep
<1>6. solver' \in Z3State /\ Sliced(solver')
  <2>1. PICK holds : holds = Beyond(Eval(m))
    OBVIOUS
  <2>2. QED BY <1>2, <1>3, <1>4, <2>1, AddrSliced
<1>7. Sliced(solver)' /\ Sliced(pushed)'
  <2>1. PICK s \in Z3State : s = solver' /\ Sliced(s)
    BY <1>6
  <2>2. PICK p \in Z3State : p = pushed' /\ Sliced(p)
    BY <1>1, <1>3, <1>4, Context
  <2>3. QED BY <1>1, <2>1, <2>2, SlicedNow
<1>8. AssertedInv'
  BY <1>1, <1>4, <1>7 DEF AssertedInv, event
<1>9. BoundsTyped'
  <2>1. PICK e \in [Assign -> Value] : e = Eval(m)
    BY <1>3, EvalTyped
  <2>2. found' = [found EXCEPT ![pc] = e] /\ BoundsTyped
    BY <1>2, <1>3, <2>1, Context
  <2>3. DOMAIN found' = {"min", "max"}
    BY <2>2 DEF BoundsTyped
  <2>4. \A d \in {"min", "max"} : found'[d] = IF d = pc THEN e ELSE found[d]
    BY <1>1, <2>2 DEF BoundsTyped
  <2>5. QED BY <2>2, <2>3, <2>4 DEF BoundsTyped
<1>10. Keeps
  BY <1>1, <1>3, <1>5, <1>6, <1>9, Context DEF Keeps
<1>11. pc' \in Phases
  BY <1>1 DEF Phases
<1>12. QED BY <1>1, <1>3, <1>8, <1>10, <1>11, MidCall

LEMMA EndBoundInv ==
  ASSUME SolverInv, EndBound
  PROVE  SolverInv'
<1>1. /\ pc \in {"min", "max"} /\ NotSat
      /\ solver' = pushed
      /\ pc' \in {"max", "solve_min"}
      /\ UNCHANGED <<program, k, last_interested_, forest, ranges, pushed, found, postfix, explored,
                     dropped>>
  BY DEF EndBound
<1>2. k \in DOMAIN program.events
  BY <1>1 DEF SolverInv, TypeOK
<1>3. event.call = "addAddr" /\ Sliced(pushed)
  BY <1>1 DEF SolverInv, AssertedInv
<1>4. SaveNothing /\ gaveUp' \subseteq 1 .. k
  BY <1>1, <1>2, NotSatKeeps
<1>5. Sliced(solver)' /\ Sliced(pushed)' /\ solver' = pushed'
  <2>1. PICK s \in Z3State : s = pushed /\ Sliced(s)
    BY <1>2, <1>3, Context
  <2>2. QED BY <1>1, <2>1, SlicedNow
<1>6. AssertedInv'
  BY <1>1, <1>3, <1>5 DEF AssertedInv, event
<1>7. FilesTyped' /\ SavedFollowsPath'
  BY <1>1, <1>2, <1>4, Context, NothingSaved
<1>8. Keeps
  BY <1>1, <1>2, <1>4, <1>7, Context DEF Keeps, BoundsTyped
<1>9. QED BY <1>1, <1>2, <1>6, <1>8, MidCall DEF Phases

LEMMA SolveOneInv ==
  ASSUME SolverInv, SolveOne
  PROVE  SolverInv'
<1>1. /\ pc \in {"solve_min", "solve_max"} /\ SaveNothing
      /\ UNCHANGED <<program, k, last_interested_, forest, ranges, pushed, found, postfix, explored,
                     gaveUp, dropped>>
  BY DEF SolveOne
<1>2. k \in DOMAIN program.events
  BY <1>1 DEF SolverInv, TypeOK
<1>3. event.call = "addAddr" /\ Sliced(pushed) /\ Sliced(solver)
  BY <1>1 DEF SolverInv, AssertedInv
<1>4. \/ pc' = "aborted" /\ solver' = solver
      \/ pc' \in {"check_min", "check_max"} /\ \E holds : solver' = Assert(solver, holds, Deps)
  BY DEF SolveOne
<1>5. solver' \in Z3State /\ Sliced(solver')
  BY <1>2, <1>3, <1>4, Context, AddrSliced
<1>6. Sliced(solver)' /\ Sliced(pushed)'
  <2>1. PICK s \in Z3State : s = solver' /\ Sliced(s)
    BY <1>5
  <2>2. PICK p \in Z3State : p = pushed' /\ Sliced(p)
    BY <1>1, <1>2, <1>3, Context
  <2>3. QED BY <1>1, <2>1, <2>2, SlicedNow
<1>7. AssertedInv'
  BY <1>1, <1>3, <1>4, <1>6 DEF AssertedInv, event
<1>8. FilesTyped' /\ SavedFollowsPath'
  BY <1>1, <1>2, Context, NothingSaved
<1>9. Keeps
  BY <1>1, <1>2, <1>5, <1>8, Context DEF Keeps, BoundsTyped
<1>10. pc' \in Phases
  BY <1>4 DEF Phases
<1>11. QED BY <1>1, <1>2, <1>7, <1>9, <1>10, MidCall

LEMMA CheckOneInv ==
  ASSUME SolverInv, CheckOne
  PROVE  SolverInv'
<1>1. /\ pc \in {"check_min", "check_max"}
      /\ solver' = pushed
      /\ pc' \in {"solve_max", "value"}
      /\ UNCHANGED <<program, k, last_interested_, forest, ranges, pushed, found, postfix, explored,
                     dropped>>
  BY DEF CheckOne
<1>2. k \in DOMAIN program.events
  BY <1>1 DEF SolverInv, TypeOK
<1>3. event.call = "addAddr" /\ Sliced(pushed) /\ Sliced(solver)
  BY <1>1 DEF SolverInv, AssertedInv
<1>4. FilesTyped' /\ SavedFollowsPath' /\ gaveUp' \subseteq 1 .. k
  <2>1. CASE \E m \in solver.models : Save(m, "") /\ UNCHANGED gaveUp
    <3>1. Call(k).call \notin {"addJcc", "solveAll"}
      BY <1>2, <1>3, Context
    <3>2. QED BY <1>1, <1>2, <1>3, <2>1, <3>1, Context, SaveStep
  <2>2. CASE NotSat
    BY <1>1, <1>2, <2>2, Context, NotSatKeeps, NothingSaved
  <2>3. QED BY <2>1, <2>2 DEF CheckOne
<1>5. Sliced(pushed)' /\ solver' = pushed'
  <2>1. PICK s \in Z3State : s = pushed /\ Sliced(s)
    BY <1>2, <1>3, Context
  <2>2. QED BY <1>1, <2>1, SlicedNow
<1>6. AssertedInv'
  BY <1>1, <1>3, <1>5 DEF AssertedInv, event
<1>7. Keeps
  BY <1>1, <1>2, <1>4, Context DEF Keeps, BoundsTyped
<1>8. QED BY <1>1, <1>2, <1>6, <1>7, MidCall DEF Phases

\* What is asserted of an indirect jump: its value differs from that of the run, or nothing
\* when it is constant.
LEMMA JumpDiffers ==
  ASSUME SolverInv, k \in DOMAIN program.events, event.call = "solveAll", NEW s \in Z3State,
         CallDeps(k) = {} => s.bytes = {}
  PROVE  /\ AddToSolver(s) \in Z3State
         /\ Differs(AddToSolver(s))
         /\ Sliced(s) => Sliced(AddToSolver(s))
<1>1. PICK holds : holds = {a \in Assign : ~Same(k, a)}
  OBVIOUS
<1>2. Different = holds /\ Deps = CallDeps(k)
  BY <1>1, QuestionTyped
<1>3. CASE CallDeps(k) = {}
  <2>1. AddToSolver(s) = s
    BY <1>2, <1>3 DEF AddToSolver
  <2>2. QED BY <1>3, <2>1 DEF Differs
<1>4. CASE CallDeps(k) # {}
  <2>1. /\ Assert(s, holds, CallDeps(k)) \in Z3State
        /\ Differs(Assert(s, holds, CallDeps(k)))
    BY <1>1, Context, AssertDiffers
  <2>2. PICK d \in SUBSET CallDeps(k) : d = CallDeps(k)
    OBVIOUS
  <2>3. Sliced(s) => Sliced(Assert(s, holds, d))
    BY Context, AssertSliced
  <2>4. AddToSolver(s) = Assert(s, holds, CallDeps(k))
    BY <1>2, <1>4 DEF AddToSolver
  <2>5. QED BY <2>1, <2>2, <2>3, <2>4
<1>5. QED BY <1>3, <1>4

LEMMA SolveAllInv ==
  ASSUME SolverInv, SolveAll
  PROVE  SolverInv'
<1>1. /\ k \in DOMAIN program.events /\ event.call = "solveAll" /\ pc = "run"
      /\ UNCHANGED <<program, k, last_interested_, forest, ranges, pushed, found, postfix, files,
                     num_generated_, gaveUp, dropped>>
  BY CounterTyped DEF SolverInv, SolveAll, At
<1>2. FilesTyped' /\ SavedFollowsPath'
  BY <1>1, Context, NothingSaved DEF SaveNothing
<1>3. CASE last_interested_
  <2>1. /\ solver' = AddToSolver(Slice(CallDeps(k)))
        /\ explored' = explored \cup {k} /\ pc' = "all"
    BY <1>1, <1>3, QuestionTyped DEF SolveAll
  <2>2. PICK slice \in Z3State : slice = Slice(CallDeps(k)) /\ Sliced(slice)
    BY <1>1, Context, SliceSliced
  <2>3. PICK s \in Z3State : s = solver' /\ Sliced(s) /\ Differs(s)
    <3>1. CallDeps(k) = {} => slice.bytes = {}
      BY <2>2 DEF Sliced, SliceTrees, Touched
    <3>2. QED BY <1>1, <2>1, <2>2, <3>1, JumpDiffers
  <2>4. Sliced(solver)' /\ Differs(solver)'
    BY <1>1, <2>3, SlicedNow
  <2>5. AssertedInv'
    BY <1>1, <2>1, <2>4 DEF AssertedInv, event
  <2>6. Keeps
    BY <1>1, <1>2, <2>1, <2>3, Context DEF Keeps, BoundsTyped
  <2>7. QED BY <1>1, <2>1, <2>5, <2>6, MidCall DEF Phases
<1>4. CASE ~last_interested_
  <2>1. pc' = "value" /\ UNCHANGED <<solver, explored>>
    BY <1>4 DEF SolveAll
  <2>2. AssertedInv'
    BY <1>1, <2>1 DEF AssertedInv, event
  <2>3. Keeps
    BY <1>1, <1>2, <2>1, Context DEF Keeps, BoundsTyped
  <2>4. QED BY <1>1, <2>1, <2>2, <2>3, MidCall DEF Phases
<1>5. QED BY <1>3, <1>4

LEMMA CheckAllInv ==
  ASSUME SolverInv, CheckAll
  PROVE  SolverInv'
<1>1. /\ pc = "all" /\ pc' = "enumerate"
      /\ UNCHANGED <<program, k, last_interested_, forest, ranges, pushed, found, explored, dropped>>
  BY DEF CheckAll
<1>2. k \in DOMAIN program.events
  BY <1>1 DEF SolverInv, TypeOK
<1>3. event.call = "solveAll" /\ Sliced(solver) /\ Differs(solver)
  BY <1>1 DEF SolverInv, AssertedInv
<1>4. CASE postfix' = "" /\ SaveNothing /\ UNCHANGED <<solver, gaveUp>>
  <2>1. PICK s \in Z3State : s = solver' /\ Sliced(s) /\ Differs(s)
    BY <1>2, <1>3, <1>4, Context
  <2>2. Sliced(solver)' /\ Differs(solver)'
    BY <1>1, <2>1, SlicedNow
  <2>3. AssertedInv'
    BY <1>1, <1>3, <2>2 DEF AssertedInv, event
  <2>4. FilesTyped' /\ SavedFollowsPath'
    BY <1>1, <1>2, <1>4, Context, NothingSaved
  <2>5. Keeps
    BY <1>1, <1>2, <1>4, <2>4, Context DEF Keeps, BoundsTyped
  <2>6. QED BY <1>1, <1>2, <2>3, <2>5, MidCall DEF Phases
<1>5. CASE /\ NotSat
           /\ postfix' = "optimistic"
           /\ solver' = AddToSolver(Reset)
  <2>1. PICK s \in Z3State : s = solver' /\ Differs(s)
    <3>1. PICK r \in Z3State : r = Reset
      BY <1>2, Context
    <3>2. r.bytes = {}
      BY <3>1 DEF Reset
    <3>3. QED BY <1>2, <1>3, <1>5, <3>1, <3>2, JumpDiffers
  <2>2. Differs(solver)'
    BY <1>1, <2>1, SlicedNow
  <2>3. AssertedInv'
    BY <1>1, <1>3, <1>5, <2>2 DEF AssertedInv, event
  <2>4. SaveNothing /\ gaveUp' \subseteq 1 .. k
    BY <1>2, <1>5, NotSatKeeps
  <2>5. FilesTyped' /\ SavedFollowsPath'
    BY <1>1, <1>2, <2>4, Context, NothingSaved
  <2>6. Keeps
    BY <1>1, <1>2, <1>5, <2>1, <2>4, <2>5, Context DEF Keeps, BoundsTyped
  <2>7. QED BY <1>1, <1>2, <2>3, <2>6, MidCall DEF Phases
<1>6. QED BY <1>4, <1>5 DEF CheckAll

LEMMA EnumerateInv ==
  ASSUME SolverInv, Enumerate
  PROVE  SolverInv'
<1>1. /\ pc = "enumerate"
      /\ UNCHANGED <<program, k, last_interested_, forest, ranges, pushed, found, postfix, explored,
                     dropped>>
  BY DEF Enumerate
<1>2. k \in DOMAIN program.events
  BY <1>1 DEF SolverInv, TypeOK
<1>3. event.call = "solveAll" /\ (postfix = "" => Sliced(solver)) /\ Differs(solver)
  BY <1>1 DEF SolverInv, AssertedInv
<1>4. ASSUME NEW m \in solver.models, Save(m, postfix),
             solver' = Assert(solver, {a \in Assign : TermValue(event.cond.left, a) # Eval(m)[a]}, Deps),
             UNCHANGED <<pc, gaveUp>>
      PROVE  SolverInv'
  <2>1. FilesTyped' /\ SavedFollowsPath'
    <3>1. PICK post \in {"", "optimistic"} : post = postfix
      BY <1>2, Context
    <3>2. QED BY <1>1, <1>2, <1>3, <1>4, <3>1, Context, SaveStep
  <2>2. PICK holds : solver' = Assert(solver, holds, Deps)
    BY <1>4
  <2>3. PICK p \in Z3State : p = solver
    BY <1>2, Context
  <2>4. Deps \in SUBSET Byte /\ Deps \subseteq CallDeps(k)
    BY <1>2, <1>3, Context, QuestionTyped
  <2>5. PICK s \in Z3State : s = solver' /\ Differs(s)
    <3>1. PICK d \in SUBSET Byte : d = Deps
      BY <2>4
    <3>2. Assert(p, holds, d) \in Z3State
      BY AssertTyped
    <3>3. Differs(Assert(p, holds, d))
      BY <1>3, <2>3, <2>4, <3>1, DiffersKept
    <3>4. QED BY <2>2, <2>3, <3>1, <3>2, <3>3
  <2>6. postfix = "" => Sliced(s)
    BY <1>2, <1>3, <2>2, <2>5, AddrSliced
  <2>7. Differs(solver)' /\ (postfix = "" => Sliced(solver)')
    BY <1>1, <2>5, <2>6, SlicedNow
  <2>8. AssertedInv'
    BY <1>1, <1>3, <1>4, <2>7 DEF AssertedInv, event
  <2>9. Keeps
    BY <1>1, <1>2, <1>4, <2>1, <2>5, Context DEF Keeps, BoundsTyped
  <2>10. QED BY <1>1, <1>2, <1>4, <2>8, <2>9, MidCall DEF Phases
<1>5. CASE NotSat /\ pc' = "value" /\ UNCHANGED solver
  <2>1. SaveNothing /\ gaveUp' \subseteq 1 .. k
    BY <1>2, <1>5, NotSatKeeps
  <2>2. FilesTyped' /\ SavedFollowsPath'
    BY <1>1, <1>2, <2>1, Context, NothingSaved
  <2>3. AssertedInv'
    BY <1>1, <1>3, <1>5 DEF AssertedInv, event
  <2>4. Keeps
    BY <1>1, <1>2, <1>5, <2>1, <2>2, Context DEF Keeps, BoundsTyped
  <2>5. QED BY <1>1, <1>2, <1>5, <2>3, <2>4, MidCall DEF Phases
<1>6. QED BY <1>4, <1>5 DEF Enumerate

LEMMA InitInv == Init => SolverInv
<1> SUFFICES ASSUME Init PROVE SolverInv
  OBVIOUS
<1>1. /\ program \in Programs /\ k = 1 /\ pc = "run" /\ last_interested_ = FALSE
      /\ forest = {[deps |-> {i}, nodes |-> {}] : i \in Byte}
      /\ ranges = [x \in Canonical |-> Value]
      /\ DOMAIN files = {} /\ num_generated_ = 0
      /\ explored = {} /\ gaveUp = {} /\ dropped = {}
  BY DEF Init
<1>2. Len(program.events) \in Nat /\ inputs \in Assign
  <2>1. program.events \in Seq(Event) /\ inputs \in Assign
    BY <1>1, ProgramTyped DEF inputs
  <2>2. QED BY <2>1
<1>3. TypeOK
  <2>1. solver \in Z3State /\ pushed \in Z3State
    BY DEF Init, Z3State, Reset
  <2>2. BoundsTyped /\ postfix \in {"", "optimistic"}
    <3>1. found = [min |-> <<>>, max |-> <<>>]
      BY DEF Init
    <3>2. DOMAIN found = {"min", "max"} /\ found.min = <<>> /\ found.max = <<>>
      BY <3>1
    <3>3. BoundsTyped
      BY <3>2 DEF BoundsTyped
    <3>4. postfix = ""
      BY DEF Init
    <3>5. QED BY <3>3, <3>4
  <2>3. FilesTyped /\ AskedTyped
    BY <1>1 DEF FilesTyped, AskedTyped
  <2>4. forest \subseteq Tree /\ ranges \in [Canonical -> SUBSET Value]
    BY <1>1 DEF Tree
  <2>5. k \in 1 .. Len(program.events) + 1
    BY <1>1, <1>2
  <2>6. QED BY <1>1, <2>1, <2>2, <2>3, <2>4, <2>5, TypeParts DEF Phases
<1>4. ForestInv
  <2>1. \A x \in Canonical : CanonicalValue(x, inputs) \in ranges[x]
    BY <1>1, <1>2, CanonicalTyped
  <2>2. \A i \in Byte : \E t \in forest : i \in t.deps
    <3> TAKE i \in Byte
    <3>1. [deps |-> {i}, nodes |-> {}] \in forest
      BY <1>1
    <3>2. i \in [deps |-> {i}, nodes |-> {}].deps
      OBVIOUS
    <3>3. QED BY <3>1, <3>2
  <2>3. \A s, t \in forest : s.deps \cap t.deps # {} => s = t
    <3> TAKE s, t \in forest
    <3> HAVE s.deps \cap t.deps # {}
    <3>1. PICK i \in Byte : s = [deps |-> {i}, nodes |-> {}]
      BY <1>1
    <3>2. PICK j \in Byte : t = [deps |-> {j}, nodes |-> {}]
      BY <1>1
    <3>3. s.deps = {i} /\ t.deps = {j}
      BY <3>1, <3>2
    <3>4. i = j
      BY <3>3
    <3>5. QED BY <3>1, <3>2, <3>4
  <2>4. \A t \in forest : t.nodes = {}
    BY <1>1
  <2>5. QED BY <2>1, <2>2, <2>3, <2>4 DEF ForestInv
<1>5. PathInv
  BY <1>1 DEF PathInv, Follows
<1>6. AssertedInv /\ SavedFollowsPath
  BY <1>1 DEF AssertedInv, SavedFollowsPath
<1>7. QED BY <1>3, <1>4, <1>5, <1>6 DEF SolverInv

LEMMA NextInv == SolverInv /\ [Next]_vars => SolverInv'
<1>1. SolverInv /\ UNCHANGED vars => SolverInv'
  <2> SUFFICES ASSUME SolverInv, UNCHANGED vars PROVE SolverInv'
    OBVIOUS
  <2> USE DEF vars, history
  <2>1. TypeOK /\ ForestInv /\ PathInv /\ AssertedInv /\ SavedFollowsPath
    BY DEF SolverInv
  <2>2. TypeOK'
    BY <2>1 DEF TypeOK
  <2>3. ForestInv'
    BY <2>1 DEF ForestInv, NodeHolds, NodeDeps, CanonicalValue, CondDeps, TermDeps, Truth, TermValue,
                inputs
  <2>4. PathInv'
    BY <2>1 DEF PathInv, Follows, Same, Call, NodeHolds, CanonicalValue, Truth, TermValue, inputs, NodesOf
  <2>5. AssertedInv'
    BY <2>1, SlicedNow DEF AssertedInv, event, Sliced, Differs, SliceTrees, Touched, NodeModels,
       NodeHolds, NodeDeps, CanonicalValue, CondDeps, TermDeps, Truth, TermValue, inputs, CallDeps,
       Same, Call, NodesOf
  <2>6. SavedFollowsPath'
    BY <2>1, NothingSaved DEF SolverInv, SaveNothing
  <2>7. QED BY <2>2, <2>3, <2>4, <2>5, <2>6 DEF SolverInv
<1>2. QED BY <1>1, ConcreteInv, AddJccInv, NegateInv, NegateOptimisticInv, AddValueInv, AddAddrInv,
             CheckAddrInv, FindBoundInv, EndBoundInv, SolveOneInv, CheckOneInv, SolveAllInv,
             CheckAllInv, EnumerateInv
          DEF Next, Step, Done

\* What the solver knows of the run and what it asks Z3 stay in step, for every program,
\* every input, every width of values and however often Z3 gives up.
THEOREM SolverInvariant == Spec => []SolverInv
  BY InitInv, NextInv, PTL DEF Spec

\* A testcase that is not optimistic follows the run up to the call it was generated for, and
\* a testcase for a branch or an indirect jump departs from it there, unless the target of the
\* jump is a constant: then it is the input of the run.
THEOREM SavedFollows == Spec => []SavedFollowsPath
<1>1. SolverInv => SavedFollowsPath
  BY DEF SolverInv
<1>2. QED BY <1>1, SolverInvariant, PTL

-------------------------------------------------------------------------------
(* Why nothing feasible is lost.                                               *)

\* No constraint excludes an input that follows the run: with PathInv, the forest says exactly
\* what was recorded.
NothingExcluded ==
  \A a \in Assign : Follows(k, a) =>
    /\ \A x \in Canonical : CanonicalValue(x, a) \in ranges[x]
    /\ \A n \in NodesOf(forest) : NodeHolds(n, a)

\* A byte of something recorded that excludes some input is a byte of a node that does.
BytesMentioned ==
  \A i \in Constrained(k) :
    \E n \in NodesOf(forest) : i \in NodeDeps(n) /\ NodeModels(n) # Assign

\* As long as the numbers last, no testcase replaces another.
NamesFresh ==
  num_generated_ <= NameLimit =>
    \A name \in DOMAIN files :
      \E n \in 0 .. num_generated_ - 1, post \in {"", "optimistic"} : name = <<n, post>>

LowTried(a) ==
  CallDeps(k) \subseteq Constrained(k) => \E lo \in Saved(k) : LeftValue(k, lo) <= LeftValue(k, a)
HighTried(a) ==
  CallDeps(k) \subseteq Constrained(k) => \E hi \in Saved(k) : LeftValue(k, a) <= LeftValue(k, hi)
JumpTried(a) == Same(k, a) \/ \E s \in Saved(k) : LeftValue(k, s) = LeftValue(k, a)

\* At every control point an input that follows the run is still a model of what is asserted,
\* or what the call owes it was tried.
Owed(a) ==
  /\ pc = "negate" => Same(k, a) \/ a \in solver.models
  /\ pc = "optimistic" => Same(k, a)
  /\ pc = "addr" => a \in solver.models
  /\ pc \in {"min", "max"} => a \in pushed.models
  /\ pc = "min" => LowTried(a) \/ a \in solver.models
  /\ pc \in {"max", "solve_min", "check_min", "solve_max", "check_max"} => LowTried(a)
  /\ pc = "max" => HighTried(a) \/ a \in solver.models
  /\ pc \in {"solve_min", "check_min", "solve_max", "check_max"} => HighTried(a)
  /\ pc \in {"all", "enumerate"} => JumpTried(a) \/ a \in solver.models
  /\ pc = "value" => Tried(k, a)

QuestionCovers ==
  num_generated_ <= NameLimit /\ k \in explored \ gaveUp =>
    \A a \in Assign : Follows(k, a) => Owed(a)

CompleteInv ==
  /\ NothingExcluded /\ BytesMentioned
  /\ NamesFresh
  /\ pc = "run" => k \notin explored
  /\ QuestionCovers
  /\ FeasibleSaved

-------------------------------------------------------------------------------
(* What was saved stays.                                                       *)

\* A step that saves one testcase, or none.
Saves == SaveNothing \/ \E m \in Assign, post \in {"", "optimistic"} : Save(m, post)

LEMMA Counting ==
  ASSUME NEW n \in Nat
  PROVE  /\ n + 1 <= NameLimit => n < NameLimit /\ n <= NameLimit
         /\ n \in 0 .. (n + 1) - 1 /\ 0 .. n - 1 \subseteq 0 .. (n + 1) - 1
         /\ n \notin 0 .. n - 1
  BY SolverAssumption

LEMMA SaveFresh ==
  ASSUME num_generated_ \in Nat, NamesFresh, NEW m, NEW post \in {"", "optimistic"}, Save(m, post),
         num_generated_' <= NameLimit
  PROVE  /\ num_generated_ <= NameLimit /\ NamesFresh'
         /\ \A j : Saved(j) \subseteq Saved(j)'
         /\ Values(m) \in {files'[name].values : name \in {x \in DOMAIN files' : files'[x].call = k}}
<1> DEFINE name == <<num_generated_, post>>
           f == [values |-> Values(m), call |-> k, postfix |-> post]
<1> DEFINE next == num_generated_ + 1
<1>0. num_generated_' = next
  BY DEF Save
<1>1. /\ num_generated_ < NameLimit /\ num_generated_ <= NameLimit
      /\ num_generated_ \in 0 .. next - 1 /\ 0 .. num_generated_ - 1 \subseteq 0 .. next - 1
      /\ num_generated_ \notin 0 .. num_generated_ - 1
  BY <1>0, Counting
<1>2. Number(num_generated_) = num_generated_
  BY <1>1 DEF Number
<1>3. /\ DOMAIN files' = DOMAIN files \cup {name}
      /\ files'[name] = f
      /\ \A x \in DOMAIN files : x # name => files'[x] = files[x]
  BY <1>2 DEF Save, Extend
<1>4. \A x \in DOMAIN files : \E n \in 0 .. num_generated_ - 1, p \in {"", "optimistic"} : x = <<n, p>>
  BY <1>1 DEF NamesFresh
<1>5. name \notin DOMAIN files
  <2> SUFFICES ASSUME name \in DOMAIN files PROVE FALSE
    OBVIOUS
  <2>1. PICK n \in 0 .. num_generated_ - 1, p \in {"", "optimistic"} : name = <<n, p>>
    BY <1>4
  <2>2. n = num_generated_
    BY <2>1
  <2>3. QED BY <1>1, <2>1, <2>2
<1>6. NamesFresh'
  <2> HIDE DEF next
  <2>1. \A x \in DOMAIN files' :
          \E n \in 0 .. next - 1, p \in {"", "optimistic"} : x = <<n, p>>
    <3> TAKE x \in DOMAIN files'
    <3>1. CASE x = name
      BY <1>1, <3>1
    <3>2. CASE x # name
      <4>1. x \in DOMAIN files
        BY <1>3, <3>2
      <4>2. PICK n \in 0 .. num_generated_ - 1, p \in {"", "optimistic"} : x = <<n, p>>
        BY <1>4, <4>1
      <4>3. QED BY <1>1, <4>2
    <3>3. QED BY <3>1, <3>2
  <2>2. QED BY <1>0, <2>1 DEF NamesFresh
<1>7. f.call = k /\ f.values = Values(m)
  OBVIOUS
<1> HIDE DEF name, f
<1>8. \A j : Saved(j) \subseteq Saved(j)'
  <2> SUFFICES ASSUME NEW j, NEW v \in Saved(j) PROVE v \in Saved(j)'
    OBVIOUS
  <2>1. PICK x \in DOMAIN files : files[x].call = j /\ v = files[x].values
    BY DEF Saved
  <2>2. x \in DOMAIN files' /\ files'[x] = files[x]
    BY <1>3, <1>5
  <2>3. QED BY <2>1, <2>2 DEF Saved
<1>9. Values(m) \in {files'[x].values : x \in {y \in DOMAIN files' : files'[y].call = k}}
  BY <1>3, <1>7
<1>10. QED BY <1>1, <1>6, <1>8, <1>9

LEMMA SavesKeep ==
  ASSUME num_generated_ \in Nat, NamesFresh, Saves
  PROVE  /\ NamesFresh'
         /\ num_generated_' <= NameLimit =>
              num_generated_ <= NameLimit /\ \A j : Saved(j) \subseteq Saved(j)'
<1>1. CASE SaveNothing
  <2>1. files' = files /\ num_generated_' = num_generated_
    BY <1>1 DEF SaveNothing
  <2>2. QED BY <2>1 DEF NamesFresh, Saved
<1>2. ASSUME NEW m \in Assign, NEW post \in {"", "optimistic"}, Save(m, post)
      PROVE  /\ NamesFresh'
             /\ num_generated_' <= NameLimit =>
                  num_generated_ <= NameLimit /\ \A j : Saved(j) \subseteq Saved(j)'
  <2>1. CASE num_generated_' <= NameLimit
    BY <1>2, <2>1, SaveFresh
  <2>2. CASE ~(num_generated_' <= NameLimit)
    BY <2>2 DEF NamesFresh
  <2>3. QED BY <2>1, <2>2
<1>3. QED BY <1>1, <1>2 DEF Saves

\* A testcase saved for the call is among those of the call.
LEMMA SavedNow ==
  ASSUME num_generated_ \in Nat, NamesFresh, NEW m, NEW post \in {"", "optimistic"}, Save(m, post),
         num_generated_' <= NameLimit,
         NEW j, j = k, NEW v, v = Values(m)
  PROVE  v \in Saved(j)'
<1>1. Values(m) \in {files'[name].values : name \in {x \in DOMAIN files' : files'[x].call = k}}
  BY SaveFresh
<1>2. QED BY <1>1 DEF Saved

-------------------------------------------------------------------------------
(* What is owed to an input.                                                   *)

\* Calls before j are never dropped once j is reached.
LEMMA BehindStable ==
  ASSUME TypeOK, program' = program, dropped \subseteq dropped', dropped' \subseteq dropped \cup {k},
         NEW j \in 1 .. k
  PROVE  /\ \A a : Follows(j, a)' <=> Follows(j, a)
         /\ Constrained(j)' = Constrained(j)
<1>1. /\ \A i, a : Same(i, a)' <=> Same(i, a)
      /\ \A i : CallDeps(i)' = CallDeps(i)
  BY FollowsStable DEF CallDeps, CondDeps, TermDeps
<1>2. \A i \in 1 .. j - 1 : i # k
  BY CounterTyped
<1>3. \A i \in 1 .. j - 1 : i \in dropped' <=> i \in dropped
  BY <1>2
<1>4. \A a : Follows(j, a)' <=> Follows(j, a)
  BY <1>1, <1>3 DEF Follows
<1>5. {i \in (1 .. j - 1) \ dropped' : \E a \in Assign : ~Same(i, a)'}
        = {i \in (1 .. j - 1) \ dropped : \E a \in Assign : ~Same(i, a)}
  BY <1>1, <1>3
<1>6. Constrained(j)' = Constrained(j)
  BY <1>1, <1>5 DEF Constrained
<1>7. QED BY <1>4, <1>6

LEMMA TriedStable ==
  ASSUME TypeOK, program' = program, dropped \subseteq dropped', dropped' \subseteq dropped \cup {k},
         NEW j \in 1 .. k, Saved(j) \subseteq Saved(j)', NEW a, Tried(j, a)
  PROVE  Tried(j, a)'
<1>1. /\ Same(j, a)' <=> Same(j, a)
      /\ Call(j)' = Call(j)
      /\ \A b : LeftValue(j, b)' = LeftValue(j, b)
      /\ \A t : TermDeps(t)' = TermDeps(t)
  BY FollowsStable DEF LeftValue, TermValue, TermDeps, Call
<1>2. Constrained(j)' = Constrained(j)
  BY BehindStable
<1>3. QED BY <1>1, <1>2 DEF Tried

LEMMA CallBehind ==
  ASSUME TypeOK, k' = k + 1
  PROVE  k \in 1 .. k' - 1 /\ k \notin dropped /\ 1 .. k - 1 \subseteq 1 .. k' - 1
<1>1. k \in Nat \ {0} /\ dropped \subseteq 1 .. k - 1
  BY CounterTyped, TypeParts DEF AskedTyped
<1>2. k \in 1 .. (k + 1) - 1 /\ 1 .. k - 1 \subseteq 1 .. (k + 1) - 1 /\ k \notin 1 .. k - 1
  BY <1>1
<1>3. QED BY <1>1, <1>2

\* Recording a call narrows the forest by no more than what the run did there.
LEMMA RecordExact ==
  ASSUME TypeOK, ForestInv, NothingExcluded, BytesMentioned, program' = program,
         k \in DOMAIN program.events,
         NEW c \in Condition, NEW taken \in BOOLEAN, Record(c, taken),
         k' = k + 1, dropped' = dropped,
         CondDeps(c) = CallDeps(k),
         \A a \in Assign : Truth(c, a) = taken <=> Same(k, a)
  PROVE  NothingExcluded' /\ BytesMentioned'
<1> DEFINE n == NodeOf(c, taken)
<1>1. program \in Programs /\ ranges \in [Canonical -> SUBSET Value] /\ forest \subseteq Tree
  BY DEF TypeOK, Tree
<1>2. Covered /\ Disjoint /\ Inside
  BY <1>1, ForestParts
<1>3. /\ AddNode(n) /\ n \in Node /\ NodeDeps(n) = CondDeps(c)
      /\ ranges' \in [Canonical -> SUBSET Value]
      /\ \A x \in Canonical : ranges'[x] \subseteq ranges[x]
      /\ \A x \in Canonical : \A a \in Assign :
           CanonicalValue(x, a) \in ranges[x] /\ Truth(c, a) = taken =>
             CanonicalValue(x, a) \in ranges'[x]
      /\ \A a \in Assign : NodeHolds(n, a)' => Truth(c, a) = taken
  BY <1>1, RecordNode
<1>4. NodesOf(forest') = NodesOf(forest) \cup (IF NodeDeps(n) = {} THEN {} ELSE {n})
  BY <1>1, <1>2, <1>3, AddNodeForest
<1>5. NodesOf(forest) \subseteq Node
  BY <1>1 DEF NodesOf, Tree
<1>6. /\ \A x, a : CanonicalValue(x, a)' = CanonicalValue(x, a)
      /\ \A m : NodeDeps(m)' = NodeDeps(m)
      /\ \A m, a : Truth(m, a)' = Truth(m, a)
      /\ \A j, a : Same(j, a)' = Same(j, a)
      /\ \A j : CallDeps(j)' = CallDeps(j)
  BY DEF CanonicalValue, NodeDeps, CondDeps, TermDeps, Truth, TermValue, Same, Call, inputs, CallDeps
<1>7. \A i \in 1 .. k' - 1 : i \in 1 .. k - 1 \/ i = k
  BY CallSplit
<1>8. k \in 1 .. k' - 1 /\ k \notin dropped /\ 1 .. k - 1 \subseteq 1 .. k' - 1
  BY CallBehind
<1>9. NothingExcluded'
  <2> SUFFICES ASSUME NEW a \in Assign, Follows(k, a)'
               PROVE  /\ \A x \in Canonical : CanonicalValue(x, a)' \in ranges'[x]
                      /\ \A m \in NodesOf(forest') : NodeHolds(m, a)'
    BY DEF NothingExcluded
  <2>1. \A i \in 1 .. k' - 1 : i \in dropped \/ Same(i, a)
    BY <1>6 DEF Follows
  <2>2. Follows(k, a) /\ Truth(c, a) = taken
    BY <1>8, <2>1 DEF Follows
  <2>3. /\ \A x \in Canonical : CanonicalValue(x, a) \in ranges[x]
        /\ \A m \in NodesOf(forest) : NodeHolds(m, a)
    BY <2>2 DEF NothingExcluded
  <2>4. \A x \in Canonical : CanonicalValue(x, a)' \in ranges'[x]
    BY <1>3, <1>6, <2>2, <2>3
  <2>5. \A m \in NodesOf(forest) : NodeHolds(m, a)'
    BY <1>5, <1>6, <2>3, <2>4 DEF NodeHolds, Node
  <2>6. NodeHolds(n, a)'
    <3>1. CASE n.range
      BY <1>3, <2>4, <3>1 DEF NodeHolds, Node
    <3>2. CASE ~n.range
      <4>1. n = Relational(c, taken)
        BY <3>2 DEF NodeOf, Ranged
      <4>2. QED BY <1>6, <2>2, <4>1 DEF NodeHolds, Relational
    <3>3. QED BY <3>1, <3>2
  <2> HIDE DEF n
  <2>7. QED BY <1>4, <2>4, <2>5, <2>6
<1> HIDE DEF n
<1>10. \A m \in Node : NodeModels(m)' \subseteq NodeModels(m)
  BY <1>3, <1>6 DEF NodeModels, NodeHolds, Node
<1>11. BytesMentioned'
  <2>1. ASSUME NEW i \in Constrained(k)
        PROVE  \E m \in NodesOf(forest') : i \in NodeDeps(m) /\ NodeModels(m)' # Assign
    <3>1. PICK m \in NodesOf(forest) : i \in NodeDeps(m) /\ NodeModels(m) # Assign
      BY DEF BytesMentioned
    <3>2. NodeModels(m) \subseteq Assign
      BY DEF NodeModels
    <3>3. QED BY <1>4, <1>5, <1>10, <3>1, <3>2
  <2>2. ASSUME NEW i \in CallDeps(k), NEW a \in Assign, ~Same(k, a)
        PROVE  \E m \in NodesOf(forest') : i \in NodeDeps(m) /\ NodeModels(m)' # Assign
    <3>1. n \in NodesOf(forest') /\ i \in NodeDeps(n)
      BY <1>3, <1>4
    <3>2. ~NodeHolds(n, a)'
      BY <1>3, <2>2
    <3>3. a \notin NodeModels(n)'
      BY <3>2 DEF NodeModels
    <3>4. QED BY <3>1, <3>3
  <2>3. ASSUME NEW i, i \in Constrained(k)'
        PROVE  i \in Constrained(k) \/ (i \in CallDeps(k) /\ \E a \in Assign : ~Same(k, a))
    <3>1. PICK j \in (1 .. k' - 1) \ dropped' : i \in CallDeps(j)' /\ \E a \in Assign : ~Same(j, a)'
      BY <2>3 DEF Constrained
    <3>2. j \notin dropped /\ i \in CallDeps(j) /\ \E a \in Assign : ~Same(j, a)
      BY <1>6, <3>1
    <3>3. CASE j \in 1 .. k - 1
      BY <3>2, <3>3 DEF Constrained
    <3>4. CASE j = k
      BY <3>2, <3>4
    <3>5. QED BY <1>7, <3>1, <3>3, <3>4
  <2>4. \A m : NodeDeps(m)' = NodeDeps(m)
    BY <1>6
  <2>5. QED BY <2>1, <2>2, <2>3, <2>4 DEF BytesMentioned
<1>12. QED BY <1>9, <1>11

\* A call that is not recorded leaves the forest as it is.
LEMMA PassExact ==
  ASSUME TypeOK, NothingExcluded, BytesMentioned, UNCHANGED <<program, forest, ranges>>,
         dropped \subseteq dropped', dropped' \subseteq dropped \cup {k},
         \/ k' = k /\ dropped' = dropped
         \/ k' = k + 1 /\ (k \in dropped' \/ \A a \in Assign : Same(k, a))
  PROVE  NothingExcluded' /\ BytesMentioned'
<1>1. /\ \A x, a : CanonicalValue(x, a)' = CanonicalValue(x, a)
      /\ \A m : NodeDeps(m)' = NodeDeps(m)
      /\ \A m, a : Truth(m, a)' = Truth(m, a)
      /\ \A j, a : Same(j, a)' = Same(j, a)
      /\ \A j : CallDeps(j)' = CallDeps(j)
  BY DEF CanonicalValue, NodeDeps, CondDeps, TermDeps, Truth, TermValue, Same, Call, inputs, CallDeps
<1>2. \A m, a : NodeHolds(m, a)' = NodeHolds(m, a)
  BY <1>1 DEF NodeHolds
<1>3. \A m : NodeModels(m)' = NodeModels(m)
  BY <1>2 DEF NodeModels
<1>4. 1 .. k - 1 \subseteq 1 .. k' - 1 /\ k \notin 1 .. k - 1
  <2>1. k \notin 1 .. k - 1
    BY CounterTyped
  <2>2. CASE k' = k
    BY <2>1, <2>2
  <2>3. CASE k' = k + 1
    BY <2>1, <2>3, CallBehind
  <2>4. QED BY <2>2, <2>3
<1>5. \A j \in 1 .. k' - 1 : j \in 1 .. k - 1 \/ (j = k /\ (k \in dropped' \/ \A a \in Assign : Same(k, a)))
  <2>1. CASE k' = k /\ dropped' = dropped
    BY <2>1
  <2>2. CASE k' = k + 1 /\ (k \in dropped' \/ \A a \in Assign : Same(k, a))
    BY <2>2, CallSplit
  <2>3. QED BY <2>1, <2>2
<1>6. \A j \in 1 .. k - 1 : j \in dropped' <=> j \in dropped
  BY <1>4
<1>7. ASSUME NEW a \in Assign, Follows(k, a)'
      PROVE  Follows(k, a)
  <2>1. \A j \in 1 .. k' - 1 : j \in dropped' \/ Same(j, a)
    BY <1>1, <1>7 DEF Follows
  <2>2. QED BY <1>4, <1>6, <2>1 DEF Follows
<1>8. ASSUME NEW i, i \in Constrained(k)'
      PROVE  i \in Constrained(k)
  <2>1. PICK j \in (1 .. k' - 1) \ dropped' : i \in CallDeps(j)' /\ \E a \in Assign : ~Same(j, a)'
    BY <1>8 DEF Constrained
  <2>2. i \in CallDeps(j) /\ \E a \in Assign : ~Same(j, a)
    BY <1>1, <2>1
  <2>3. j \in (1 .. k - 1) \ dropped
    BY <1>5, <1>6, <2>1, <2>2
  <2>4. QED BY <2>2, <2>3 DEF Constrained
<1>9. NothingExcluded'
  <2> SUFFICES ASSUME NEW a \in Assign, Follows(k, a)'
               PROVE  /\ \A x \in Canonical : CanonicalValue(x, a)' \in ranges'[x]
                      /\ \A m \in NodesOf(forest') : NodeHolds(m, a)'
    BY DEF NothingExcluded
  <2>1. Follows(k, a)
    BY <1>7
  <2>2. QED BY <1>1, <1>2, <2>1 DEF NothingExcluded
<1>10. BytesMentioned'
  <2> SUFFICES ASSUME NEW i, i \in Constrained(k)'
               PROVE  \E m \in NodesOf(forest') : i \in NodeDeps(m)' /\ NodeModels(m)' # Assign
    BY DEF BytesMentioned
  <2>1. i \in Constrained(k)
    BY <1>8
  <2>2. QED BY <1>1, <1>3, <2>1 DEF BytesMentioned
<1>11. QED BY <1>9, <1>10

\* What was tried for the calls that returned stays tried.
LEMMA StepFeasible ==
  ASSUME TypeOK, NamesFresh, FeasibleSaved, Saves, program' = program,
         dropped \subseteq dropped', dropped' \subseteq dropped \cup {k},
         explored' \subseteq explored \cup {k}, gaveUp \subseteq gaveUp', k' \in {k, k + 1},
         NEW c, c = k,
         \/ k' = k
         \/ num_generated_' <= NameLimit /\ c \in explored' \ gaveUp' =>
              \A a \in Assign : Follows(c, a) => Tried(c, a)'
  PROVE  FeasibleSaved'
<1> SUFFICES ASSUME num_generated_' <= NameLimit,
                    NEW j \in explored' \ gaveUp', j < k', NEW a \in Assign, Follows(j, a)'
             PROVE  Tried(j, a)'
  BY DEF FeasibleSaved
<1>1. num_generated_ \in Nat /\ explored \subseteq 1 .. k /\ k \in Nat \ {0}
  BY CounterTyped DEF TypeOK
<1>2. num_generated_ <= NameLimit /\ Saved(j) \subseteq Saved(j)'
  BY <1>1, SavesKeep
<1>3. k \in 1 .. k
  BY <1>1
<1>4. j \in 1 .. k /\ (j < k \/ (j = k /\ k' # k))
  <2>1. j \in 1 .. k
    BY <1>1, <1>3
  <2>2. CASE k' = k
    BY <2>1, <2>2
  <2>3. CASE k' = k + 1
    BY <1>1, <2>1, <2>3
  <2>4. QED BY <2>1, <2>2, <2>3
<1>5. Follows(j, a)
  BY <1>4, BehindStable
<1>6. CASE j < k
  <2>1. j \in explored \ gaveUp
    BY <1>1, <1>6
  <2>2. Tried(j, a)
    BY <1>2, <1>5, <1>6, <2>1 DEF FeasibleSaved
  <2>3. QED BY <1>2, <1>4, <2>2, TriedStable
<1>7. CASE j = k /\ k' # k
  BY <1>5, <1>7 DEF Follows
<1>8. QED BY <1>4, <1>6, <1>7

LEMMA MidComplete ==
  ASSUME SolverInv, CompleteInv, UNCHANGED <<program, k, forest, ranges, dropped>>, Saves,
         explored' \subseteq explored \cup {k}, gaveUp \subseteq gaveUp',
         pc' # "run", QuestionCovers'
  PROVE  CompleteInv'
<1>1. TypeOK /\ num_generated_ \in Nat
  BY DEF SolverInv, TypeOK
<1>2. NothingExcluded /\ BytesMentioned /\ NamesFresh /\ FeasibleSaved
  BY DEF CompleteInv
<1>3. NothingExcluded' /\ BytesMentioned'
  BY <1>1, <1>2, PassExact
<1>4. NamesFresh'
  BY <1>1, <1>2, SavesKeep
<1>5. FeasibleSaved'
  BY <1>1, <1>2, StepFeasible
<1>6. QED BY <1>3, <1>4, <1>5 DEF CompleteInv

LEMMA EndComplete ==
  ASSUME SolverInv, CompleteInv, program' = program, Saves, Advance, k \in DOMAIN program.events,
         \/ RecordsCall /\ UNCHANGED dropped
         \/ /\ UNCHANGED <<forest, ranges>>
            /\ dropped \subseteq dropped' /\ dropped' \subseteq dropped \cup {k}
            /\ k \in dropped' \/ \A a \in Assign : Same(k, a),
         explored' = explored, gaveUp \subseteq gaveUp',
         NEW c, c = k,
         num_generated_' <= NameLimit /\ c \in explored' \ gaveUp' =>
           \A a \in Assign : Follows(c, a) => Tried(c, a)'
  PROVE  CompleteInv'
<1>1. TypeOK /\ ForestInv /\ num_generated_ \in Nat /\ k' = k + 1 /\ pc' = "run"
  BY DEF SolverInv, TypeOK, Advance
<1>2. NothingExcluded /\ BytesMentioned /\ NamesFresh /\ FeasibleSaved
  BY DEF CompleteInv
<1>3. program \in Programs /\ event = Call(k) /\ event.cond \in Condition /\ inputs \in Assign
  BY <1>1, CallTyped, ProgramTyped DEF TypeOK, event, Call, inputs
<1>4. NothingExcluded' /\ BytesMentioned'
  <2>1. CASE RecordsCall /\ UNCHANGED dropped /\ event.call = "addJcc"
    <3>1. Record(event.cond, Taken)
      BY <2>1 DEF RecordsCall
    <3>2. Taken \in BOOLEAN
      BY <1>3, TruthTyped DEF Taken
    <3>3. CondDeps(event.cond) = CallDeps(k)
      BY <2>1 DEF CallDeps, event
    <3>4. \A a \in Assign : Truth(event.cond, a) = Taken <=> Same(k, a)
      BY <1>3, <2>1 DEF Same, Taken
    <3>5. PICK d \in Condition, taken \in BOOLEAN : d = event.cond /\ taken = Taken
      BY <1>3, <3>2
    <3>6. /\ Record(d, taken) /\ CondDeps(d) = CallDeps(k)
          /\ \A a \in Assign : Truth(d, a) = taken <=> Same(k, a)
      BY <3>1, <3>3, <3>4, <3>5
    <3>7. QED BY <1>1, <1>2, <2>1, <3>6, RecordExact
  <2>2. CASE RecordsCall /\ UNCHANGED dropped /\ event.call # "addJcc"
    <3>1. Record(ValueCondition, TRUE)
      BY <2>2 DEF RecordsCall
    <3>2. /\ ValueCondition \in Condition
          /\ CondDeps(ValueCondition) = CallDeps(k)
          /\ \A a \in Assign : Truth(ValueCondition, a) = TRUE <=> Same(k, a)
      BY <1>1, <2>2, ValueConditionCorrect
    <3>3. PICK d \in Condition : d = ValueCondition
      BY <3>2
    <3>4. /\ Record(d, TRUE) /\ CondDeps(d) = CallDeps(k)
          /\ \A a \in Assign : Truth(d, a) = TRUE <=> Same(k, a)
      BY <3>1, <3>2, <3>3
    <3>5. QED BY <1>1, <1>2, <2>2, <3>4, RecordExact
  <2>3. CASE /\ UNCHANGED <<forest, ranges>>
             /\ dropped \subseteq dropped' /\ dropped' \subseteq dropped \cup {k}
             /\ k \in dropped' \/ \A a \in Assign : Same(k, a)
    BY <1>1, <1>2, <2>3, PassExact
  <2>4. QED BY <2>1, <2>2, <2>3
<1>5. NamesFresh'
  BY <1>1, <1>2, SavesKeep
<1>6. dropped \subseteq dropped' /\ dropped' \subseteq dropped \cup {k}
  OBVIOUS
<1>7. FeasibleSaved'
  BY <1>1, <1>2, <1>6, StepFeasible
<1>8. k' \notin explored'
  <2>1. explored \subseteq 1 .. k /\ k \in Nat \ {0}
    BY <1>1, CounterTyped DEF TypeOK
  <2>2. k + 1 \notin 1 .. k
    BY <2>1
  <2>3. QED BY <1>1, <2>1, <2>2
<1>9. QuestionCovers'
  BY <1>8 DEF QuestionCovers
<1>10. QED BY <1>4, <1>5, <1>7, <1>8, <1>9 DEF CompleteInv

\* What was tried for the present call.
LEMMA OwedKept ==
  ASSUME SolverInv, NamesFresh, Saves, UNCHANGED <<program, k, dropped>>,
         num_generated_' <= NameLimit, k \in DOMAIN program.events, NEW a
  PROVE  /\ num_generated_ <= NameLimit
         /\ Follows(k, a)' <=> Follows(k, a)
         /\ Same(k, a)' <=> Same(k, a)
         /\ LowTried(a) => LowTried(a)'
         /\ HighTried(a) => HighTried(a)'
         /\ JumpTried(a) => JumpTried(a)'
         /\ Tried(k, a) => Tried(k, a)'
<1>1. TypeOK /\ num_generated_ \in Nat /\ k \in 1 .. k
  <2>1. TypeOK /\ num_generated_ \in Nat
    BY DEF SolverInv, TypeOK
  <2>2. k \in Nat \ {0}
    BY <2>1, CounterTyped
  <2>3. k \in 1 .. k
    BY <2>2
  <2>4. QED BY <2>1, <2>3
<1>2. PICK j \in 1 .. k : j = k
  BY <1>1
<1>3. num_generated_ <= NameLimit /\ Saved(j) \subseteq Saved(j)'
  BY <1>1, SavesKeep
<1>4. /\ \A b : Same(j, b)' <=> Same(j, b)
      /\ \A b : LeftValue(j, b)' = LeftValue(j, b)
      /\ CallDeps(j)' = CallDeps(j)
  BY FollowsStable DEF LeftValue, TermValue, TermDeps, CondDeps, CallDeps, Call
<1>5. (Follows(j, a)' <=> Follows(j, a)) /\ Constrained(j)' = Constrained(j)
  BY <1>1, BehindStable
<1>6. Tried(j, a) => Tried(j, a)'
  BY <1>1, <1>3, TriedStable
<1>7. LowTried(a) => LowTried(a)'
  <2>1. LowTried(a) <=>
          (CallDeps(j) \subseteq Constrained(j) => \E lo \in Saved(j) : LeftValue(j, lo) <= LeftValue(j, a))
    BY <1>2 DEF LowTried
  <2>2. LowTried(a)' <=>
          (CallDeps(j)' \subseteq Constrained(j)' =>
             \E lo \in Saved(j)' : LeftValue(j, lo)' <= LeftValue(j, a)')
    BY <1>2 DEF LowTried, CallDeps, Constrained, Saved, LeftValue, Call
  <2>3. QED BY <1>3, <1>4, <1>5, <2>1, <2>2
<1>8. HighTried(a) => HighTried(a)'
  <2>1. HighTried(a) <=>
          (CallDeps(j) \subseteq Constrained(j) => \E hi \in Saved(j) : LeftValue(j, a) <= LeftValue(j, hi))
    BY <1>2 DEF HighTried
  <2>2. HighTried(a)' <=>
          (CallDeps(j)' \subseteq Constrained(j)' =>
             \E hi \in Saved(j)' : LeftValue(j, a)' <= LeftValue(j, hi)')
    BY <1>2 DEF HighTried, CallDeps, Constrained, Saved, LeftValue, Call
  <2>3. QED BY <1>3, <1>4, <1>5, <2>1, <2>2
<1>9. JumpTried(a) => JumpTried(a)'
  <2>1. JumpTried(a) <=> (Same(j, a) \/ \E s \in Saved(j) : LeftValue(j, s) = LeftValue(j, a))
    BY <1>2 DEF JumpTried
  <2>2. JumpTried(a)' <=> (Same(j, a)' \/ \E s \in Saved(j)' : LeftValue(j, s)' = LeftValue(j, a)')
    BY <1>2 DEF JumpTried, Same, Saved, LeftValue, Call
  <2>3. QED BY <1>3, <1>4, <2>1, <2>2
<1>10. /\ Follows(k, a)' <=> Follows(j, a)'
       /\ Same(k, a)' <=> Same(j, a)'
       /\ Tried(k, a)' <=> Tried(j, a)'
  BY <1>2 DEF Follows, Same, Tried, Call, Saved, Constrained, LeftValue
<1>11. QED BY <1>2, <1>3, <1>4, <1>5, <1>6, <1>7, <1>8, <1>9, <1>10

LEMMA CoversNext ==
  ASSUME SolverInv, CompleteInv, Saves, UNCHANGED <<program, k, dropped>>, k \in DOMAIN program.events,
         \/ explored' = explored
         \/ pc = "run" /\ explored' \subseteq explored \cup {k},
         gaveUp \subseteq gaveUp',
         ASSUME num_generated_' <= NameLimit, k \in explored', k \notin gaveUp',
                NEW a \in Assign, Follows(k, a), Owed(a)
         PROVE  Owed(a)'
  PROVE  QuestionCovers'
<1> SUFFICES ASSUME num_generated_' <= NameLimit, k' \in explored' \ gaveUp',
                    NEW a \in Assign, Follows(k, a)'
             PROVE  Owed(a)'
  BY DEF QuestionCovers
<1>1. num_generated_ <= NameLimit /\ Follows(k, a)
  BY OwedKept DEF CompleteInv
<1>2. k \in explored' /\ k \notin gaveUp' /\ k \notin gaveUp
  OBVIOUS
<1>3. Owed(a)
  <2>1. CASE explored' = explored
    BY <1>1, <1>2, <2>1 DEF CompleteInv, QuestionCovers
  <2>2. CASE pc = "run"
    BY <2>2 DEF Owed
  <2>3. QED BY <2>1, <2>2
<1>4. QED BY <1>1, <1>2, <1>3

\* The slice excludes no input that follows the run.
LEMMA SliceComplete ==
  ASSUME TypeOK, NothingExcluded, NEW a \in Assign, Follows(k, a)
  PROVE  a \in Slice(CallDeps(k)).models
<1>1. NodesOf(Touched(CallDeps(k))) \subseteq NodesOf(forest)
  BY DEF NodesOf, Touched
<1>2. Slice(CallDeps(k)).models =
        {b \in Assign : \A n \in NodesOf(Touched(CallDeps(k))) : NodeHolds(n, b)}
  BY DEF Slice
<1>3. QED BY <1>1, <1>2 DEF NothingExcluded

\* The slice mentions the bytes of the call that were constrained.
LEMMA AddressMentioned ==
  ASSUME ForestInv, BytesMentioned, NEW s, Sliced(s), CallDeps(k) \subseteq Constrained(k)
  PROVE  CallDeps(k) \subseteq s.bytes
<1> SUFFICES ASSUME NEW i \in CallDeps(k) PROVE i \in s.bytes
  OBVIOUS
<1>1. PICK n \in NodesOf(forest) : i \in NodeDeps(n) /\ NodeModels(n) # Assign
  BY DEF BytesMentioned
<1>2. PICK t \in forest : n \in t.nodes
  BY DEF NodesOf
<1>3. i \in t.deps
  BY <1>1, <1>2 DEF ForestInv
<1>4. n \in NodesOf(SliceTrees)
  BY <1>2, <1>3 DEF NodesOf, SliceTrees, Touched
<1>5. QED BY <1>1, <1>4 DEF Sliced, Mentions

\* When the model mentions every byte of the call its value is that of the testcase.
LEMMA EvalConstant ==
  ASSUME SolverInv, k \in DOMAIN program.events, event.call # "addJcc",
         NEW m \in solver.models, CallDeps(k) \subseteq solver.bytes, NEW a \in Assign
  PROVE  Eval(m)[a] = LeftValue(k, Values(m)) /\ Values(m) \in Assign
<1>1. /\ event.cond.left \in Term /\ m \in Assign /\ program \in Programs /\ inputs \in Assign
      /\ Call(k) = event /\ TermDeps(event.cond.left) = CallDeps(k) /\ CallDeps(k) \subseteq Byte
  BY Context, CallTyped, ProgramTyped DEF Z3State, inputs, CallDeps, event
<1>2. PICK b \in Assign : b = [i \in Byte |-> IF i \in solver.bytes THEN m[i] ELSE a[i]]
  BY <1>1 DEF Assign
<1>3. PICK v \in Assign : v = Values(m)
  BY <1>1 DEF Values, Assign
<1>4. \A i \in TermDeps(event.cond.left) : b[i] = v[i]
  BY <1>1, <1>2, <1>3 DEF Values
<1>5. TermValue(event.cond.left, b) = TermValue(event.cond.left, v)
  BY <1>1, <1>4, TermDepends
<1>6. Eval(m)[a] = TermValue(event.cond.left, b)
  BY <1>2 DEF Eval
<1>7. QED BY <1>1, <1>3, <1>5, <1>6 DEF LeftValue

-------------------------------------------------------------------------------
(* The steps of a call.                                                        *)

LEMMA ConcreteComplete ==
  ASSUME SolverInv, CompleteInv, Concrete
  PROVE  CompleteInv'
<1>1. /\ k \in DOMAIN program.events /\ Advance /\ pc = "run" /\ CallDeps(k) = {}
      /\ UNCHANGED <<program, forest, ranges, files, num_generated_, explored, gaveUp, dropped>>
  BY CounterTyped DEF SolverInv, Concrete, IsConcrete, history
<1>2. Saves
  BY <1>1 DEF Saves, SaveNothing
<1>3. \A a \in Assign : Same(k, a)
  BY <1>1, ConcreteSame
<1>4. PICK c : c = k
  OBVIOUS
<1>5. c \notin explored'
  BY <1>1, <1>4 DEF CompleteInv
<1>6. QED BY <1>1, <1>2, <1>3, <1>4, <1>5, EndComplete

LEMMA AddJccComplete ==
  ASSUME SolverInv, CompleteInv, AddJcc
  PROVE  CompleteInv'
<1>1. /\ k \in DOMAIN program.events /\ event.call = "addJcc" /\ pc = "run"
      /\ UNCHANGED <<program, files, num_generated_, gaveUp, dropped>>
  BY CounterTyped DEF SolverInv, AddJcc, At
<1>2. Saves
  BY <1>1 DEF Saves, SaveNothing
<1>3. CASE last_interested_' /\ ~program.skip_query
  <2>1. /\ solver' = Assert(Slice(CallDeps(k)), {a \in Assign : ~Same(k, a)}, CallDeps(k))
        /\ explored' = explored \cup {k} /\ pc' = "negate"
        /\ UNCHANGED <<forest, ranges, k>>
    BY <1>1, <1>3, QuestionTyped DEF AddJcc, RecordNothing
  <2>2. ASSUME num_generated_' <= NameLimit, NEW a \in Assign, Follows(k, a)
        PROVE  Owed(a)'
    <3>1. a \in Slice(CallDeps(k)).models
      BY <2>2, SliceComplete DEF SolverInv, CompleteInv
    <3>2. Same(k, a) \/ a \in solver'.models
      BY <2>1, <3>1 DEF Assert
    <3>3. Same(k, a)' <=> Same(k, a)
      BY <1>1, <1>2, <2>1, <2>2, OwedKept DEF CompleteInv
    <3>4. QED BY <2>1, <3>2, <3>3 DEF Owed
  <2>3. QuestionCovers'
    BY <1>1, <1>2, <2>1, <2>2, CoversNext
  <2>4. QED BY <1>1, <1>2, <2>1, <2>3, MidComplete
<1>4. CASE ~(last_interested_' /\ ~program.skip_query)
  <2>1. Record(event.cond, Taken) /\ Advance /\ UNCHANGED explored
    BY <1>4 DEF AddJcc
  <2>2. RecordsCall
    BY <1>1, <2>1 DEF RecordsCall
  <2>3. PICK c : c = k
    OBVIOUS
  <2>4. c \notin explored'
    BY <1>1, <2>1, <2>3 DEF CompleteInv
  <2>5. QED BY <1>1, <1>2, <2>1, <2>2, <2>3, <2>4, EndComplete
<1>5. QED BY <1>3, <1>4

\* The question of the present call still covers what it owes.
LEMMA OwedNow ==
  ASSUME CompleteInv, num_generated_ <= NameLimit, k \in explored, k \notin gaveUp,
         NEW a \in Assign, Follows(k, a)
  PROVE  Owed(a)
  BY DEF CompleteInv, QuestionCovers

\* No answer, and Z3 did not give up: nothing satisfies what is asserted.
LEMMA NotSatEmpty ==
  ASSUME NotSat
  PROVE  /\ SaveNothing /\ Saves /\ gaveUp \subseteq gaveUp'
         /\ k \notin gaveUp' => solver.models = {}
  BY DEF NotSat, Saves

LEMMA NegateComplete ==
  ASSUME SolverInv, CompleteInv, Negate
  PROVE  CompleteInv'
<1>1. pc = "negate" /\ UNCHANGED <<program, explored, dropped>>
  BY DEF Negate
<1>2. k \in DOMAIN program.events /\ num_generated_ \in Nat /\ solver.models \subseteq Assign
  BY <1>1 DEF SolverInv, TypeOK
<1>3. event.call = "addJcc"
  BY <1>1 DEF SolverInv, AssertedInv
<1>4. ASSUME NEW m \in solver.models, Save(m, ""), Record(event.cond, Taken), Advance, UNCHANGED gaveUp
      PROVE  CompleteInv'
  <2>1. Saves
    BY <1>2, <1>4 DEF Saves
  <2>2. RecordsCall
    BY <1>3, <1>4 DEF RecordsCall
  <2>3. PICK c, v : c = k /\ v = Values(m)
    OBVIOUS
  <2>4. ASSUME num_generated_' <= NameLimit
        PROVE  \A a \in Assign : Tried(c, a)'
    <3>1. PICK post \in {"", "optimistic"} : post = ""
      OBVIOUS
    <3>2. v \in Saved(c)'
      BY <1>2, <1>4, <2>3, <2>4, <3>1, SavedNow DEF CompleteInv
    <3>3. Call(c)'.call = "addJcc"
      BY <1>1, <1>3, <2>3 DEF Call, event
    <3>4. QED BY <3>2, <3>3 DEF Tried
  <2>5. QED BY <1>1, <1>2, <1>4, <2>1, <2>2, <2>3, <2>4, EndComplete
<1>5. CASE /\ NotSat
           /\ pc' = "optimistic"
           /\ RecordNothing /\ UNCHANGED k
  <2>1. UNCHANGED <<forest, ranges, k>> /\ Saves /\ gaveUp \subseteq gaveUp'
    BY <1>5, NotSatEmpty DEF RecordNothing
  <2>2. ASSUME num_generated_' <= NameLimit, k \notin gaveUp', NEW a \in Assign, Follows(k, a), Owed(a)
        PROVE  Owed(a)'
    <3>1. Same(k, a)
      BY <1>1, <1>5, <2>2, NotSatEmpty DEF Owed
    <3>2. Same(k, a)'
      BY <1>1, <1>2, <2>1, <2>2, <3>1, OwedKept DEF CompleteInv
    <3>3. QED BY <1>5, <3>2 DEF Owed
  <2>3. QuestionCovers'
    BY <1>1, <1>2, <2>1, <2>2, CoversNext
  <2>4. QED BY <1>1, <1>5, <2>1, <2>3, MidComplete
<1>6. QED BY <1>4, <1>5 DEF Negate

LEMMA NegateOptimisticComplete ==
  ASSUME SolverInv, CompleteInv, NegateOptimistic
  PROVE  CompleteInv'
<1>1. /\ pc = "optimistic" /\ Record(event.cond, Taken) /\ Advance
      /\ UNCHANGED <<program, explored, dropped>>
  BY DEF NegateOptimistic
<1>2. k \in DOMAIN program.events /\ num_generated_ \in Nat /\ solver.models \subseteq Assign
  BY <1>1 DEF SolverInv, TypeOK
<1>3. event.call = "addJcc"
  BY <1>1 DEF SolverInv, AssertedInv
<1>4. RecordsCall
  BY <1>1, <1>3 DEF RecordsCall
<1>5. Saves /\ gaveUp \subseteq gaveUp'
  <2>1. CASE \E m \in solver.models : Save(m, "optimistic") /\ UNCHANGED gaveUp
    BY <1>2, <2>1 DEF Saves
  <2>2. CASE NotSat
    BY <2>2, NotSatEmpty
  <2>3. QED BY <2>1, <2>2 DEF NegateOptimistic
<1>6. PICK c : c = k
  OBVIOUS
<1>7. ASSUME num_generated_' <= NameLimit, c \in explored' \ gaveUp', NEW a \in Assign, Follows(c, a)
      PROVE  Tried(c, a)'
  <2>1. num_generated_ <= NameLimit
    BY <1>2, <1>5, <1>7, SavesKeep DEF CompleteInv
  <2>2. Same(c, a)
    BY <1>1, <1>5, <1>6, <1>7, <2>1, OwedNow DEF Owed
  <2>3. Same(c, a)' /\ Call(c)'.call = "addJcc"
    BY <1>1, <1>3, <1>6, <2>2, FollowsStable DEF Call, event
  <2>4. QED BY <2>3 DEF Tried
<1>8. QED BY <1>1, <1>2, <1>4, <1>5, <1>6, <1>7, EndComplete

LEMMA AddValueComplete ==
  ASSUME SolverInv, CompleteInv, AddValue
  PROVE  CompleteInv'
<1>1. /\ IF CallDeps(k) = {} THEN RecordNothing ELSE Record(ValueCondition, TRUE)
      /\ Advance
      /\ UNCHANGED <<program, files, num_generated_, explored, gaveUp, dropped>>
  BY DEF AddValue, history, IsConcrete
<1>2. k \in DOMAIN program.events /\ event.call # "addJcc" /\ pc \in {"run", "value"}
  <2>1. CASE pc = "value"
    BY <2>1 DEF SolverInv, TypeOK, AssertedInv
  <2>2. CASE At("addValue")
    BY <2>2, CounterTyped DEF SolverInv, At
  <2>3. QED BY <2>1, <2>2 DEF AddValue
<1>3. RecordsCall \/ (UNCHANGED <<forest, ranges>> /\ \A a \in Assign : Same(k, a))
  BY <1>1, <1>2, ConcreteSame DEF RecordsCall, RecordNothing
<1>4. Saves
  BY <1>1 DEF Saves, SaveNothing
<1>5. TypeOK /\ k \in 1 .. k
  <2>1. TypeOK /\ k \in Nat \ {0}
    BY CounterTyped DEF SolverInv
  <2>2. k \in 1 .. k
    BY <2>1
  <2>3. QED BY <2>1, <2>2
<1>6. PICK c \in 1 .. k : c = k
  BY <1>5
<1>7. ASSUME num_generated_' <= NameLimit, c \in explored' \ gaveUp', NEW a \in Assign, Follows(c, a)
      PROVE  Tried(c, a)'
  <2>1. pc = "value"
    BY <1>1, <1>2, <1>6, <1>7 DEF CompleteInv
  <2>2. Tried(c, a)
    BY <1>1, <1>6, <1>7, <2>1, OwedNow DEF Owed
  <2>3. Saved(c)' = Saved(c)
    BY <1>1 DEF Saved
  <2>4. QED BY <1>1, <1>5, <2>2, <2>3, TriedStable
<1>8. QED BY <1>1, <1>2, <1>3, <1>4, <1>6, <1>7, EndComplete

LEMMA AddAddrComplete ==
  ASSUME SolverInv, CompleteInv, AddAddr
  PROVE  CompleteInv'
<1>1. /\ k \in DOMAIN program.events /\ event.call = "addAddr" /\ pc = "run"
      /\ UNCHANGED <<program, k, forest, ranges, files, num_generated_, gaveUp, dropped>>
  BY CounterTyped DEF SolverInv, AddAddr, At
<1>2. Saves
  BY <1>1 DEF Saves, SaveNothing
<1>3. CASE last_interested_
  <2>1. solver' = Slice(CallDeps(k)) /\ explored' = explored \cup {k} /\ pc' = "addr"
    BY <1>1, <1>3, QuestionTyped DEF AddAddr
  <2>2. ASSUME NEW a \in Assign, Follows(k, a)
        PROVE  Owed(a)'
    <3>1. a \in solver'.models
      BY <2>1, <2>2, SliceComplete DEF SolverInv, CompleteInv
    <3>2. QED BY <2>1, <3>1 DEF Owed
  <2>3. QuestionCovers'
    BY <1>1, <1>2, <2>1, <2>2, CoversNext
  <2>4. QED BY <1>1, <1>2, <2>1, <2>3, MidComplete
<1>4. CASE ~last_interested_
  <2>1. pc' = "value" /\ UNCHANGED explored
    BY <1>4 DEF AddAddr
  <2>2. k' \notin explored'
    BY <1>1, <2>1 DEF CompleteInv
  <2>3. QuestionCovers'
    BY <2>2 DEF QuestionCovers
  <2>4. QED BY <1>1, <1>2, <2>1, <2>3, MidComplete
<1>5. QED BY <1>3, <1>4

LEMMA CheckAddrComplete ==
  ASSUME SolverInv, CompleteInv, CheckAddr
  PROVE  CompleteInv'
<1>1. pc = "addr" /\ UNCHANGED <<program, forest, ranges, solver, explored>>
  BY DEF CheckAddr
<1>2. k \in DOMAIN program.events /\ num_generated_ \in Nat
  BY <1>1 DEF SolverInv, TypeOK
<1>3. CASE /\ pushed' = solver
           /\ pc' = "min"
           /\ SaveNothing /\ UNCHANGED <<k, gaveUp, dropped>>
  <2>1. Saves
    BY <1>3 DEF Saves
  <2>2. ASSUME NEW a \in Assign, Follows(k, a), Owed(a)
        PROVE  Owed(a)'
    <3>1. a \in solver.models
      BY <1>1, <2>2 DEF Owed
    <3>2. a \in pushed'.models /\ a \in solver'.models
      BY <1>1, <1>3, <3>1
    <3>3. QED BY <1>3, <3>2 DEF Owed
  <2>3. QuestionCovers'
    BY <1>1, <1>2, <1>3, <2>1, <2>2, CoversNext
  <2>4. QED BY <1>1, <1>3, <2>1, <2>3, MidComplete
<1>4. CASE /\ NotSat
           /\ dropped' = dropped \cup {k}
           /\ Advance
  <2>1. Saves /\ SaveNothing /\ gaveUp \subseteq gaveUp' /\ (k \notin gaveUp' => solver.models = {})
    BY <1>4, NotSatEmpty
  <2>2. dropped \subseteq dropped' /\ dropped' \subseteq dropped \cup {k} /\ k \in dropped'
    BY <1>4
  <2>3. PICK c : c = k
    OBVIOUS
  <2>4. ASSUME num_generated_' <= NameLimit, c \in explored' \ gaveUp', NEW a \in Assign, Follows(c, a)
        PROVE  FALSE
    <3>1. num_generated_ <= NameLimit
      BY <2>1, <2>4 DEF SaveNothing
    <3>2. a \in solver.models
      BY <1>1, <2>1, <2>3, <2>4, <3>1, OwedNow DEF Owed
    <3>3. QED BY <2>1, <2>3, <2>4, <3>2
  <2>5. QED BY <1>1, <1>2, <1>4, <2>1, <2>2, <2>3, <2>4, EndComplete
<1>5. QED BY <1>3, <1>4 DEF CheckAddr

\* A testcase of the call pays what the call owes to the inputs on one side of it.
LEMMA PaidNow ==
  ASSUME UNCHANGED <<program, k>>, NEW c, c = k, NEW v, v \in Saved(c)', NEW a
  PROVE  /\ LeftValue(c, v) <= LeftValue(c, a) => LowTried(a)'
         /\ LeftValue(c, a) <= LeftValue(c, v) => HighTried(a)'
         /\ LeftValue(c, v) = LeftValue(c, a) => JumpTried(a)'
<1>1. \A b : LeftValue(c, b)' = LeftValue(c, b)
  BY DEF LeftValue, TermValue, Call
<1>2. Saved(c)' = Saved(k)' /\ \A b : LeftValue(c, b)' = LeftValue(k, b)'
  BY DEF Saved, LeftValue, Call
<1>3. QED BY <1>1, <1>2 DEF LowTried, HighTried, JumpTried

LEMMA LeftTyped ==
  ASSUME SolverInv, k \in DOMAIN program.events, NEW a \in Assign
  PROVE  LeftValue(k, a) \in Int /\ LeftValue(k, a) = TermValue(event.cond.left, a)
<1>1. program \in Programs /\ Call(k).cond.left \in Term /\ event = Call(k)
  BY Context, CallTyped
<1>2. LeftValue(k, a) \in Value
  BY <1>1, TermTyped DEF LeftValue
<1>3. Value \subseteq Int
  BY DEF Value
<1>4. QED BY <1>1, <1>2, <1>3 DEF LeftValue

LEMMA FindBoundComplete ==
  ASSUME SolverInv, CompleteInv, FindBound
  PROVE  CompleteInv'
<1>1. /\ pc \in {"min", "max"}
      /\ UNCHANGED <<program, k, pc, forest, ranges, pushed, explored, gaveUp, dropped>>
  BY DEF FindBound, history
<1>2. PICK m \in solver.models : Save(m, "") /\ solver' = Assert(solver, Beyond(Eval(m)), Deps)
  BY DEF FindBound
<1>3. k \in DOMAIN program.events /\ num_generated_ \in Nat /\ solver.models \subseteq Assign
  BY <1>1 DEF SolverInv, TypeOK
<1>4. event.call = "addAddr" /\ Sliced(solver)
  BY <1>1 DEF SolverInv, AssertedInv
<1>5. Saves
  BY <1>2, <1>3 DEF Saves
<1>6. solver'.models = solver.models \cap Beyond(Eval(m))
  BY <1>2 DEF Assert
<1>7. PICK c, v : c = k /\ v = Values(m)
  OBVIOUS
<1>8. ASSUME num_generated_' <= NameLimit, NEW a \in Assign, Follows(k, a), Owed(a)
      PROVE  Owed(a)'
  <2>1. v \in Saved(c)'
    <3>1. PICK post \in {"", "optimistic"} : post = ""
      OBVIOUS
    <3>2. QED BY <1>2, <1>3, <1>7, <1>8, <3>1, SavedNow DEF CompleteInv
  <2>2. (LowTried(a) => LowTried(a)') /\ (HighTried(a) => HighTried(a)')
    BY <1>1, <1>3, <1>5, <1>8, OwedKept DEF CompleteInv
  <2>3. LeftValue(c, a) \in Int /\ LeftValue(c, a) = TermValue(event.cond.left, a)
    BY <1>3, <1>7, LeftTyped
  <2>4. ASSUME CallDeps(k) \subseteq Constrained(k)
        PROVE  Eval(m)[a] = LeftValue(c, v) /\ LeftValue(c, v) \in Int
    <3>1. PICK s : s = solver
      OBVIOUS
    <3>2. CallDeps(k) \subseteq s.bytes
      BY <1>4, <2>4, <3>1, AddressMentioned DEF SolverInv, CompleteInv
    <3>3. Eval(m)[a] = LeftValue(k, Values(m)) /\ Values(m) \in Assign
      BY <1>3, <1>4, <3>1, <3>2, EvalConstant
    <3>4. QED BY <1>3, <1>7, <3>3, LeftTyped
  <2>5. CASE pc = "min"
    <3>1. (LowTried(a) \/ a \in solver.models) /\ a \in pushed.models
      BY <1>8, <2>5 DEF Owed
    <3>2. LowTried(a)' \/ a \in solver'.models
      <4>1. CASE LowTried(a)
        BY <2>2, <4>1
      <4>2. CASE ~LowTried(a)
        <5>1. CallDeps(k) \subseteq Constrained(k)
          BY <4>2 DEF LowTried
        <5>2. a \in Beyond(Eval(m)) <=> LeftValue(c, a) < Eval(m)[a]
          BY <2>3, <2>5 DEF Beyond
        <5>3. a \in Beyond(Eval(m)) \/ LeftValue(c, v) <= LeftValue(c, a)
          BY <2>3, <2>4, <5>1, <5>2
        <5>4. LeftValue(c, v) <= LeftValue(c, a) => LowTried(a)'
          BY <1>1, <1>7, <2>1, PaidNow
        <5>5. QED BY <1>6, <3>1, <4>2, <5>3, <5>4
      <4>3. QED BY <4>1, <4>2
    <3>3. a \in pushed'.models /\ pc' = "min"
      BY <1>1, <2>5, <3>1
    <3>4. QED BY <3>2, <3>3 DEF Owed
  <2>6. CASE pc = "max"
    <3>1. (HighTried(a) \/ a \in solver.models) /\ a \in pushed.models /\ LowTried(a)
      BY <1>8, <2>6 DEF Owed
    <3>2. HighTried(a)' \/ a \in solver'.models
      <4>1. CASE HighTried(a)
        BY <2>2, <4>1
      <4>2. CASE ~HighTried(a)
        <5>1. CallDeps(k) \subseteq Constrained(k)
          BY <4>2 DEF HighTried
        <5>2. a \in Beyond(Eval(m)) <=> LeftValue(c, a) > Eval(m)[a]
          BY <2>3, <2>6 DEF Beyond
        <5>3. a \in Beyond(Eval(m)) \/ LeftValue(c, a) <= LeftValue(c, v)
          BY <2>3, <2>4, <5>1, <5>2
        <5>4. LeftValue(c, a) <= LeftValue(c, v) => HighTried(a)'
          BY <1>1, <1>7, <2>1, PaidNow
        <5>5. QED BY <1>6, <3>1, <4>2, <5>3, <5>4
      <4>3. QED BY <4>1, <4>2
    <3>3. a \in pushed'.models /\ pc' = "max" /\ LowTried(a)'
      BY <1>1, <2>2, <2>6, <3>1
    <3>4. QED BY <3>2, <3>3 DEF Owed
  <2>7. QED BY <1>1, <2>5, <2>6
<1>9. QuestionCovers'
  BY <1>1, <1>3, <1>5, <1>8, CoversNext
<1>10. pc' # "run"
  BY <1>1
<1>11. QED BY <1>1, <1>5, <1>9, <1>10, MidComplete

LEMMA EndBoundComplete ==
  ASSUME SolverInv, CompleteInv, EndBound
  PROVE  CompleteInv'
<1>1. /\ pc \in {"min", "max"} /\ NotSat
      /\ solver' = pushed
      /\ pc' = IF pc = "min" THEN "max" ELSE "solve_min"
      /\ UNCHANGED <<program, k, forest, ranges, pushed, explored, dropped>>
  BY DEF EndBound
<1>2. k \in DOMAIN program.events
  BY <1>1 DEF SolverInv, TypeOK
<1>3. Saves /\ gaveUp \subseteq gaveUp' /\ (k \notin gaveUp' => solver.models = {})
  BY <1>1, NotSatEmpty
<1>4. ASSUME num_generated_' <= NameLimit, k \notin gaveUp', NEW a \in Assign, Follows(k, a), Owed(a)
      PROVE  Owed(a)'
  <2>1. (LowTried(a) => LowTried(a)') /\ (HighTried(a) => HighTried(a)')
    BY <1>1, <1>2, <1>3, <1>4, OwedKept DEF CompleteInv
  <2>2. a \in pushed.models /\ a \notin solver.models
    BY <1>1, <1>3, <1>4 DEF Owed
  <2>3. a \in solver'.models /\ a \in pushed'.models
    BY <1>1, <2>2
  <2>4. CASE pc = "min"
    <3>1. LowTried(a)' /\ pc' = "max"
      BY <1>1, <1>4, <2>1, <2>2, <2>4 DEF Owed
    <3>2. QED BY <2>3, <3>1 DEF Owed
  <2>5. CASE pc = "max"
    <3>1. LowTried(a)' /\ HighTried(a)' /\ pc' = "solve_min"
      BY <1>1, <1>4, <2>1, <2>2, <2>5 DEF Owed
    <3>2. QED BY <3>1 DEF Owed
  <2>6. QED BY <1>1, <2>4, <2>5
<1>5. QuestionCovers'
  BY <1>1, <1>2, <1>3, <1>4, CoversNext
<1>6. pc' # "run"
  BY <1>1
<1>7. QED BY <1>1, <1>3, <1>5, <1>6, MidComplete

LEMMA SolveOneComplete ==
  ASSUME SolverInv, CompleteInv, SolveOne
  PROVE  CompleteInv'
<1>1. /\ pc \in {"solve_min", "solve_max"} /\ SaveNothing
      /\ pc' \in {"aborted", "check_min", "check_max"}
      /\ UNCHANGED <<program, k, forest, ranges, pushed, explored, gaveUp, dropped>>
  BY DEF SolveOne
<1>2. k \in DOMAIN program.events /\ Saves
  BY <1>1 DEF SolverInv, TypeOK, Saves
<1>3. ASSUME num_generated_' <= NameLimit, NEW a \in Assign, Follows(k, a), Owed(a)
      PROVE  Owed(a)'
  <2>1. (LowTried(a) => LowTried(a)') /\ (HighTried(a) => HighTried(a)')
    BY <1>1, <1>2, <1>3, OwedKept DEF CompleteInv
  <2>2. LowTried(a)' /\ HighTried(a)'
    BY <1>1, <1>3, <2>1 DEF Owed
  <2>3. QED BY <1>1, <2>2 DEF Owed
<1>4. QuestionCovers'
  BY <1>1, <1>2, <1>3, CoversNext
<1>5. pc' # "run"
  BY <1>1
<1>6. QED BY <1>1, <1>2, <1>4, <1>5, MidComplete

LEMMA CheckOneComplete ==
  ASSUME SolverInv, CompleteInv, CheckOne
  PROVE  CompleteInv'
<1>1. /\ pc \in {"check_min", "check_max"}
      /\ pc' \in {"solve_max", "value"}
      /\ UNCHANGED <<program, k, forest, ranges, pushed, explored, dropped>>
  BY DEF CheckOne
<1>2. k \in DOMAIN program.events /\ num_generated_ \in Nat /\ solver.models \subseteq Assign
  BY <1>1 DEF SolverInv, TypeOK
<1>3. event.call = "addAddr"
  BY <1>1 DEF SolverInv, AssertedInv
<1>4. Saves /\ gaveUp \subseteq gaveUp'
  <2>1. CASE \E m \in solver.models : Save(m, "") /\ UNCHANGED gaveUp
    BY <1>2, <2>1 DEF Saves
  <2>2. CASE NotSat
    BY <2>2, NotSatEmpty
  <2>3. QED BY <2>1, <2>2 DEF CheckOne
<1>5. ASSUME num_generated_' <= NameLimit, NEW a \in Assign, Follows(k, a), Owed(a)
      PROVE  Owed(a)'
  <2>1. (LowTried(a) => LowTried(a)') /\ (HighTried(a) => HighTried(a)')
    BY <1>1, <1>2, <1>4, <1>5, OwedKept DEF CompleteInv
  <2>2. LowTried(a)' /\ HighTried(a)'
    BY <1>1, <1>5, <2>1 DEF Owed
  <2>3. Call(k)'.call = "addAddr" /\ CallDeps(k)' = TermDeps(Call(k).cond.left)'
    BY <1>1, <1>3 DEF Call, event, CallDeps, TermDeps
  <2>4. Tried(k, a)'
    BY <2>2, <2>3 DEF Tried, LowTried, HighTried
  <2>5. QED BY <1>1, <2>2, <2>4 DEF Owed
<1>6. QuestionCovers'
  BY <1>1, <1>2, <1>4, <1>5, CoversNext
<1>7. pc' # "run"
  BY <1>1
<1>8. QED BY <1>1, <1>4, <1>6, <1>7, MidComplete

LEMMA SolveAllComplete ==
  ASSUME SolverInv, CompleteInv, SolveAll
  PROVE  CompleteInv'
<1>1. /\ k \in DOMAIN program.events /\ event.call = "solveAll" /\ pc = "run"
      /\ UNCHANGED <<program, k, forest, ranges, files, num_generated_, gaveUp, dropped>>
  BY CounterTyped DEF SolverInv, SolveAll, At
<1>2. Saves
  BY <1>1 DEF Saves, SaveNothing
<1>3. CASE last_interested_
  <2>1. /\ \/ solver' = Assert(Slice(CallDeps(k)), {a \in Assign : ~Same(k, a)}, CallDeps(k))
           \/ solver' = Slice(CallDeps(k))
        /\ explored' = explored \cup {k} /\ pc' = "all"
    BY <1>1, <1>3, QuestionTyped DEF SolveAll, AddToSolver
  <2>2. ASSUME num_generated_' <= NameLimit, NEW a \in Assign, Follows(k, a)
        PROVE  Owed(a)'
    <3>1. a \in Slice(CallDeps(k)).models
      BY <2>2, SliceComplete DEF SolverInv, CompleteInv
    <3>2. Same(k, a) \/ a \in solver'.models
      BY <2>1, <3>1 DEF Assert
    <3>3. Same(k, a)' <=> Same(k, a)
      BY <1>1, <1>2, <2>2, OwedKept DEF CompleteInv
    <3>4. QED BY <2>1, <3>2, <3>3 DEF Owed, JumpTried
  <2>3. QuestionCovers'
    BY <1>1, <1>2, <2>1, <2>2, CoversNext
  <2>4. QED BY <1>1, <1>2, <2>1, <2>3, MidComplete
<1>4. CASE ~last_interested_
  <2>1. pc' = "value" /\ UNCHANGED explored
    BY <1>4 DEF SolveAll
  <2>2. k' \notin explored'
    BY <1>1, <2>1 DEF CompleteInv
  <2>3. QuestionCovers'
    BY <2>2 DEF QuestionCovers
  <2>4. QED BY <1>1, <1>2, <2>1, <2>3, MidComplete
<1>5. QED BY <1>3, <1>4

LEMMA CheckAllComplete ==
  ASSUME SolverInv, CompleteInv, CheckAll
  PROVE  CompleteInv'
<1>1. /\ pc = "all" /\ pc' = "enumerate"
      /\ UNCHANGED <<program, k, forest, ranges, explored, dropped>>
  BY DEF CheckAll
<1>2. k \in DOMAIN program.events
  BY <1>1 DEF SolverInv, TypeOK
<1>3. \/ SaveNothing /\ UNCHANGED <<solver, gaveUp>>
      \/ NotSat
  BY DEF CheckAll
<1>4. Saves /\ gaveUp \subseteq gaveUp' /\ (solver' = solver \/ (k \notin gaveUp' => solver.models = {}))
  BY <1>3, NotSatEmpty DEF Saves
<1>5. ASSUME num_generated_' <= NameLimit, k \notin gaveUp', NEW a \in Assign, Follows(k, a), Owed(a)
      PROVE  Owed(a)'
  <2>1. JumpTried(a) => JumpTried(a)'
    BY <1>1, <1>2, <1>4, <1>5, OwedKept DEF CompleteInv
  <2>2. JumpTried(a) \/ a \in solver.models
    BY <1>1, <1>5 DEF Owed
  <2>3. JumpTried(a)' \/ a \in solver'.models
    BY <1>4, <1>5, <2>1, <2>2
  <2>4. QED BY <1>1, <2>3 DEF Owed
<1>6. QuestionCovers'
  BY <1>1, <1>2, <1>4, <1>5, CoversNext
<1>7. QED BY <1>1, <1>4, <1>6, MidComplete

LEMMA EnumerateComplete ==
  ASSUME SolverInv, CompleteInv, Enumerate
  PROVE  CompleteInv'
<1>1. pc = "enumerate" /\ UNCHANGED <<program, k, forest, ranges, postfix, explored, dropped>>
  BY DEF Enumerate
<1>2. /\ k \in DOMAIN program.events /\ num_generated_ \in Nat /\ solver.models \subseteq Assign
      /\ postfix \in {"", "optimistic"}
  BY <1>1 DEF SolverInv, TypeOK
<1>3. event.call = "solveAll" /\ CallDeps(k) \subseteq solver.bytes
  BY <1>1 DEF SolverInv, AssertedInv, Differs
<1>4. ASSUME NEW m \in solver.models, Save(m, postfix),
             solver' = Assert(solver, {a \in Assign : TermValue(event.cond.left, a) # Eval(m)[a]}, Deps),
             UNCHANGED <<pc, gaveUp>>
      PROVE  CompleteInv'
  <2>1. Saves
    BY <1>2, <1>4 DEF Saves
  <2>2. PICK c, v : c = k /\ v = Values(m)
    OBVIOUS
  <2>3. ASSUME num_generated_' <= NameLimit, NEW a \in Assign, Follows(k, a), Owed(a)
        PROVE  Owed(a)'
    <3>1. v \in Saved(c)'
      <4>1. PICK post \in {"", "optimistic"} : post = postfix
        BY <1>2
      <4>2. Save(m, post)
        BY <1>4, <4>1 DEF Save
      <4>3. QED BY <1>2, <2>2, <2>3, <4>2, SavedNow DEF CompleteInv
    <3>2. JumpTried(a) => JumpTried(a)'
      BY <1>1, <1>2, <2>1, <2>3, OwedKept DEF CompleteInv
    <3>3. Eval(m)[a] = LeftValue(c, v) /\ LeftValue(c, a) = TermValue(event.cond.left, a)
      BY <1>2, <1>3, <2>2, EvalConstant, LeftTyped
    <3>4. a \in solver.models /\ LeftValue(c, v) # LeftValue(c, a) => a \in solver'.models
      BY <1>4, <3>3 DEF Assert
    <3>5. LeftValue(c, v) = LeftValue(c, a) => JumpTried(a)'
      BY <1>1, <2>2, <3>1, PaidNow
    <3>6. JumpTried(a) \/ a \in solver.models
      BY <1>1, <2>3 DEF Owed
    <3>7. JumpTried(a)' \/ a \in solver'.models
      BY <3>2, <3>4, <3>5, <3>6
    <3>8. QED BY <1>1, <1>4, <3>7 DEF Owed
  <2>4. QuestionCovers'
    BY <1>1, <1>2, <1>4, <2>1, <2>3, CoversNext
  <2>5. pc' # "run"
    BY <1>1, <1>4
  <2>6. QED BY <1>1, <1>4, <2>1, <2>4, <2>5, MidComplete
<1>5. CASE NotSat /\ pc' = "value"
  <2>1. Saves /\ gaveUp \subseteq gaveUp' /\ (k \notin gaveUp' => solver.models = {})
    BY <1>5, NotSatEmpty
  <2>2. ASSUME num_generated_' <= NameLimit, k \notin gaveUp', NEW a \in Assign, Follows(k, a), Owed(a)
        PROVE  Owed(a)'
    <3>1. JumpTried(a)'
      BY <1>1, <1>2, <2>1, <2>2, OwedKept DEF CompleteInv, Owed
    <3>2. Call(k)'.call = "solveAll"
      BY <1>1, <1>3 DEF Call, event
    <3>3. Tried(k, a)'
      BY <3>1, <3>2 DEF Tried, JumpTried
    <3>4. QED BY <1>5, <3>3 DEF Owed
  <2>3. QuestionCovers'
    BY <1>1, <1>2, <2>1, <2>2, CoversNext
  <2>4. QED BY <1>1, <1>5, <2>1, <2>3, MidComplete
<1>6. QED BY <1>4, <1>5 DEF Enumerate

LEMMA InitComplete == Init => CompleteInv
<1> SUFFICES ASSUME Init PROVE CompleteInv
  OBVIOUS
<1>1. /\ program \in Programs /\ k = 1
      /\ forest = {[deps |-> {i}, nodes |-> {}] : i \in Byte}
      /\ ranges = [x \in Canonical |-> Value]
      /\ DOMAIN files = {} /\ explored = {}
  BY DEF Init
<1>2. \A t \in forest : t.nodes = {}
  BY <1>1
<1>3. NothingExcluded
  BY <1>1, <1>2, CanonicalTyped DEF NothingExcluded, NodesOf
<1>4. BytesMentioned
  BY <1>1 DEF BytesMentioned, Constrained
<1>5. NamesFresh /\ QuestionCovers /\ FeasibleSaved
  BY <1>1 DEF NamesFresh, QuestionCovers, FeasibleSaved
<1>6. QED BY <1>1, <1>3, <1>4, <1>5 DEF CompleteInv

LEMMA NextComplete == SolverInv /\ CompleteInv /\ [Next]_vars => CompleteInv'
<1>1. SolverInv /\ CompleteInv /\ UNCHANGED vars => CompleteInv'
  <2> SUFFICES ASSUME SolverInv, CompleteInv, UNCHANGED vars PROVE CompleteInv'
    OBVIOUS
  <2>1. UNCHANGED <<program, k, pc, forest, ranges, solver, pushed, files, num_generated_, explored,
                    gaveUp, dropped>>
    BY DEF vars, history
  <2>2. /\ TypeOK /\ num_generated_ \in Nat
        /\ NothingExcluded /\ BytesMentioned /\ NamesFresh /\ FeasibleSaved
    BY DEF SolverInv, TypeOK, CompleteInv
  <2>3. Saves
    BY <2>1 DEF Saves, SaveNothing
  <2>4. NothingExcluded' /\ BytesMentioned'
    BY <2>1, <2>2, PassExact
  <2>5. NamesFresh'
    BY <2>2, <2>3, SavesKeep
  <2>6. FeasibleSaved'
    BY <2>1, <2>2, <2>3, StepFeasible
  <2>7. QuestionCovers'
    <3>1. CASE pc = "run"
      BY <2>1, <3>1 DEF CompleteInv, QuestionCovers
    <3>2. CASE pc # "run"
      <4>1. k \in DOMAIN program.events
        BY <3>2 DEF SolverInv, TypeOK
      <4>2. ASSUME num_generated_' <= NameLimit, NEW a \in Assign, Follows(k, a), Owed(a)
            PROVE  Owed(a)'
        <5>1. /\ Same(k, a)' <=> Same(k, a)
              /\ LowTried(a) => LowTried(a)'
              /\ HighTried(a) => HighTried(a)'
              /\ JumpTried(a) => JumpTried(a)'
              /\ Tried(k, a) => Tried(k, a)'
          BY <2>1, <2>2, <2>3, <4>1, <4>2, OwedKept
        <5>2. UNCHANGED <<pc, solver, pushed>>
          BY <2>1
        <5>3. QED BY <4>2, <5>1, <5>2 DEF Owed
      <4>3. QED BY <2>1, <2>3, <4>1, <4>2, CoversNext
    <3>3. QED BY <3>1, <3>2
  <2>8. QED BY <2>1, <2>4, <2>5, <2>6, <2>7 DEF CompleteInv
<1>2. QED BY <1>1, ConcreteComplete, AddJccComplete, NegateComplete, NegateOptimisticComplete,
             AddValueComplete, AddAddrComplete, CheckAddrComplete, FindBoundComplete,
             EndBoundComplete, SolveOneComplete, CheckOneComplete, SolveAllComplete,
             CheckAllComplete, EnumerateComplete
          DEF Next, Step, Done

\* When Z3 answered every question of a call, the other side of a branch, a value on either side
\* of every feasible value of an address and every feasible target of a jump were tried.
THEOREM FeasibleTried == Spec => []FeasibleSaved
<1>1. Init => SolverInv /\ CompleteInv
  BY InitInv, InitComplete
<1>2. SolverInv /\ CompleteInv /\ [Next]_vars => SolverInv' /\ CompleteInv'
  BY NextInv, NextComplete
<1>3. CompleteInv => FeasibleSaved
  BY DEF CompleteInv
<1>4. QED BY <1>1, <1>2, <1>3, PTL DEF Spec
===============================================================================
