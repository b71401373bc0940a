-------------------------------- MODULE Solver --------------------------------
(***************************************************************************)
(* The concolic solver linked into the target (src/utils/qsym_solver.cpp).  *)
(* The run of one input reports its branches, its symbolic addresses and   *)
(* its indirect jumps one by one.  For each the solver may ask Z3 for      *)
(* inputs that behave differently there, and then records, in a forest of  *)
(* constraints that share input bytes, what the run did.                   *)
(*                                                                         *)
(* Z3 is external: it answers with a model of what was asserted, with      *)
(* "unsat", or gives up at its timeout.  So are expressions: an expression *)
(* is a function of the input with the bytes it depends on.                *)
(***************************************************************************)
EXTENDS Integers, Sequences, FiniteSets

CONSTANTS
  Byte,         \* offsets of the input file
  W,            \* values of a byte, and of an expression: 0 .. W - 1
  Expr,         \* symbolic expressions
  Programs,     \* runs of programs (ProgramType)
  MayTimeout,   \* may Z3 give up?
  NameLimit     \* testcases that toString6digit can number (10^6)

Value == 0 .. W - 1
Assign == [Byte -> Value]

\* A constant c, an expression x, c + x or c - x.
Term == [op : {"const", "sym", "add", "sub"}, const : Value, expr : Expr]
Kind == {"Equal", "Distinct", "Ult", "Ule", "Ugt", "Uge", "Slt", "Sle", "Sgt", "Sge"}
Condition == [kind : Kind, left : Term, right : Term]

\* A call of the solver.  Only addJcc looks at pc, kind and right.
Event == [call : {"addJcc", "addAddr", "addValue", "solveAll"}, pc : Nat, cond : Condition]

ProgramType ==
  [inputs : Assign,
   value : [Expr -> [Assign -> Value]],
   deps : [Expr -> SUBSET Byte],
   events : Seq(Event),
   skip_query : BOOLEAN]

\* getDependencies names the bytes an expression depends on.
DepsSound(p) ==
  \A x \in Expr : \A a, b \in Assign :
    (\A i \in p.deps[x] : a[i] = b[i]) => p.value[x][a] = p.value[x][b]

ASSUME SolverAssumption == W \in Nat \ {0} /\ MayTimeout \in BOOLEAN /\ NameLimit \in Nat
ASSUME SolverProgramsAssumption == Programs \subseteq ProgramType
ASSUME SolverDepsAssumption == \A p \in Programs : DepsSound(p)

VARIABLES
  program,          \* the run: never changes
  k,                \* the call being made or to be made
  pc,               \* control point of the call
  last_interested_,
  forest,           \* dep_forest_: trees, each with its bytes and its constraints
  ranges,           \* getRangeSet of the canonical expressions
  solver, pushed,   \* what is asserted, and what was before push
  found,            \* values of getMinValue and getMaxValue
  postfix,          \* of the testcases solveAll saves
  files,            \* the testcases in out_dir_: name |-> testcase
  num_generated_,
  explored, gaveUp, dropped  \* calls that asked Z3; got no answer; were not recorded (history)

history == <<explored, gaveUp, dropped>>
vars == <<program, k, pc, last_interested_, forest, ranges, solver, pushed, found, postfix, files,
          num_generated_, history>>

-------------------------------------------------------------------------------
(* Expressions and conditions.                                                 *)

inputs == program.inputs
event == program.events[k]

IsSymbolic(t) == t.op # "const"

\* The sum or difference of two values, modulo W.
Wrap(n) == IF n < 0 THEN n + W ELSE IF n >= W THEN n - W ELSE n

TermValue(t, a) ==
  CASE t.op = "const" -> t.const
    [] t.op = "sym" -> program.value[t.expr][a]
    [] t.op = "add" -> Wrap(t.const + program.value[t.expr][a])
    [] t.op = "sub" -> Wrap(t.const - program.value[t.expr][a])

TermDeps(t) == IF IsSymbolic(t) THEN program.deps[t.expr] ELSE {}
CondDeps(c) == TermDeps(c.left) \cup TermDeps(c.right)

Signed(v) == IF 2 * v >= W THEN v - W ELSE v

Compare(kind, u, v) ==
  CASE kind = "Equal" -> u = v
    [] kind = "Distinct" -> u # v
    [] kind = "Ult" -> u < v
    [] kind = "Ule" -> u <= v
    [] kind = "Ugt" -> u > v
    [] kind = "Uge" -> u >= v
    [] kind = "Slt" -> Signed(u) < Signed(v)
    [] kind = "Sle" -> Signed(u) <= Signed(v)
    [] kind = "Sgt" -> Signed(u) > Signed(v)
    [] kind = "Sge" -> Signed(u) >= Signed(v)

Truth(c, a) == Compare(c.kind, TermValue(c.left, a), TermValue(c.right, a))

swapKind(kind) ==
  CASE kind = "Ult" -> "Ugt" [] kind = "Ugt" -> "Ult" [] kind = "Ule" -> "Uge"
    [] kind = "Uge" -> "Ule" [] kind = "Slt" -> "Sgt" [] kind = "Sgt" -> "Slt"
    [] kind = "Sle" -> "Sge" [] kind = "Sge" -> "Sle" [] OTHER -> kind

negateKind(kind) ==
  CASE kind = "Equal" -> "Distinct" [] kind = "Distinct" -> "Equal"
    [] kind = "Ult" -> "Uge" [] kind = "Uge" -> "Ult" [] kind = "Ule" -> "Ugt"
    [] kind = "Ugt" -> "Ule" [] kind = "Slt" -> "Sge" [] kind = "Sge" -> "Slt"
    [] kind = "Sle" -> "Sgt" [] kind = "Sgt" -> "Sle"

-------------------------------------------------------------------------------
(* The forest of constraints.  A node is a condition with its outcome, or a    *)
(* canonical expression whose range is constrained.                            *)

Canonical == [expr : Expr, neg : BOOLEAN]
CanonicalValue(x, a) ==
  IF x.neg THEN Wrap(0 - program.value[x.expr][a]) ELSE program.value[x.expr][a]

Relational(c, taken) == [range |-> FALSE, cond |-> c, taken |-> taken]
Ranged(x) == [range |-> TRUE, canonical |-> x]

NodeDeps(n) == IF n.range THEN program.deps[n.canonical.expr] ELSE CondDeps(n.cond)
NodeHolds(n, a) ==
  IF n.range THEN CanonicalValue(n.canonical, a) \in ranges[n.canonical]
  ELSE Truth(n.cond, a) = n.taken

Touched(deps) == {t \in forest : t.deps \cap deps # {}}
NodesOf(trees) == UNION {t.nodes : t \in trees}

\* Mutant of AddNode: the trees that share a byte with the node are not merged.
AddNodeOne(n) ==
  forest' = IF NodeDeps(n) = {} THEN forest
            ELSE LET t == CHOOSE t \in Touched(NodeDeps(n)) : TRUE
                 IN (forest \ {t}) \cup {[t EXCEPT !.nodes = @ \cup {n}]}

AddNode(n) ==
  forest' = IF NodeDeps(n) = {} THEN forest
            ELSE (forest \ Touched(NodeDeps(n))) \cup
                   {[deps |-> UNION {t.deps : t \in Touched(NodeDeps(n))},
                     nodes |-> NodesOf(Touched(NodeDeps(n))) \cup {n}]}

isConstSym(c) == IsSymbolic(c.left) # IsSymbolic(c.right)

SymOf(c) == IF IsSymbolic(c.left) THEN c.left ELSE c.right
ConstOf(c) == IF IsSymbolic(c.left) THEN c.right.const ELSE c.left.const

\* Mutant of RangeKind: a condition with its constant first is read from left to right.
RangeKindNoSwap(c, taken) == IF taken THEN c.kind ELSE negateKind(c.kind)

RangeKind(c, taken) ==
  LET kind == IF IsSymbolic(c.left) THEN c.kind ELSE swapKind(c.kind)
  IN IF taken THEN kind ELSE negateKind(kind)

\* addConstraint: a condition on one expression and a constant narrows a range.
Record(c, taken) ==
  IF isConstSym(c)
    THEN LET t == SymOf(c)
             x == [expr |-> t.expr, neg |-> t.op = "sub"]
             adjustment == IF t.op = "sym" THEN 0 ELSE t.const
         IN /\ ranges' = [ranges EXCEPT ![x] =
                 {v \in @ : Compare(RangeKind(c, taken), Wrap(adjustment + v), ConstOf(c))}]
            /\ AddNode(Ranged(x))
    ELSE AddNode(Relational(c, taken)) /\ UNCHANGED ranges

Constant(v) == [op |-> "const", const |-> v, expr |-> event.cond.left.expr]

\* e == val, for the value the run had.
ValueCondition ==
  [kind |-> "Equal", left |-> event.cond.left, right |-> Constant(TermValue(event.cond.left, inputs))]

-------------------------------------------------------------------------------
(* Z3: what is asserted, as the set of its models and the bytes it mentions.   *)
(* simplify removes what always holds.                                         *)

Mentions(holds, deps) == IF holds = Assign THEN {} ELSE deps

Assert(s, holds, deps) ==
  [models |-> s.models \cap holds, bytes |-> s.bytes \cup Mentions(holds, deps)]

Reset == [models |-> Assign, bytes |-> {}]

NodeModels(n) == {a \in Assign : NodeHolds(n, a)}

\* syncConstraints: the constraints that share bytes, directly or not, with an expression.
Slice(deps) ==
  LET nodes == NodesOf(Touched(deps))
  IN [models |-> {a \in Assign : \A n \in nodes : NodeHolds(n, a)},
      bytes |-> UNION {Mentions(NodeModels(n), NodeDeps(n)) : n \in nodes}]

Negated == {a \in Assign : Truth(event.cond, a) # Truth(event.cond, inputs)}
Different ==
  {a \in Assign : TermValue(event.cond.left, a) # TermValue(event.cond.left, inputs)}

Deps == TermDeps(event.cond.left)

\* addToSolver: the builder folds a condition on a constant to true or false, which is a Z3
\* constant, and add skips those, the false ones too.
AddToSolver(s) == IF Deps = {} THEN s ELSE Assert(s, Different, Deps)

\* getConcreteValues: the bytes the model does not mention are those of the input.
Values(m) == [i \in Byte |-> IF i \in solver.bytes THEN m[i] ELSE inputs[i]]

\* getPossibleValue: eval leaves the bytes the model does not mention symbolic.
Eval(m) ==
  [a \in Assign |-> TermValue(event.cond.left, [i \in Byte |-> IF i \in solver.bytes THEN m[i] ELSE a[i]])]

\* toString6digit: the number, cut after its sixth digit.
Number(n) ==
  IF n < NameLimit THEN n
  ELSE CHOOSE d \in 0 .. NameLimit - 1 :
         \E j \in 1 .. n : d = n \div 10^j /\ n \div 10^(j - 1) >= NameLimit

Extend(f, name, v) == [x \in DOMAIN f \cup {name} |-> IF x = name THEN v ELSE f[x]]

Save(m, post) ==
  /\ files' = Extend(files, <<Number(num_generated_), post>>,
                     [values |-> Values(m), call |-> k, postfix |-> post])
  /\ num_generated_' = num_generated_ + 1

SaveNothing == UNCHANGED <<files, num_generated_>>

\* check does not return sat: unsat, or the timeout.
NotSat ==
  /\ solver.models = {} \/ MayTimeout
  /\ gaveUp' = IF solver.models = {} THEN gaveUp ELSE gaveUp \cup {k}
  /\ SaveNothing

Advance == k' = k + 1 /\ pc' = "run"
RecordNothing == UNCHANGED <<forest, ranges>>

-------------------------------------------------------------------------------
Init ==
  /\ program \in Programs
  /\ k = 1 /\ pc = "run"
  /\ last_interested_ = FALSE
  /\ forest = {[deps |-> {i}, nodes |-> {}] : i \in Byte}
  /\ ranges = [x \in Canonical |-> Value]
  /\ solver = Reset /\ pushed = Reset
  /\ found = [min |-> <<>>, max |-> <<>>]
  /\ postfix = ""
  /\ files = [n \in {} |-> {}] /\ num_generated_ = 0
  /\ explored = {} /\ gaveUp = {} /\ dropped = {}

At(call) == pc = "run" /\ k <= Len(program.events) /\ event.call = call

\* Only addJcc is given a condition; the other calls an expression.
CallDeps(j) ==
  IF program.events[j].call = "addJcc" THEN CondDeps(program.events[j].cond)
  ELSE TermDeps(program.events[j].cond.left)

IsConcrete == CallDeps(k) = {}

\* A call returns at once when its expression is concrete; solveAll does not look.
Concrete ==
  /\ pc = "run" /\ k <= Len(program.events)
  /\ IsConcrete /\ event.call # "solveAll"
  /\ Advance
  /\ UNCHANGED <<program, last_interested_, forest, ranges, solver, pushed, found, postfix, files,
                 num_generated_, history>>

Taken == Truth(event.cond, inputs)

\* Whether the branch is interesting is up to the AFL-like map of the solver; when the call
\* has no pc the answer for the branch before is taken.
AddJcc ==
  /\ At("addJcc") /\ ~IsConcrete
  /\ IF event.pc = 0 THEN UNCHANGED last_interested_ ELSE last_interested_' \in BOOLEAN
  /\ IF last_interested_' /\ ~program.skip_query
       THEN /\ solver' = Assert(Slice(CondDeps(event.cond)), Negated, CondDeps(event.cond))
            /\ explored' = explored \cup {k}
            /\ pc' = "negate"
            /\ RecordNothing /\ UNCHANGED k
       ELSE Record(event.cond, Taken) /\ Advance /\ UNCHANGED <<solver, explored>>
  /\ UNCHANGED <<program, pushed, found, postfix, files, num_generated_, gaveUp, dropped>>

\* negatePath: first together with the constraints on its bytes, then alone.
Negate ==
  /\ pc = "negate"
  /\ \/ /\ \E m \in solver.models : Save(m, "")
        /\ Record(event.cond, Taken) /\ Advance
        /\ UNCHANGED <<solver, gaveUp>>
     \/ /\ NotSat
        /\ solver' = Assert(Reset, Negated, CondDeps(event.cond))
        /\ pc' = "optimistic"
        /\ RecordNothing /\ UNCHANGED k
  /\ UNCHANGED <<program, last_interested_, pushed, found, postfix, explored, dropped>>

NegateOptimistic ==
  /\ pc = "optimistic"
  /\ \/ \E m \in solver.models : Save(m, "optimistic") /\ UNCHANGED gaveUp
     \/ NotSat
  /\ Record(event.cond, Taken) /\ Advance
  /\ UNCHANGED <<program, last_interested_, solver, pushed, found, postfix, explored, dropped>>

\* addValue, also the end of addAddr and solveAll.
AddValue ==
  /\ pc = "value" \/ (At("addValue") /\ ~IsConcrete)
  /\ IF IsConcrete THEN RecordNothing ELSE Record(ValueCondition, TRUE)
  /\ Advance
  /\ UNCHANGED <<program, last_interested_, solver, pushed, found, postfix, files, num_generated_,
                 history>>

\* The last branch, whichever it was, decides whether the address is explored.
AddAddr ==
  /\ At("addAddr") /\ ~IsConcrete
  /\ IF last_interested_
       THEN solver' = Slice(Deps) /\ explored' = explored \cup {k} /\ pc' = "addr"
       ELSE pc' = "value" /\ UNCHANGED <<solver, explored>>
  /\ UNCHANGED <<program, k, last_interested_, forest, ranges, pushed, found, postfix, files,
                 num_generated_, gaveUp, dropped>>

\* Without an answer addAddr returns: the address is not recorded.
CheckAddr ==
  /\ pc = "addr"
  /\ \/ /\ solver.models # {}
        /\ pushed' = solver
        /\ found' = [min |-> <<>>, max |-> <<>>]
        /\ pc' = "min"
        /\ SaveNothing /\ UNCHANGED <<k, gaveUp, dropped>>
     \/ /\ NotSat
        /\ dropped' = dropped \cup {k}
        /\ Advance
        /\ UNCHANGED <<pushed, found>>
  /\ UNCHANGED <<program, last_interested_, forest, ranges, solver, postfix, explored>>

\* The values beyond v: smaller for getMinValue, larger for getMaxValue.
Beyond(v) ==
  {a \in Assign : LET u == TermValue(event.cond.left, a)
                  IN IF pc = "min" THEN u < v[a] ELSE u > v[a]}

\* getMinValue, getMaxValue: every value on the way is saved as a testcase.
FindBound ==
  /\ pc \in {"min", "max"}
  /\ \E m \in solver.models :
       /\ Save(m, "")
       /\ found' = [found EXCEPT ![pc] = Eval(m)]
       /\ solver' = Assert(solver, Beyond(Eval(m)), Deps)
  /\ UNCHANGED <<program, k, pc, last_interested_, forest, ranges, pushed, postfix, history>>

\* Mutant of EndBound: no break.
EndBoundGoesOn ==
  /\ pc \in {"min", "max"}
  /\ NotSat
  /\ UNCHANGED <<program, k, pc, last_interested_, forest, ranges, solver, pushed, found, postfix,
                 explored, dropped>>

EndBound ==
  /\ pc \in {"min", "max"}
  /\ NotSat
  /\ solver' = pushed
  /\ pc' = IF pc = "min" THEN "max" ELSE "solve_min"
  /\ UNCHANGED <<program, k, last_interested_, forest, ranges, pushed, found, postfix, explored,
                 dropped>>

\* solveOne(z3_expr == value).  When not even the first check of getMinValue had an answer
\* the value is an empty Z3 expression and the target crashes here.
SolveOne ==
  /\ pc \in {"solve_min", "solve_max"}
  /\ LET value == IF pc = "solve_min" THEN found.min ELSE found.max
         equal == {a \in Assign : TermValue(event.cond.left, a) = value[a]}
         asserted == Assert(solver, equal, Deps)
     IN IF value = <<>> THEN pc' = "aborted" /\ SaveNothing /\ UNCHANGED <<solver, gaveUp>>
        ELSE /\ solver' = asserted
             /\ pc' = IF pc = "solve_min" THEN "check_min" ELSE "check_max"
             /\ SaveNothing /\ UNCHANGED gaveUp
  /\ UNCHANGED <<program, k, last_interested_, forest, ranges, pushed, found, postfix, explored,
                 dropped>>

CheckOne ==
  /\ pc \in {"check_min", "check_max"}
  /\ \/ \E m \in solver.models : Save(m, "") /\ UNCHANGED gaveUp
     \/ NotSat
  /\ solver' = pushed
  /\ pc' = IF pc = "check_min" THEN "solve_max" ELSE "value"
  /\ UNCHANGED <<program, k, last_interested_, forest, ranges, pushed, found, postfix, explored,
                 dropped>>

\* On a concrete expression nothing is asserted, so that the check is sat, and one testcase
\* equal to the input is saved.
SolveAll ==
  /\ At("solveAll")
  /\ IF last_interested_
       THEN /\ solver' = AddToSolver(Slice(Deps))
            /\ explored' = explored \cup {k}
            /\ pc' = "all"
       ELSE pc' = "value" /\ UNCHANGED <<solver, explored>>
  /\ UNCHANGED <<program, k, last_interested_, forest, ranges, pushed, found, postfix, files,
                 num_generated_, gaveUp, dropped>>

CheckAll ==
  /\ pc = "all"
  /\ \/ /\ solver.models # {}
        /\ postfix' = ""
        /\ SaveNothing /\ UNCHANGED <<solver, gaveUp>>
     \/ /\ NotSat
        /\ postfix' = "optimistic"
        /\ solver' = AddToSolver(Reset)
  /\ pc' = "enumerate"
  /\ UNCHANGED <<program, k, last_interested_, forest, ranges, pushed, found, explored, dropped>>

\* One testcase for every value.
Enumerate ==
  /\ pc = "enumerate"
  /\ \/ /\ \E m \in solver.models :
             /\ Save(m, postfix)
             /\ solver' = Assert(solver,
                            {a \in Assign : TermValue(event.cond.left, a) # Eval(m)[a]}, Deps)
        /\ UNCHANGED <<pc, gaveUp>>
     \/ NotSat /\ pc' = "value" /\ UNCHANGED solver
  /\ UNCHANGED <<program, k, last_interested_, forest, ranges, pushed, found, postfix, explored,
                 dropped>>

Step ==
  \/ Concrete
  \/ AddJcc \/ Negate \/ NegateOptimistic
  \/ AddValue
  \/ AddAddr \/ CheckAddr \/ FindBound \/ EndBound \/ SolveOne \/ CheckOne
  \/ SolveAll \/ CheckAll \/ Enumerate

\* The run has ended, or crashed.
Done ==
  /\ pc = "aborted" \/ (pc = "run" /\ k > Len(program.events))
  /\ UNCHANGED vars

Next == Step \/ Done

Spec == Init /\ [][Next]_vars

\* One thread; every call of Z3 returns, at its timeout at the latest.
FairSpec == Spec /\ WF_vars(Step)
-------------------------------------------------------------------------------
(* Properties.                                                                 *)

Call(j) == program.events[j]
\* Does input a behave at call j like the input of the run?
Same(j, a) ==
  IF Call(j).call = "addJcc" THEN Truth(Call(j).cond, a) = Truth(Call(j).cond, inputs)
  ELSE TermValue(Call(j).cond.left, a) = TermValue(Call(j).cond.left, inputs)

Follows(j, a) == \A i \in 1 .. j - 1 : i \in dropped \/ Same(i, a)

\* A testcase of a branch or of an indirect jump.  The only one of a jump to a constant is the
\* input of the run.
Flips(j, a) ==
  Call(j).call \in {"addJcc", "solveAll"} => IF CallDeps(j) = {} THEN a = inputs ELSE ~Same(j, a)

\* A testcase that is not optimistic takes the same path as the run, and the same addresses
\* as far as they were recorded, up to the call it was generated for.  A testcase generated
\* for a branch or an indirect jump differs from the run there, the optimistic ones too,
\* unless solveAll was given a constant: that saves the input of the run once more.
SavedFollowsPath ==
  \A name \in DOMAIN files :
    LET f == files[name]
    IN /\ f.postfix = "" => Follows(f.call, f.values)
       /\ Flips(f.call, f.values)

Saved(j) == {files[name].values : name \in {n \in DOMAIN files : files[n].call = j}}

LeftValue(j, a) == TermValue(Call(j).cond.left, a)

\* Bytes of what was recorded before call j and excludes some input: simplify leaves nothing
\* of a condition that always holds.
Constrained(j) ==
  UNION {CallDeps(i) : i \in {i \in (1 .. j - 1) \ dropped : \E a \in Assign : ~Same(i, a)}}

\* What call j owes an input a that follows the run up to it: the other side of the branch was
\* tried, an address at most and one at least as large, the same target of the jump.  Addresses
\* over bytes that nothing had constrained are excepted: eval leaves them symbolic, so their
\* bounds are not values.
Tried(j, a) ==
  /\ Call(j).call = "addJcc" => Same(j, a) \/ Saved(j) # {}
  /\ Call(j).call = "addAddr" /\ TermDeps(Call(j).cond.left) \subseteq Constrained(j) =>
       /\ \E lo \in Saved(j) : LeftValue(j, lo) <= LeftValue(j, a)
       /\ \E hi \in Saved(j) : LeftValue(j, a) <= LeftValue(j, hi)
  /\ Call(j).call = "solveAll" =>
       Same(j, a) \/ \E s \in Saved(j) : LeftValue(j, s) = LeftValue(j, a)

\* Slicing loses nothing: when Z3 answered every question of an explored call, the other side
\* of a branch, the lowest and highest value of an address and every value of an indirect jump
\* were tried whenever some input on the path of the run has them.
FeasibleSaved ==
  num_generated_ <= NameLimit =>
    \A j \in explored \ gaveUp : j < k =>
      \A a \in Assign : Follows(j, a) => Tried(j, a)

\* However often Z3 gives up, every call returns, or the target crashes on the empty bound.
Returns == <>(pc = "aborted" \/ (pc = "run" /\ k > Len(program.events)))

-------------------------------------------------------------------------------
(* The inductive invariant behind SavedFollowsPath.                            *)

Node ==
  [range : {FALSE}, cond : Condition, taken : BOOLEAN] \cup [range : {TRUE}, canonical : Canonical]

TypeOK ==
  /\ program \in Programs
  /\ k \in 1 .. Len(program.events) + 1
  /\ pc \in {"run", "negate", "optimistic", "value", "addr", "min", "max", "solve_min", "solve_max",
             "check_min", "check_max", "all", "enumerate", "aborted"}
  /\ pc \notin {"run"} => k \in DOMAIN program.events
  /\ last_interested_ \in BOOLEAN
  /\ forest \subseteq [deps : SUBSET Byte, nodes : SUBSET Node]
  /\ ranges \in [Canonical -> SUBSET Value]
  /\ solver \in [models : SUBSET Assign, bytes : SUBSET Byte]
  /\ pushed \in [models : SUBSET Assign, bytes : SUBSET Byte]
  /\ DOMAIN found = {"min", "max"}
  /\ \A d \in {"min", "max"} : found[d] = <<>> \/ found[d] \in [Assign -> Value]
  /\ postfix \in {"", "optimistic"}
  /\ num_generated_ \in Nat
  /\ \A name \in DOMAIN files :
       files[name] \in [values : Assign, call : 1 .. k, postfix : {"", "optimistic"}]
  /\ explored \subseteq 1 .. k /\ gaveUp \subseteq 1 .. k /\ dropped \subseteq 1 .. k - 1

\* Every byte is in exactly one tree, which holds all the bytes of its constraints; the
\* input of the run satisfies them, and is in every range.
ForestInv ==
  /\ \A x \in Canonical : CanonicalValue(x, inputs) \in ranges[x]
  /\ \A i \in Byte : \E t \in forest : i \in t.deps
  /\ \A s, t \in forest : s.deps \cap t.deps # {} => s = t
  /\ \A t \in forest : \A n \in t.nodes : NodeDeps(n) \subseteq t.deps /\ NodeHolds(n, inputs)

\* The constraints of the forest say no less than what was recorded.
PathInv ==
  \A a \in Assign : (\A n \in NodesOf(forest) : NodeHolds(n, a)) => Follows(k, a)

\* What is asserted contains the slice of the call, and mentions no byte outside of it.
SliceTrees == Touched(CallDeps(k))
Sliced(s) ==
  /\ s.bytes \subseteq UNION {t.deps : t \in SliceTrees}
  /\ \A n \in NodesOf(SliceTrees) :
       /\ s.models \subseteq NodeModels(n)
       /\ Mentions(NodeModels(n), NodeDeps(n)) \subseteq s.bytes

\* Its models differ from the run at the call, whatever the bytes it does not mention are; for
\* a concrete call nothing is mentioned.
Differs(s) ==
  /\ CallDeps(k) \subseteq s.bytes
  /\ IF CallDeps(k) = {} THEN s.bytes = {} ELSE s.models \subseteq {a \in Assign : ~Same(k, a)}

AssertedInv ==
  /\ pc \in {"negate", "addr", "min", "max", "check_min", "check_max"} => Sliced(solver)
  /\ pc \in {"min", "max", "solve_min", "solve_max", "check_min", "check_max"} => Sliced(pushed)
  /\ pc \in {"solve_min", "solve_max"} => solver = pushed
  /\ pc = "all" \/ (pc = "enumerate" /\ postfix = "") => Sliced(solver)
  /\ pc \in {"negate", "optimistic"} => event.call = "addJcc" /\ Differs(solver)
  /\ pc \in {"all", "enumerate"} => event.call = "solveAll" /\ Differs(solver)
  /\ pc \in {"addr", "min", "max", "solve_min", "solve_max", "check_min", "check_max"} =>
       event.call = "addAddr"
  /\ pc = "value" => event.call \in {"addAddr", "solveAll"}

SolverInv == TypeOK /\ ForestInv /\ PathInv /\ AssertedInv /\ SavedFollowsPath
===============================================================================
