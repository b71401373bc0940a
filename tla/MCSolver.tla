------------------------------- MODULE MCSolver -------------------------------
(* Runs of small programs over two bytes of two bits.                           *)
EXTENDS Solver

CONSTANTS first, second, sum

MCByte == {1, 2}
MCExpr == {first, second, sum}

\* The two bytes, and their sum.
MCValue ==
  [e \in MCExpr |-> [a \in Assign |-> CASE e = first -> a[1] [] e = second -> a[2] [] e = sum -> (a[1] + a[2]) % W]]
MCDeps == [e \in MCExpr |-> CASE e = first -> {1} [] e = second -> {2} [] e = sum -> {1, 2}]

Num(c) == [op |-> "const", const |-> c, expr |-> first]
Sym(e) == [op |-> "sym", const |-> 0, expr |-> e]
Plus(c, e) == [op |-> "add", const |-> c, expr |-> e]
Minus(c, e) == [op |-> "sub", const |-> c, expr |-> e]

Do(call, address, kind, left, right) ==
  [call |-> call, pc |-> address, cond |-> [kind |-> kind, left |-> left, right |-> right]]
If(kind, left, right) == Do("addJcc", 1, kind, left, right)
Deref(t) == Do("addAddr", 0, "Equal", t, t)
Jump(t) == Do("solveAll", 0, "Equal", t, t)
Use(t) == Do("addValue", 0, "Equal", t, t)

Run(events, skip) ==
  [inputs |-> [i \in Byte |-> IF i = 1 THEN 1 ELSE 2], value |-> MCValue, deps |-> MCDeps,
   events |-> events, skip_query |-> skip]

Positive == If("Ult", Num(0), Sym(first))
Small == If("Sle", Plus(1, second), Num(3))
Sum == If("Equal", Minus(1, sum), Num(2))
Greater == If("Ugt", Sym(first), Sym(second))
Constants == If("Uge", Num(2), Num(1))
Again == Do("addJcc", 0, "Distinct", Num(3), Sym(second))

Always == If("Ule", Sym(first), Num(3))

\* Constraints on one byte and on both, in different orders; an address, constrained or not
\* (by nothing or by a condition that always holds), and an indirect jump after a branch, also
\* one to a constant; a last branch that needs what was recorded before.
MCPrograms ==
  {Run(events, FALSE) : events \in
     {<<Positive, Small, Sum>>, <<Small, Sum, Positive>>, <<Use(Sym(second)), Greater, Again>>,
      <<Positive, Constants, Deref(Plus(1, first)), Sum>>, <<Positive, Deref(Sym(first)), Greater>>,
      <<Small, Deref(Sym(first))>>, <<Always, Deref(Sym(first))>>,
      <<Positive, Jump(Sym(first)), Greater>>, <<Greater, Jump(Sym(sum))>>,
      <<Sum, Use(Sym(first)), Jump(Sym(second)), Small>>, <<Positive, Jump(Num(2)), Small>>}}
    \cup {Run(<<Positive, Deref(Sym(first))>>, TRUE)}
===============================================================================
