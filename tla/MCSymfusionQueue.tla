--------------------------- MODULE MCSymfusionQueue ---------------------------
(* Small programs for SymfusionQueue: every way to give each input one of a     *)
(* few runs that differ in what the four queues tell apart.                     *)
EXTENDS SymfusionQueue, TLC

CONSTANTS a, b, c, e1, e2

\* hits in application code, in all code, and the two path hashes
Run(main, all, pathMain, pathAll) ==
  [main |-> main, all |-> all, pathMain |-> pathMain, pathAll |-> pathAll]

Base == Run({<<e1, 1>>}, {<<e1, 1>>}, 1, 1)
\* the same edge, one more iteration of a loop
Loop == Run({<<e1, 2>>}, {<<e1, 2>>}, 2, 2)
\* the same application path, another path in a library
Library == Run({<<e1, 1>>}, {<<e1, 1>>, <<e2, 1>>}, 1, 3)
\* a new application edge
Branch == Run({<<e1, 2>>, <<e2, 1>>}, {<<e1, 2>>, <<e2, 1>>}, 4, 4)
\* known edges only, in another order
Reorder == Run({<<e1, 1>>}, {<<e1, 1>>}, 5, 5)

Runs == {Base, Loop, Library, Branch, Reorder}

MCInput == {a, b, c}
MCPath == 1 .. 5

SeedFile(name, i) == [name |-> name, id |-> -1, content |-> i]

Program(run, crashes, generates, seeds, withAfl) ==
  [main |-> [i \in Content |-> run[i].main],
   all |-> [i \in Content |-> run[i].all],
   pathMain |-> [i \in Content |-> run[i].pathMain],
   pathAll |-> [i \in Content |-> run[i].pathAll],
   crashes |-> crashes,
   generates |-> generates,
   seeds |-> seeds,
   afl |-> withAfl]

\* A missing input ends at once, on the path of Base.
RunsOf(f) == [i \in Content |-> IF i = NoInput THEN Base ELSE f[i]]

Anything == [i \in Content |-> IF i = NoInput THEN {} ELSE Input]

Standalone ==
  {Program(RunsOf(f), crashes, Anything, seeds, FALSE) :
     f \in {g \in [Input -> Runs] : g[a] \in {Base, Branch}}, crashes \in {{}, {b}},
     seeds \in {<<SeedFile("log", c), SeedFile("testcase", a)>>}}

WithAfl ==
  {Program(RunsOf([i \in Input |-> IF i = a THEN Base ELSE IF i = b THEN r ELSE s]),
           crashes, [i \in Content |-> IF i = a THEN {b} ELSE {}],
           <<SeedFile("testcase", a)>>, TRUE) :
     r \in {Loop, Library}, s \in {Branch, Reorder},
     crashes \in {{}, {c}}}
    \cup {Program(RunsOf([i \in Input |-> IF i = c THEN Branch ELSE Base]), {a},
                  [i \in Content |-> IF i = a THEN {b} ELSE {}],
                  <<SeedFile("testcase", a)>>, TRUE)}

MCPrograms == Standalone \cup WithAfl
===============================================================================
