------------------------------ MODULE MCQsymQueue ------------------------------
(* Small programs for QsymQueue: the hits of each input are any of four maps.   *)
EXTENDS QsymQueue, TLC

CONSTANTS a, b, c, e1, e2

One == {<<e1, 1>>}
Two == {<<e1, 1>>, <<e1, 2>>}             \* the same entry of the map, another count
Other == {<<e1, 1>>, <<e2, 1>>}           \* a new entry

MCInput == {a, b, c, Empty}

SeedFile(r, i) == [rank |-> r, id |-> -1, content |-> i]

Program(hits, generates, seeds, garbage) ==
  [hits |-> [i \in Content |-> IF i \in {NoInput, Empty} THEN {} ELSE hits[i]],
   generates |-> [i \in Content |-> generates[i]],
   seeds |-> seeds,
   garbage |-> garbage]

Anything == [i \in Content |-> IF i \in {NoInput, Empty} THEN {} ELSE Input]
Chain == [i \in Content |-> CASE i = a -> {b} [] i = b -> {c} [] OTHER -> {}]

Seeds == <<SeedFile(0, Empty), SeedFile(1, a)>>

\* a generates b and b generates c; malloc may leave a bit in the map.
MCPrograms ==
  {Program([i \in {a, b, c} |-> IF i = a THEN One ELSE h[i]], Chain, Seeds, {}) :
     h \in {[i \in {b, c} |-> IF i = b THEN Two ELSE Other], [i \in {b, c} |-> Other]}}
    \cup {Program([i \in {a, b, c} |-> IF i = b THEN Other ELSE One], Chain, Seeds, {<<e2, 1>>})}

NewCoveragePrograms ==
  {Program([i \in {a, b, c} |-> CASE i = a -> One [] i = b -> Other [] OTHER -> Other \cup Two],
           Anything, <<SeedFile(0, a)>>, {})}
===============================================================================
