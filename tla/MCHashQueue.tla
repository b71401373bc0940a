------------------------------ MODULE MCHashQueue ------------------------------
(* A small instance of HashQueue.                                               *)
EXTENDS HashQueue

CONSTANTS a, b, c

SeedFile(name, i) == [name |-> name, id |-> -1, content |-> i]

\* c is generated from a, together with b, and from b.
MCGenerates == [i \in Content |-> CASE i = a -> {b, c} [] i = b -> {c} [] OTHER -> {}]

MCSeedDirs ==
  {<<SeedFile("log", c), SeedFile("seed", c), SeedFile("testcase", a), SeedFile("testcase", a),
     SeedFile("testcase", b)>>}
===============================================================================
