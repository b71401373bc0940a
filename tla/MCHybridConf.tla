----------------------------- MODULE MCHybridConf -----------------------------
(* Small programs for HybridConf: two libraries that may be instrumented, one    *)
(* that is not, libc, libpthread and the runtime.                                *)
EXTENDS HybridConf, SequencesExt

CONSTANTS main, inst, other, plain, libc, libpthread, runtime, f, g

MCLib == {inst, other, plain, libc, libpthread, runtime}
MCFunction == {f, g}

\* The loader visits breadth first, libraries of one program in a fixed order.
Ordered(S) == SelectSeq(<<inst, other, plain, runtime, libpthread, libc>>, LAMBDA l : l \in S)

RECURSIVE LoadOrder(_, _)
LoadOrder(needs, seen) ==
  LET new == UNION {needs[l] : l \in ToSet(seen) \cup {main}} \ ToSet(seen)
  IN IF new = {} THEN seen ELSE LoadOrder(needs, seen \o Ordered(new))

Needs(byMain, byInst, byOther, byPlain) ==
  [b \in MCLib \cup {main} |->
     CASE b = main -> byMain [] b = inst -> byInst [] b = other -> byOther
       [] b = plain -> byPlain [] b = libpthread -> {libc} [] b = runtime -> {libpthread, libc}
       [] OTHER -> {}]

None == [fn \in MCFunction |-> 0]
Only(fn, n) == [h \in MCFunction |-> IF h = fn THEN n ELSE 0]

\* Every library calls f through the linkage table, and g through a slot whose address is taken.
Jump(fn, v) == [name |-> fn, jump |-> TRUE, stub |-> TRUE, versioned |-> v]
Got(fn, stub) == [name |-> fn, jump |-> FALSE, stub |-> stub, versioned |-> TRUE]
Usual == [b \in MCLib \cup {main} |-> <<Jump(f, b = main), Got(g, b # libc)>>]

Program(needs, exports, slots) ==
  [order |-> LoadOrder(needs, <<>>), needs |-> [b \in DOMAIN needs |-> Ordered(needs[b])], exports |-> exports, slots |-> slots,
   known |-> TRUE]

Chain == Needs({inst, plain, runtime}, {plain, libc, runtime}, {}, {libc})
Exports(of) == [b \in MCLib \cup {main} |->
                  [fn \in MCFunction |-> IF b \in DOMAIN of THEN of[b][fn]
                                         ELSE IF b = libc /\ fn = g THEN 1 ELSE 0]]

\* Every graph of dependencies of the program and three libraries, circular ones among them,
\* with f in each of these.
Graphs ==
  {Program(Needs(m \cup {runtime, libc}, i \cup {libc}, o \cup {libc}, {other, libc}),
           Exports([b \in {plain, other} |-> Only(f, 1)]), Usual) :
     m \in SUBSET {inst, plain}, i \in SUBSET {other, plain, runtime},
     o \in SUBSET {inst, plain, runtime}}

\* Every way to export f from four libraries and the program, once or in two versions.
Exporters ==
  {Program(Chain, [Exports(e) EXCEPT ![main] = Only(f, p)], Usual) :
     e \in [{inst, plain, libc, runtime} -> {[None EXCEPT ![f] = n, ![g] = 1] : n \in 0 .. 2}],
     p \in {0, 1}}

\* Blobs without some kind of slot, functions called through both, unknown names.
SlotLists ==
  {<<>>, <<Jump(f, TRUE)>>, <<Got(f, TRUE)>>, <<Got(g, FALSE), Jump(f, FALSE)>>,
   <<Jump(f, TRUE), Got(f, TRUE)>>, <<Got(g, TRUE), Jump(g, TRUE), Jump(f, FALSE)>>}
Tables ==
  {Program(Chain, Exports([b \in d |-> Only(f, 1)]), [Usual EXCEPT ![inst] = s, ![plain] = t]) :
     s \in SlotLists, t \in SlotLists, d \in {{plain}, {}}}
    \cup {[Program(Chain, Exports([b \in {plain} |-> Only(f, 1)]), Usual) EXCEPT !.known = FALSE],
          [Program(Chain, Exports([b \in {plain} |-> Only(f, 1)]), Usual)
             EXCEPT !.order = SelectSeq(@, LAMBDA l : l # libpthread)],
          [Program(Chain, Exports([b \in {plain} |-> Only(f, 1)]), Usual)
             EXCEPT !.order = SelectSeq(@, LAMBDA l : l # plain)]}

MCLayouts == Graphs \cup Exporters \cup Tables
===============================================================================
