----------------------------- MODULE DynamicLinker -----------------------------
(***************************************************************************)
(* What the configuration of the hybrid execution promises.  Instrumented  *)
(* code runs natively, the libraries it needs directly and that are not    *)
(* instrumented under the emulator: wherever native code calls a function  *)
(* that the dynamic linker finds in such a library, the configuration      *)
(* names the slot of the call, so that the emulator takes over, and        *)
(* wherever such a library holds the address of such a function, the stubs *)
(* this address may stand for.                                             *)
(*                                                                         *)
(* Exceptions: a library that is not instrumented and that only emulated   *)
(* ones need has not been looked at by the code, so a call of native code  *)
(* the dynamic linker resolves to it must not be in the configuration; and *)
(* the names of Ambiguous.                                                 *)
(***************************************************************************)
EXTENDS Layouts

VARIABLES
  layout,       \* the program that is configured
  outcome,      \* "running", "written" or "failed"
  conf          \* the configuration: [plt, runtime, redirects]

linkerVars == <<layout, outcome, conf>>

NoConf == [plt |-> {}, runtime |-> {}, redirects |-> {}]

Needs(b) == Needed(layout, b)
Instrumented(lib) == Runtime \in Needs(lib)

\* The program runs natively, and an instrumented library that native code is linked with.
Closed(S) ==
  Binary \in S /\ \A b \in S \ {Runtime} : \A lib \in Needs(b) : Instrumented(lib) => lib \in S
Native == {b \in Blob \ {Runtime} : \A S \in SUBSET Blob : Closed(S) => b \in S}

\* What native code needs itself; not what only these libraries need.
Emulated ==
  {lib \in UNION {Needs(b) : b \in Native} : lib # Runtime /\ ~Instrumented(lib)}

Exports(b, f) == layout.exports[b][f] > 0

\* The dynamic linker searches the program, then the libraries in the order they were loaded.
Search == <<Binary>> \o layout.order
ResolvesTo(f, b) ==
  \E n \in DOMAIN Search :
    /\ Search[n] = b /\ Exports(b, f)
    /\ \A m \in 1 .. n - 1 : ~Exports(Search[m], f)

SlotsOf(b) == layout.slots[b]
\* The slots native code calls through: those of the linkage table, and those whose address
\* is taken, too, when the symbol has a version.
CallSlot(b, k) ==
  /\ k \in DOMAIN SlotsOf(b)
  /\ SlotsOf(b)[k].jump \/ (SlotsOf(b)[k].stub /\ SlotsOf(b)[k].versioned)
NameAt(b, k) == SlotsOf(b)[k].name

\* Names about which the configuration promises nothing: those the program itself exports, too,
\* and those a library exports in several versions after another library has exported them.
Ambiguous(f) ==
  \/ Exports(Binary, f)
  \/ \E m, n \in DOMAIN layout.order :
       m < n /\ Exports(layout.order[m], f) /\ layout.exports[layout.order[n]][f] > 1

\* Calls of emulated code, of the runtime, and the stubs a function pointer may stand for.
Correct(c) ==
  /\ \A p \in c.plt \cup c.runtime : p[1] \in Native /\ CallSlot(p[1], p[2])
  /\ \A b \in Native : \A k \in DOMAIN SlotsOf(b) :
       CallSlot(b, k) /\ ~Ambiguous(NameAt(b, k)) =>
         /\ <<b, k>> \in c.plt <=> \E lib \in Emulated : ResolvesTo(NameAt(b, k), lib)
         /\ ResolvesTo(NameAt(b, k), Runtime) => <<b, k>> \in c.runtime
  /\ \A r \in c.redirects : r[1] \in Emulated /\ <<r[3], r[4]>> \in c.plt
  /\ \A lib \in Emulated : \A g \in DOMAIN SlotsOf(lib) : \A p \in c.plt :
       <<lib, g, p[1], p[2]>> \in c.redirects <=>
         ~SlotsOf(lib)[g].jump /\ NameAt(lib, g) = NameAt(p[1], p[2])

\* Instrumented libraries that need one another.
Circular ==
  \E C \in SUBSET (Native \ {Binary}) : C # {} /\ \A b \in C : Needs(b) \cap C # {}

HasJump(b) == \E k \in DOMAIN SlotsOf(b) : SlotsOf(b)[k].jump
HasVersionedGot(b) == \E k \in DOMAIN SlotsOf(b) : ~SlotsOf(b)[k].jump /\ SlotsOf(b)[k].versioned
HasGot(b) == \E k \in DOMAIN SlotsOf(b) : ~SlotsOf(b)[k].jump

\* A function of the runtime that a library loaded later exports, too.
RuntimeOverlap(f) ==
  \E m, n \in DOMAIN layout.order :
    /\ m < n /\ layout.order[m] = Runtime
    /\ Exports(Runtime, f) /\ Exports(layout.order[n], f)

\* Programs that must be configured: every library was found, and the tools print at least one
\* line for each question.
WellFormed ==
  /\ \A b \in Native : Needs(b) \subseteq Loaded(layout)
  /\ ~Circular
  /\ \A b \in Native : HasJump(b) /\ HasVersionedGot(b)
  /\ \A lib \in Emulated : HasGot(lib)
  /\ \A b \in Native : \A k \in DOMAIN SlotsOf(b) :
       CallSlot(b, k) => /\ \E lib \in Loaded(layout) : Exports(lib, NameAt(b, k))
                         /\ ~RuntimeOverlap(NameAt(b, k))
  /\ {Libc, Libpthread} \subseteq Loaded(layout) /\ layout.known

LinkerInit == layout \in Layouts /\ outcome = "running" /\ conf = NoConf

Write ==
  /\ outcome = "running" /\ outcome' = "written"
  /\ Correct(conf')
  /\ UNCHANGED layout

Fail ==
  /\ outcome = "running" /\ outcome' = "failed"
  /\ ~WellFormed
  /\ UNCHANGED <<layout, conf>>

LinkerSafety == LinkerInit /\ [][Write \/ Fail]_linkerVars

LinkerSpec == LinkerSafety /\ <>(outcome # "running")
===============================================================================
