-------------------------------- MODULE Layouts --------------------------------
(***************************************************************************)
(* What src/runner/hybrid.py reads of a program with ldd, objdump, readelf *)
(* and nm: the libraries it is linked with, what each of them needs and    *)
(* exports, and the slots of its global offset table.                      *)
(***************************************************************************)
EXTENDS Integers, Sequences, FiniteSets

CONSTANTS
  Lib,          \* the shared libraries, by name
  Binary,       \* the program itself
  Runtime,      \* libSymRuntime.so
  Libc, Libpthread,
  Function,     \* names of functions
  Layouts       \* the programs that are configured (LayoutType)

Blob == Lib \cup {Binary}

\* A slot is filled at load time with the address of a function: for calls through the
\* procedure linkage table (jump) or because its address is taken (got); then, too, it may
\* have a stub "name@plt" that calls through it.  The name may carry a version.
Slot == [name : Function, jump : BOOLEAN, stub : BOOLEAN, versioned : BOOLEAN]

\* order: the libraries as the loader searches them and ldd lists them with their paths.
\* exports: how many times nm lists a name, once per version.
LayoutType ==
  [order : Seq(Lib),
   needs : [Blob -> Seq(Lib)],
   exports : [Blob -> [Function -> 0 .. 2]],
   slots : [Blob -> Seq(Slot)],
   known : BOOLEAN]     \* have the program a symbol main, libc and libpthread those asked for?

ASSUME LayoutBlobs == {Runtime, Libc, Libpthread} \subseteq Lib /\ Binary \notin Lib
ASSUME LayoutFinite == IsFiniteSet(Lib)
ASSUME LayoutsAssumption == Layouts \subseteq LayoutType
ASSUME LoadedOnce ==
  \A y \in Layouts : \A m, n \in DOMAIN y.order : y.order[m] = y.order[n] => m = n
ASSUME JumpsHaveStubs ==
  \A y \in Layouts : \A b \in Blob : \A k \in DOMAIN y.slots[b] :
    y.slots[b][k].jump => y.slots[b][k].stub

ASSUME OneVersion ==
  \A y \in Layouts : \A b \in Blob : \A j, k \in DOMAIN y.slots[b] :
    y.slots[b][j].name = y.slots[b][k].name =>
      y.slots[b][j].versioned = y.slots[b][k].versioned

Loaded(y) == {y.order[n] : n \in DOMAIN y.order}
Needed(y, b) == {y.needs[b][n] : n \in DOMAIN y.needs[b]}
===============================================================================
