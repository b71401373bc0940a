------------------------------- MODULE HybridConf -------------------------------
(***************************************************************************)
(* build_conf of src/runner/hybrid.py: which libraries of a program run    *)
(* under the emulator, which calls of native code have to enter it, and    *)
(* which function pointers of emulated libraries may lead back to native   *)
(* stubs.  An assertion or exception of Python ends the runner.            *)
(***************************************************************************)
EXTENDS Layouts

CONSTANT MaxDepth       \* the recursion limit of Python, in calls of split_libs

ASSUME MaxDepthAssumption == MaxDepth \in Nat /\ MaxDepth > Cardinality(Lib) + 1

VARIABLES
  layout,               \* the program that is configured: never changes
  pc,                   \* the loop build_conf is in
  frames,               \* per call of split_libs, the libraries it has still to look at
  emulated, nonEmulated,
  unread,               \* libraries get_symbols_libs has still to look at
  symbols,              \* function |-> libraries that export it
  todo,                 \* blobs, or libraries, the loop has still to look at
  pltPatches,           \* slots to be patched; functions_patched adds their names
  runtimePatches,       \* slots of calls to the runtime
  redirects,            \* possible_plt_redirects
  conf                  \* the file that is written

classes == <<frames, emulated, nonEmulated>>
table == <<unread, symbols>>
patches == <<pltPatches, runtimePatches>>
vars == <<layout, pc, classes, table, todo, patches, redirects, conf>>

NoConf == [plt |-> {}, runtime |-> {}, redirects |-> {}]

Init ==
  /\ layout \in Layouts
  /\ pc = "split"
  /\ frames = <<layout.needs[Binary]>>
  /\ emulated = {} /\ nonEmulated = {}
  /\ unread = layout.order
  /\ symbols = [f \in Function |-> <<>>]
  /\ todo = {}
  /\ pltPatches = {} /\ runtimePatches = {}
  /\ redirects = {}
  /\ conf = NoConf

Raise(condition) ==
  /\ condition
  /\ pc' = "failed"
  /\ UNCHANGED <<layout, classes, table, todo, patches, redirects, conf>>

-------------------------------------------------------------------------------
(* split_libs: no library is marked as visited, so libraries that need one      *)
(* another are visited for ever.                                                *)

IsInstrumented(lib) == Runtime \in Needed(layout, lib)

Top == frames[Len(frames)]
Below == SubSeq(frames, 1, Len(frames) - 1)

\* Mutant of Entered: an instrumented library is not looked into.
EnteredNothing(lib) == <<>>

\* The call for the libraries of an instrumented one.
Entered(lib) ==
  IF lib # Runtime /\ IsInstrumented(lib) THEN <<layout.needs[lib]>> ELSE <<>>

SplitLib ==
  /\ pc = "split" /\ frames # <<>> /\ Top # <<>>
  /\ LET lib == Head(Top)
     IN /\ lib \in Loaded(layout)
        /\ Len(frames) + Len(Entered(lib)) <= MaxDepth
        /\ IF lib = Runtime \/ IsInstrumented(lib)
             THEN nonEmulated' = nonEmulated \cup {lib} /\ UNCHANGED emulated
             ELSE emulated' = emulated \cup {lib} /\ UNCHANGED nonEmulated
        /\ frames' = Append(Below, Tail(Top)) \o Entered(lib)
  /\ UNCHANGED <<layout, pc, table, todo, patches, redirects, conf>>

\* get_lib_path finds no path, or the recursion is too deep.
SplitFails ==
  /\ pc = "split" /\ frames # <<>> /\ Top # <<>>
  /\ Raise(\/ Head(Top) \notin Loaded(layout)
           \/ Len(frames) + Len(Entered(Head(Top))) > MaxDepth)

SplitReturn ==
  /\ pc = "split" /\ frames # <<>> /\ Top = <<>>
  /\ frames' = Below
  /\ UNCHANGED <<layout, pc, emulated, nonEmulated, table, todo, patches, redirects, conf>>

EndSplit ==
  /\ pc = "split" /\ frames = <<>>
  /\ todo' = ({Binary} \cup nonEmulated) \ {Runtime}
  /\ pc' = "symbols"
  /\ UNCHANGED <<layout, classes, table, patches, redirects, conf>>

-------------------------------------------------------------------------------
(* get_symbols_libs: one library.  A name seen again in the same library starts *)
(* its list afresh.                                                             *)

\* Mutant of Listed: the library found last is asked first.
ListedFirst(f, lib) ==
  IF layout.exports[lib][f] = 0 THEN symbols[f] ELSE <<lib>> \o symbols[f]

Listed(f, lib) ==
  CASE layout.exports[lib][f] = 0 -> symbols[f]
    [] layout.exports[lib][f] = 1 -> Append(symbols[f], lib)
    [] OTHER -> <<lib>>

ReadSymbols ==
  /\ pc = "symbols" /\ unread # <<>>
  /\ symbols' = [f \in Function |-> Listed(f, Head(unread))]
  /\ unread' = Tail(unread)
  /\ UNCHANGED <<layout, pc, classes, todo, patches, redirects, conf>>

EndSymbols ==
  /\ pc = "symbols" /\ unread = <<>>
  /\ pc' = "patch"
  /\ UNCHANGED <<layout, classes, table, todo, patches, redirects, conf>>

-------------------------------------------------------------------------------
(* define_plt_entries_to_patch, for one blob of the set, in any order.          *)

Slots(b) == layout.slots[b]
Jumps(b) == {k \in DOMAIN Slots(b) : Slots(b)[k].jump}
Gots(b) == DOMAIN Slots(b) \ Jumps(b)
VersionedGots(b) == {k \in Gots(b) : Slots(b)[k].versioned}

\* Names are compared with their version on one side only.
IsPltEntry(b, g) ==
  \E k \in Jumps(b) : Slots(b)[k].name = Slots(b)[g].name /\ ~Slots(b)[k].versioned

\* Mutant of Entries: calls through slots whose address is taken are forgotten.
EntriesJumps(b) == Jumps(b)

Entries(b) ==
  Jumps(b) \cup {g \in VersionedGots(b) : Slots(b)[g].stub /\ ~IsPltEntry(b, g)}

Libs(b, k) == symbols[Slots(b)[k].name]

\* No library exports the function, or another one follows the runtime.
NotClassified(b, k) ==
  \/ Libs(b, k) = <<>>
  \/ \E n \in 1 .. Len(Libs(b, k)) - 1 : Libs(b, k)[n] = Runtime

PatchBlob(b) ==
  /\ pc = "patch" /\ b \in todo
  /\ Jumps(b) # {} /\ VersionedGots(b) # {}
  /\ \A k \in Entries(b) : ~NotClassified(b, k)
  /\ pltPatches' = pltPatches \cup
       {<<b, k>> : k \in {j \in Entries(b) : Head(Libs(b, j)) \in emulated}}
  /\ runtimePatches' = runtimePatches \cup
       {<<b, k>> : k \in {j \in Entries(b) : Libs(b, j)[Len(Libs(b, j))] = Runtime}}
  /\ todo' = todo \ {b}
  /\ UNCHANGED <<layout, pc, classes, table, redirects, conf>>

\* readelf and grep find nothing, or a function cannot be classified.
PatchFails(b) ==
  /\ pc = "patch" /\ b \in todo
  /\ Raise(\/ Jumps(b) = {} \/ VersionedGots(b) = {}
           \/ \E k \in Entries(b) : NotClassified(b, k))

EndPatch ==
  /\ pc = "patch" /\ todo = {}
  /\ todo' = emulated
  /\ pc' = "alias"
  /\ UNCHANGED <<layout, classes, table, patches, redirects, conf>>

-------------------------------------------------------------------------------
(* find_possible_plt_aliases, for one emulated library, in any order.           *)

\* A slot of the library, the patched slot of the same name, whose stub it may hold.
Aliases(lib) ==
  UNION {{<<lib, g, p[1], p[2]>> :
            p \in {q \in pltPatches : Slots(q[1])[q[2]].name = Slots(lib)[g].name}} :
           g \in Gots(lib)}

AliasesOf(lib) ==
  /\ pc = "alias" /\ lib \in todo
  /\ Gots(lib) # {}
  /\ redirects' = redirects \cup Aliases(lib)
  /\ todo' = todo \ {lib}
  /\ UNCHANGED <<layout, pc, classes, table, patches, conf>>

AliasFails(lib) ==
  /\ pc = "alias" /\ lib \in todo
  /\ Raise(Gots(lib) = {})

-------------------------------------------------------------------------------
(* The functions of libc and libpthread, and the file.                          *)

CanWrite == {Libc, Libpthread} \subseteq Loaded(layout) /\ layout.known

WriteConf ==
  /\ pc = "alias" /\ todo = {}
  /\ CanWrite
  /\ conf' = [plt |-> pltPatches, runtime |-> runtimePatches, redirects |-> redirects]
  /\ pc' = "written"
  /\ UNCHANGED <<layout, classes, table, todo, patches, redirects>>

WriteFails ==
  /\ pc = "alias" /\ todo = {}
  /\ Raise(~CanWrite)

-------------------------------------------------------------------------------
Step ==
  \/ SplitLib \/ SplitFails \/ SplitReturn \/ EndSplit
  \/ ReadSymbols \/ EndSymbols
  \/ \E b \in Blob : PatchBlob(b) \/ PatchFails(b)
  \/ EndPatch
  \/ \E lib \in Lib : AliasesOf(lib) \/ AliasFails(lib)
  \/ WriteConf \/ WriteFails

Ended == pc \in {"written", "failed"} /\ UNCHANGED vars

Next == Step \/ Ended

Spec == Init /\ [][Next]_vars

\* One thread.
FairSpec == Spec /\ WF_vars(Step)
-------------------------------------------------------------------------------
(* Properties.                                                                  *)

Linker == INSTANCE DynamicLinker WITH
  outcome <- IF pc \in {"written", "failed"} THEN pc ELSE "running"

\* The configuration is written, or Python gives up on a program whose tools' output the code
\* cannot take, libraries that need one another among them; and what is written names exactly
\* the calls of native code that the dynamic linker directs to an emulated library, and the
\* stubs behind every function pointer of these libraries, in whatever order the sets of
\* blobs are visited.
ImplementsLinker == Linker!LinkerSpec

TypeOK ==
  /\ layout \in Layouts
  /\ pc \in {"split", "symbols", "patch", "alias", "written", "failed"}
  /\ frames \in Seq(Seq(Lib)) /\ Len(frames) <= MaxDepth
  /\ emulated \subseteq Lib /\ nonEmulated \subseteq Lib
  /\ unread \in Seq(Lib)
  /\ symbols \in [Function -> Seq(Lib)]
  /\ todo \subseteq Blob
  /\ pltPatches \subseteq Blob \X Nat /\ runtimePatches \subseteq Blob \X Nat
  /\ redirects \subseteq Lib \X Nat \X Blob \X Nat

Waiting == UNION {{frames[n][m] : m \in DOMAIN frames[n]} : n \in DOMAIN frames}
Visited == {Binary} \cup (nonEmulated \ {Runtime})

\* A library is in one class only, and there because a blob that runs natively needs it.
ClassesSound ==
  /\ emulated \cap nonEmulated = {}
  /\ \A lib \in emulated : lib # Runtime /\ ~IsInstrumented(lib)
  /\ \A lib \in nonEmulated \ {Runtime} : IsInstrumented(lib)
  /\ \A lib \in emulated \cup nonEmulated \cup Waiting :
       \E b \in Visited : lib \in Needed(layout, b)

\* What a native blob needs is in a class or waits in one of the calls of split_libs: when
\* they have returned none is missing.
ClassesComplete ==
  pc = "failed" \/
    \A b \in Visited : Needed(layout, b) \subseteq emulated \cup nonEmulated \cup Waiting

\* The libraries listed for a function export it, in the order of the loader.
ListedInOrder ==
  \A f \in Function :
    /\ \A n \in DOMAIN symbols[f] :
         symbols[f][n] \in Loaded(layout) /\ layout.exports[symbols[f][n]][f] > 0
    /\ \A m, n \in DOMAIN symbols[f] : m < n =>
         \E i, j \in DOMAIN layout.order :
           i < j /\ symbols[f][m] = layout.order[i] /\ symbols[f][n] = layout.order[j]

\* A slot is patched in a blob that runs natively, for the library listed first.
PatchesSound ==
  \A p \in pltPatches :
    /\ p[1] \in Visited /\ p[2] \in Entries(p[1])
    /\ Libs(p[1], p[2]) # <<>> /\ Head(Libs(p[1], p[2])) \in emulated

\* No library is in both classes or forgotten by the traversal, although it keeps no record of
\* what it has visited, the table of exporters follows the loader, and only calls of native
\* blobs are patched.
HybridInv == TypeOK /\ ClassesSound /\ ClassesComplete /\ ListedInOrder /\ PatchesSound

===============================================================================
