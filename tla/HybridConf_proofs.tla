--------------------------- MODULE HybridConf_proofs ---------------------------
(***************************************************************************)
(* Theorems about HybridConf: for every set of programs, however their     *)
(* libraries depend on one another, build_conf writes what the dynamic     *)
(* linker will do, or the program is one it cannot take.                   *)
(***************************************************************************)
EXTENDS HybridConf, FiniteSetTheorems, SequenceTheorems, TLAPS

-------------------------------------------------------------------------------
(* The inductive invariant.                                                     *)

\* Every blob split_libs has looked into runs natively.
Reached == Visited \subseteq Linker!Native

\* What build_conf knows of the recursion: the calls of split_libs are those for the libraries
\* along a path of dependencies from the program.
IsPath(path) ==
  /\ 1 \in DOMAIN frames => path[1] = Binary
  /\ \A i \in 1 .. Len(frames) - 1 : path[i + 1] \in Lib /\ path[i + 1] \in Needed(layout, path[i])
  /\ \A i \in DOMAIN frames :
       /\ path[i] \in Visited
       /\ \A m \in DOMAIN frames[i] : frames[i][m] \in Needed(layout, path[i])
CallPath == \E path \in [DOMAIN frames -> Blob] : IsPath(path)

\* The loops over blobs.
Loops ==
  /\ pc \notin {"split", "failed"} => frames = <<>>
  /\ pc = "symbols" => todo = Visited
  /\ pc = "patch" => todo \subseteq Visited
  /\ pc = "alias" => todo \subseteq emulated
  /\ pc \in {"patch", "alias", "written"} => unread = <<>>

\* The table of exporters after some libraries: nobody who exports a function is forgotten, and
\* unless the name is ambiguous the first of them is listed first.
Read == Len(layout.order) - Len(unread)
Table ==
  /\ Len(unread) <= Len(layout.order)
  /\ \A k \in DOMAIN unread : unread[k] = layout.order[Read + k]
  /\ \A f \in Function : \A n \in DOMAIN symbols[f] :
       \E i \in 1 .. Read : layout.order[i] = symbols[f][n]
  /\ \A f \in Function : \A j \in 1 .. Read :
       layout.exports[layout.order[j]][f] > 0 =>
         /\ symbols[f] # <<>>
         /\ ~Linker!Ambiguous(f) => \E i \in 1 .. j : layout.order[i] = symbols[f][1]

\* Blobs whose slots have been patched, and libraries whose slots have been compared.
PatchedBlobs ==
  {b \in Visited : pc \in {"alias", "written"} \/ (pc = "patch" /\ b \notin todo)}
ComparedLibs == {lib \in emulated : pc = "written" \/ (pc = "alias" /\ lib \notin todo)}

Patched ==
  pc # "failed" =>
    /\ \A b \in Blob : \A k \in Nat :
         /\ <<b, k>> \in pltPatches <=>
              b \in PatchedBlobs /\ k \in Entries(b) /\ Head(Libs(b, k)) \in emulated
         /\ <<b, k>> \in runtimePatches <=>
              b \in PatchedBlobs /\ k \in Entries(b) /\ Libs(b, k)[Len(Libs(b, k))] = Runtime
    /\ \A b \in PatchedBlobs : \A k \in Entries(b) : ~NotClassified(b, k)

IsAlias(lib, g, b, k) ==
  g \in Gots(lib) /\ <<b, k>> \in pltPatches /\ Slots(b)[k].name = Slots(lib)[g].name
Compared ==
  pc # "failed" =>
    \A lib \in Lib : \A g \in Nat : \A b \in Blob : \A k \in Nat :
      <<lib, g, b, k>> \in redirects <=> lib \in ComparedLibs /\ IsAlias(lib, g, b, k)

File ==
  conf = IF pc = "written"
           THEN [plt |-> pltPatches, runtime |-> runtimePatches, redirects |-> redirects]
           ELSE NoConf

ConfInv == HybridInv /\ Reached /\ CallPath /\ Loops /\ Table /\ Patched /\ Compared /\ File

-------------------------------------------------------------------------------
(* Lemmas about programs.                                                       *)

LEMMA LayoutTyped ==
  ASSUME layout \in Layouts
  PROVE  /\ layout.order \in Seq(Lib)
         /\ \A b \in Blob : layout.needs[b] \in Seq(Lib) /\ Needed(layout, b) \subseteq Lib
         /\ \A b \in Blob : layout.slots[b] \in Seq(Slot)
         /\ \A b \in Blob : \A f \in Function : layout.exports[b][f] \in 0 .. 2
         /\ layout.known \in BOOLEAN
<1>1. layout \in LayoutType
  BY LayoutsAssumption
<1>2. /\ layout.order \in Seq(Lib)
      /\ \A b \in Blob : layout.needs[b] \in Seq(Lib)
      /\ \A b \in Blob : layout.slots[b] \in Seq(Slot)
      /\ \A b \in Blob : \A f \in Function : layout.exports[b][f] \in 0 .. 2
      /\ layout.known \in BOOLEAN
  BY <1>1 DEF LayoutType
<1>3. ASSUME NEW b \in Blob PROVE Needed(layout, b) \subseteq Lib
  BY <1>2 DEF Needed
<1>4. QED BY <1>2, <1>3

LEMMA Blobs == Binary \in Blob /\ Lib \subseteq Blob /\ Runtime \in Lib /\ Binary # Runtime
BY LayoutBlobs DEF Blob

\* Within a blob the names of slots agree on whether they have a version, so that comparing
\* them with the version on one side only does no harm.
LEMMA EntriesAreCallSlots ==
  ASSUME layout \in Layouts, NEW b \in Blob
  PROVE  /\ \A k : k \in Entries(b) <=> Linker!CallSlot(b, k)
         /\ Entries(b) \subseteq DOMAIN Slots(b) /\ DOMAIN Slots(b) \subseteq Nat
<1>1. Slots(b) \in Seq(Slot) /\ Slots(b) = Linker!SlotsOf(b)
  BY LayoutTyped DEF Slots, Linker!SlotsOf
<1>2. \A g \in VersionedGots(b) : ~IsPltEntry(b, g)
  <2> SUFFICES ASSUME NEW g \in VersionedGots(b), NEW k \in Jumps(b),
                      Slots(b)[k].name = Slots(b)[g].name, ~Slots(b)[k].versioned
               PROVE  FALSE
    BY DEF IsPltEntry
  <2>1. g \in DOMAIN Slots(b) /\ k \in DOMAIN Slots(b) /\ Slots(b)[g].versioned
    BY DEF VersionedGots, Gots, Jumps
  <2>2. Slots(b)[k].versioned = Slots(b)[g].versioned
    BY <2>1, OneVersion DEF Slots
  <2>3. QED BY <2>1, <2>2
<1>3. \A k : k \in Entries(b) <=>
               k \in DOMAIN Slots(b) /\ (Slots(b)[k].jump \/ (Slots(b)[k].stub /\ Slots(b)[k].versioned))
  <2>1. \A k \in Jumps(b) : k \in DOMAIN Slots(b) /\ Slots(b)[k].jump
    BY DEF Jumps
  <2>2. \A k \in VersionedGots(b) : k \in DOMAIN Slots(b) /\ ~Slots(b)[k].jump /\ Slots(b)[k].versioned
    BY DEF VersionedGots, Gots, Jumps
  <2>3. \A k \in DOMAIN Slots(b) : Slots(b)[k].jump => k \in Jumps(b)
    BY DEF Jumps
  <2>4. \A k \in DOMAIN Slots(b) :
          ~Slots(b)[k].jump /\ Slots(b)[k].versioned => k \in VersionedGots(b)
    BY DEF VersionedGots, Gots, Jumps
  <2>5. QED BY <1>2, <2>1, <2>2, <2>3, <2>4 DEF Entries
<1>4. DOMAIN Slots(b) \subseteq Nat
  BY <1>1
<1>5. QED BY <1>1, <1>3, <1>4 DEF Linker!CallSlot

LEMMA Instrumentation ==
  ASSUME NEW b PROVE Linker!Needs(b) = Needed(layout, b) /\ Linker!Instrumented(b) = IsInstrumented(b)
BY DEF Linker!Needs, Linker!Needed, Needed, Linker!Instrumented, IsInstrumented

LEMMA NativeBlobs ==
  /\ Binary \in Linker!Native
  /\ Linker!Native \subseteq Blob \ {Runtime}
  /\ \A b \in Linker!Native : \A lib \in Needed(layout, b) :
       lib \in Lib \ {Runtime} /\ IsInstrumented(lib) => lib \in Linker!Native
<1>1. Linker!Blob = Blob
  BY DEF Linker!Blob, Blob
<1>2. Binary \in Linker!Native
  BY <1>1, Blobs DEF Linker!Native, Linker!Closed
<1>3. Linker!Native \subseteq Blob \ {Runtime}
  BY <1>1 DEF Linker!Native
<1>4. ASSUME NEW b \in Linker!Native, NEW lib \in Needed(layout, b), lib \in Lib \ {Runtime},
             IsInstrumented(lib)
      PROVE  lib \in Linker!Native
  <2>1. ASSUME NEW S \in SUBSET Blob, Linker!Closed(S) PROVE lib \in S
    <3>1. b \in S \ {Runtime}
      BY <1>1, <1>3, <2>1 DEF Linker!Native
    <3>2. lib \in Linker!Needs(b) /\ Linker!Instrumented(lib)
      BY <1>4, Instrumentation
    <3>3. QED BY <2>1, <3>1, <3>2 DEF Linker!Closed
  <2>2. lib \in Blob \ {Runtime}
    BY <1>4, Blobs
  <2>3. QED BY <1>1, <2>1, <2>2 DEF Linker!Native
<1>5. QED BY <1>2, <1>3, <1>4

\* An element of a sequence is its first one or one of the others.
LEMMA HeadOrTail ==
  ASSUME NEW S, NEW s \in Seq(S), s # <<>>
  PROVE  /\ Head(s) \in S /\ Tail(s) \in Seq(S) /\ 1 \in DOMAIN s /\ s[1] = Head(s)
         /\ \A k \in DOMAIN s : s[k] = Head(s) \/ \E m \in DOMAIN Tail(s) : Tail(s)[m] = s[k]
         /\ \A m \in DOMAIN Tail(s) : m + 1 \in DOMAIN s /\ Tail(s)[m] = s[m + 1]
<1>1. ASSUME NEW k \in DOMAIN s, k # 1
      PROVE  k - 1 \in DOMAIN Tail(s) /\ Tail(s)[k - 1] = s[k]
  BY <1>1
<1>2. s[1] = Head(s) /\ Head(s) \in S /\ Tail(s) \in Seq(S) /\ 1 \in DOMAIN s
  OBVIOUS
<1>3. QED BY <1>1, <1>2

-------------------------------------------------------------------------------
(* The beginning.                                                               *)

LEMMA InitInv == Init => ConfInv
<1> SUFFICES ASSUME Init PROVE ConfInv
  OBVIOUS
<1>1. layout \in Layouts /\ pc = "split" /\ frames = <<layout.needs[Binary]>> /\ unread = layout.order
  BY DEF Init
<1>2. /\ emulated = {} /\ nonEmulated = {} /\ todo = {} /\ pltPatches = {} /\ runtimePatches = {}
      /\ redirects = {} /\ conf = NoConf
  BY DEF Init
<1>3. symbols = [f \in Function |-> <<>>]
  BY DEF Init
<1>4. /\ layout.order \in Seq(Lib) /\ layout.needs[Binary] \in Seq(Lib)
      /\ Needed(layout, Binary) \subseteq Lib
  BY <1>1, LayoutTyped, Blobs
<1>5. frames \in Seq(Seq(Lib)) /\ Len(frames) = 1 /\ DOMAIN frames = {1}
      /\ frames[1] = layout.needs[Binary]
  BY <1>1, <1>4
<1>6. 1 <= MaxDepth
  <2>1. Cardinality(Lib) \in Nat
    BY LayoutFinite, FS_CardinalityType
  <2>2. QED BY <2>1, MaxDepthAssumption
<1>7. TypeOK
  <2>1. symbols \in [Function -> Seq(Lib)]
    BY <1>3
  <2>2. QED BY <1>1, <1>2, <1>4, <1>5, <1>6, <2>1 DEF TypeOK
<1>8. Visited = {Binary}
  BY <1>2 DEF Visited
<1>9. Waiting = Needed(layout, Binary)
  BY <1>5 DEF Waiting, Needed
<1>10. ClassesSound /\ ClassesComplete
  BY <1>2, <1>8, <1>9 DEF ClassesSound, ClassesComplete
<1>11. ListedInOrder
  BY <1>3 DEF ListedInOrder
<1>12. PatchesSound
  BY <1>2 DEF PatchesSound
<1>13. Reached
  BY <1>8, NativeBlobs DEF Reached
<1>14. CallPath
  <2>1. IsPath([i \in {1} |-> Binary])
    BY <1>5, <1>8 DEF IsPath, Needed
  <2>2. [i \in {1} |-> Binary] \in [DOMAIN frames -> Blob]
    BY <1>5, Blobs
  <2>3. QED BY <2>1, <2>2 DEF CallPath
<1>15. Loops
  BY <1>1 DEF Loops
<1>16. Table
  <2>1. Read = 0
    BY <1>1, <1>4 DEF Read
  <2>2. QED BY <1>1, <1>3, <1>4, <2>1 DEF Table
<1>17. Patched /\ Compared
  BY <1>1, <1>2 DEF Patched, Compared, PatchedBlobs, ComparedLibs
<1>18. File
  BY <1>1, <1>2 DEF File
<1>19. QED
  BY <1>7, <1>10, <1>11, <1>12, <1>13, <1>14, <1>15, <1>16, <1>17, <1>18 DEF ConfInv, HybridInv

-------------------------------------------------------------------------------
(* split_libs.                                                                  *)

LEMMA InWaiting ==
  /\ \A x : x \in Waiting <=>
       \E i \in DOMAIN frames : \E m \in DOMAIN frames[i] : frames[i][m] = x
  /\ (\A x : x \in Waiting <=>
       \E i \in DOMAIN frames : \E m \in DOMAIN frames[i] : frames[i][m] = x)'
BY DEF Waiting

\* A stack without its top.
LEMMA Popped ==
  ASSUME NEW S, NEW s \in Seq(S), s # <<>>
  PROVE  LET r == SubSeq(s, 1, Len(s) - 1)
         IN r \in Seq(S) /\ Len(r) = Len(s) - 1 /\ \A i \in 1 .. Len(s) - 1 : r[i] = s[i]
<1> DEFINE n == Len(s) - 1
           r == SubSeq(s, 1, n)
<1>1. n \in Nat /\ \A i \in 1 .. n : s[i] \in S
  OBVIOUS
<1> HIDE DEF n
<1>2. /\ r \in Seq(S) /\ Len(r) = IF 1 <= n THEN n - 1 + 1 ELSE 0
      /\ \A i \in 1 .. n - 1 + 1 : r[i] = s[1 + i - 1]
  BY <1>1, SubSeqProperties
<1> HIDE DEF r
<1>3. Len(r) = n /\ \A i \in 1 .. n : r[i] = s[i]
  BY <1>1, <1>2
<1>4. QED BY <1>2, <1>3 DEF n, r

\* A stack whose top is replaced by e and the elements of t.
IsPushed(S, s, e, t, r) ==
  /\ r \in Seq(S) /\ Len(r) = Len(s) + Len(t)
  /\ \A i \in 1 .. Len(s) - 1 : r[i] = s[i]
  /\ r[Len(s)] = e
  /\ \A j \in 1 .. Len(t) : r[Len(s) + j] = t[j]

LEMMA Pushed ==
  ASSUME NEW S, NEW s \in Seq(S), s # <<>>, NEW e \in S, NEW t \in Seq(S)
  PROVE  IsPushed(S, s, e, t, Append(SubSeq(s, 1, Len(s) - 1), e) \o t)
<1> DEFINE low == SubSeq(s, 1, Len(s) - 1)
           mid == Append(low, e)
           n == Len(s)
<1>1. n \in Nat \ {0} /\ Len(t) \in Nat
  OBVIOUS
<1>2. low \in Seq(S) /\ Len(low) = n - 1 /\ \A i \in 1 .. n - 1 : low[i] = s[i]
  BY Popped
<1> HIDE DEF low
<1>3. /\ mid \in Seq(S) /\ Len(mid) = n /\ mid[n] = e
      /\ \A i \in 1 .. n - 1 : mid[i] = s[i]
  BY <1>1, <1>2
<1> HIDE DEF mid, n
<1>4. /\ mid \o t \in Seq(S) /\ Len(mid \o t) = n + Len(t)
      /\ \A i \in 1 .. n + Len(t) : (mid \o t)[i] = IF i <= n THEN mid[i] ELSE t[i - n]
  BY <1>3, ConcatProperties
<1>5. ASSUME NEW i \in 1 .. n PROVE (mid \o t)[i] = mid[i]
  BY <1>1, <1>4
<1>6. ASSUME NEW j \in 1 .. Len(t) PROVE (mid \o t)[n + j] = t[j]
  <2>1. n + j \in 1 .. n + Len(t) /\ ~(n + j <= n) /\ (n + j) - n = j
    BY <1>1
  <2>2. QED BY <1>4, <2>1
<1>7. n \in 1 .. n /\ \A i \in 1 .. n - 1 : i \in 1 .. n
  BY <1>1
<1>8. QED BY <1>3, <1>4, <1>5, <1>6, <1>7 DEF mid, low, n, IsPushed

LEMMA TopTyped ==
  ASSUME TypeOK, frames # <<>>
  PROVE  /\ Len(frames) \in Nat \ {0} /\ Top = frames[Len(frames)] /\ Top \in Seq(Lib)
         /\ DOMAIN frames = 1 .. Len(frames) /\ Len(frames) <= MaxDepth
         /\ Below \in Seq(Seq(Lib)) /\ Len(Below) = Len(frames) - 1
         /\ \A i \in 1 .. Len(frames) - 1 : Below[i] = frames[i]
<1>1. frames \in Seq(Seq(Lib)) /\ Len(frames) <= MaxDepth /\ Len(frames) \in Nat \ {0}
  BY DEF TypeOK
<1>2. Top = frames[Len(frames)] /\ Top \in Seq(Lib) /\ DOMAIN frames = 1 .. Len(frames)
  BY <1>1 DEF Top
<1>3. /\ Below \in Seq(Seq(Lib)) /\ Len(Below) = Len(frames) - 1
      /\ \A i \in 1 .. Len(frames) - 1 : Below[i] = frames[i]
  BY <1>1, Popped DEF Below
<1>4. QED BY <1>1, <1>2, <1>3

\* The stack after a step of split_libs.
LEMMA StackAfter ==
  ASSUME TypeOK, frames # <<>>, Top # <<>>, NEW lib \in Lib,
         frames' = Append(Below, Tail(Top)) \o Entered(lib)
  PROVE  /\ frames' \in Seq(Seq(Lib)) /\ DOMAIN frames' = 1 .. Len(frames')
         /\ Len(frames') = Len(frames) + Len(Entered(lib))
         /\ \A i \in 1 .. Len(frames) - 1 : frames'[i] = frames[i]
         /\ frames'[Len(frames)] = Tail(Top)
         /\ Len(Entered(lib)) =
              IF lib # Runtime /\ IsInstrumented(lib) THEN 1 ELSE 0
         /\ lib # Runtime /\ IsInstrumented(lib) => frames'[Len(frames) + 1] = layout.needs[lib]
<1>1. frames \in Seq(Seq(Lib)) /\ Tail(Top) \in Seq(Lib)
  BY TopTyped, HeadOrTail DEF TypeOK
<1>2. layout.needs[lib] \in Seq(Lib)
  BY LayoutTyped, Blobs DEF TypeOK
<1>3. /\ Entered(lib) \in Seq(Seq(Lib))
      /\ Len(Entered(lib)) = IF lib # Runtime /\ IsInstrumented(lib) THEN 1 ELSE 0
      /\ lib # Runtime /\ IsInstrumented(lib) => Entered(lib)[1] = layout.needs[lib]
  BY <1>2 DEF Entered
<1>4. /\ frames' \in Seq(Seq(Lib)) /\ Len(frames') = Len(frames) + Len(Entered(lib))
      /\ \A i \in 1 .. Len(frames) - 1 : frames'[i] = frames[i]
      /\ frames'[Len(frames)] = Tail(Top)
      /\ \A j \in 1 .. Len(Entered(lib)) : frames'[Len(frames) + j] = Entered(lib)[j]
  <2>1. frames' = Append(SubSeq(frames, 1, Len(frames) - 1), Tail(Top)) \o Entered(lib)
    BY DEF Below
  <2>2. Entered(lib) \in Seq(Seq(Lib))
    BY <1>3
  <2>3. IsPushed(Seq(Lib), frames, Tail(Top), Entered(lib), frames')
    BY <1>1, <2>1, <2>2, Pushed, Zenon
  <2>4. QED BY <2>3 DEF IsPushed
<1>5. DOMAIN frames' = 1 .. Len(frames')
  BY <1>4
<1>6. lib # Runtime /\ IsInstrumented(lib) => 1 \in 1 .. Len(Entered(lib))
  BY <1>3
<1>7. QED BY <1>3, <1>4, <1>5, <1>6

\* What the steps of split_libs leave alone.
LEMMA SplitLeaves ==
  ASSUME ConfInv, pc = "split", pc' = "split",
         UNCHANGED <<layout, table, todo, patches, redirects, conf>>,
         Visited \subseteq Visited', emulated \subseteq emulated'
  PROVE  /\ ListedInOrder' /\ PatchesSound' /\ Loops' /\ Table' /\ Patched' /\ Compared' /\ File'
<1> USE DEF ConfInv, HybridInv, table, patches
<1>1. UNCHANGED <<layout, unread, symbols, todo, pltPatches, runtimePatches, redirects, conf>>
  OBVIOUS
<1>2. ListedInOrder'
  BY <1>1 DEF ListedInOrder, Loaded
<1>3. /\ \A b : Slots(b)' = Slots(b) /\ Entries(b)' = Entries(b) /\ Gots(b)' = Gots(b)
      /\ \A b, k : Libs(b, k)' = Libs(b, k)
  BY <1>1 DEF Slots, Entries, Gots, Jumps, VersionedGots, IsPltEntry, Libs
<1>4. PatchesSound'
  BY <1>1, <1>3 DEF PatchesSound
<1>5. Loops'
  BY DEF Loops
<1>6. Table'
  BY <1>1 DEF Table, Read, Linker!Ambiguous, Linker!Exports
<1>7. PatchedBlobs = {} /\ PatchedBlobs' = {} /\ ComparedLibs = {} /\ ComparedLibs' = {}
  BY DEF PatchedBlobs, ComparedLibs
<1>8. Patched'
  BY <1>1, <1>7 DEF Patched
<1>9. Compared'
  BY <1>1, <1>7 DEF Compared
<1>10. File'
  BY <1>1 DEF File
<1>11. QED BY <1>2, <1>4, <1>5, <1>6, <1>8, <1>9, <1>10

\* Looking at one library: it is put in its class, and what it needs waits if it is instrumented.
LEMMA SplitLibInv ==
  ASSUME ConfInv, SplitLib
  PROVE  ConfInv'
<1> DEFINE lib == Head(Top)
           n == Len(frames)
           deep == lib # Runtime /\ IsInstrumented(lib)
<1>1. TypeOK /\ ClassesSound /\ ClassesComplete /\ Reached /\ CallPath
  BY DEF ConfInv, HybridInv
<1>2. /\ pc = "split" /\ frames # <<>> /\ Top # <<>> /\ lib \in Loaded(layout)
      /\ n + Len(Entered(lib)) <= MaxDepth
      /\ IF lib = Runtime \/ IsInstrumented(lib)
           THEN nonEmulated' = nonEmulated \cup {lib} /\ UNCHANGED emulated
           ELSE emulated' = emulated \cup {lib} /\ UNCHANGED nonEmulated
      /\ frames' = Append(Below, Tail(Top)) \o Entered(lib)
      /\ UNCHANGED <<layout, pc, table, todo, patches, redirects, conf>>
  BY DEF SplitLib
<1>3. lib \in Lib /\ Top \in Seq(Lib) /\ n \in Nat \ {0} /\ DOMAIN frames = 1 .. n /\ Top = frames[n]
  BY <1>1, <1>2, TopTyped, HeadOrTail
<1>4. /\ frames' \in Seq(Seq(Lib)) /\ DOMAIN frames' = 1 .. Len(frames')
      /\ Len(frames') = n + (IF deep THEN 1 ELSE 0) /\ Len(frames') <= MaxDepth
      /\ \A i \in 1 .. n - 1 : frames'[i] = frames[i]
      /\ frames'[n] = Tail(Top)
      /\ deep => frames'[n + 1] = layout.needs[lib]
  BY <1>1, <1>2, <1>3, StackAfter
<1>5. /\ 1 \in DOMAIN Top /\ Top[1] = lib
      /\ \A k \in DOMAIN Top : Top[k] = lib \/ \E m \in DOMAIN Tail(Top) : Tail(Top)[m] = Top[k]
      /\ \A m \in DOMAIN Tail(Top) : m + 1 \in DOMAIN Top /\ Tail(Top)[m] = Top[m + 1]
  BY <1>2, <1>3, HeadOrTail
<1>6. PICK path \in [DOMAIN frames -> Blob] : IsPath(path)
  BY <1>1 DEF CallPath
<1>7. path[n] \in Visited /\ lib \in Needed(layout, path[n])
  BY <1>3, <1>5, <1>6 DEF IsPath
<1>8. /\ \A b : Needed(layout', b) = Needed(layout, b)
      /\ \A x : IsInstrumented(x)' = IsInstrumented(x)
      /\ Linker!Native' = Linker!Native
  <2>1. layout' = layout
    BY <1>2
  <2>2. QED
    BY <2>1 DEF Needed, IsInstrumented, Linker!Native, Linker!Closed, Linker!Needs, Linker!Needed,
                Linker!Instrumented
<1> HIDE DEF lib, n
<1>9. Visited \subseteq Visited' /\ emulated \subseteq emulated' /\ nonEmulated \subseteq nonEmulated'
  BY <1>2 DEF Visited
<1>10. Visited' \subseteq Visited \cup {lib} /\ (deep => lib \in Visited')
       /\ (lib \in Visited' => deep \/ lib \in Visited)
  BY <1>2, <1>3 DEF Visited
<1>11. TypeOK'
  <2>1. emulated' \subseteq Lib /\ nonEmulated' \subseteq Lib
    BY <1>1, <1>2, <1>3 DEF TypeOK
  <2>2. QED
    BY <1>1, <1>2, <1>4, <2>1 DEF TypeOK, table, patches
<1>12. Reached'
  <2>1. deep => lib \in Linker!Native
    BY <1>1, <1>3, <1>7, NativeBlobs DEF Reached
  <2>2. QED BY <1>1, <1>8, <1>10, <2>1 DEF Reached
<1>13. CallPath'
  <2> DEFINE p == [i \in DOMAIN frames' |-> IF i = n + 1 THEN lib ELSE path[i]]
  <2>1. ASSUME NEW i \in DOMAIN frames' PROVE (i = n + 1 /\ deep) \/ i \in 1 .. n
    BY <1>3, <1>4
  <2>2. p \in [DOMAIN frames' -> Blob]
    BY <1>3, <1>6, <2>1, Blobs
  <2>3. ASSUME NEW i \in 1 .. n PROVE i \in DOMAIN frames' /\ i # n + 1 /\ p[i] = path[i]
    BY <1>3, <1>4
  <2>4. deep => n + 1 \in DOMAIN frames' /\ p[n + 1] = lib
    BY <1>3, <1>4
  <2> HIDE DEF p
  <2>5. 1 \in DOMAIN frames' => p[1] = Binary
    BY <1>3, <1>6, <2>3 DEF IsPath
  <2>6. ASSUME NEW i \in 1 .. Len(frames') - 1
        PROVE  p[i + 1] \in Lib /\ p[i + 1] \in Needed(layout, p[i])
    <3>1. CASE i \in 1 .. n - 1
      <4>1. i \in 1 .. n /\ i + 1 \in 1 .. n
        BY <1>3, <3>1
      <4>2. QED BY <1>6, <2>3, <3>1, <4>1 DEF IsPath, n
    <3>2. CASE i = n /\ deep
      BY <1>3, <1>7, <2>3, <2>4, <3>2
    <3>3. QED BY <1>3, <1>4, <3>1, <3>2
  <2>7. ASSUME NEW i \in DOMAIN frames'
        PROVE  /\ p[i] \in Visited'
               /\ \A m \in DOMAIN frames'[i] : frames'[i][m] \in Needed(layout, p[i])
    <3>1. CASE i \in 1 .. n - 1
      <4>1. i \in 1 .. n /\ i \in DOMAIN frames
        BY <1>3, <3>1
      <4>2. QED BY <1>4, <1>6, <1>9, <2>3, <3>1, <4>1 DEF IsPath
    <3>2. CASE i = n
      <4>1. p[n] = path[n] /\ path[n] \in Visited /\ n \in DOMAIN frames
        BY <1>3, <1>7, <2>3
      <4>2. \A m \in DOMAIN Top : Top[m] \in Needed(layout, path[n])
        BY <1>3, <1>6, <4>1 DEF IsPath
      <4>3. QED BY <1>4, <1>5, <1>9, <3>2, <4>1, <4>2
    <3>3. CASE i = n + 1 /\ deep
      BY <1>4, <1>10, <2>4, <3>3 DEF Needed
    <3>4. QED BY <1>3, <1>4, <3>1, <3>2, <3>3
  <2>8. PICK q \in [DOMAIN frames' -> Blob] : q = p
    BY <2>2
  <2>9. IsPath(q)'
    BY <1>8, <2>5, <2>6, <2>7, <2>8 DEF IsPath
  <2>10. QED BY <2>9 DEF CallPath
<1>14. ASSUME NEW x, x \in Waiting, x # lib PROVE x \in Waiting'
  <2>1. PICK i \in DOMAIN frames : \E m \in DOMAIN frames[i] : frames[i][m] = x
    BY <1>14, InWaiting
  <2>2. CASE i \in 1 .. n - 1
    <3>1. i \in DOMAIN frames' /\ frames'[i] = frames[i]
      BY <1>3, <1>4, <2>2
    <3>2. QED BY <2>1, <3>1, InWaiting
  <2>3. CASE i = n
    <3>1. \E m \in DOMAIN Tail(Top) : Tail(Top)[m] = x
      <4>1. PICK m \in DOMAIN Top : Top[m] = x
        BY <1>3, <2>1, <2>3
      <4>2. QED BY <1>5, <1>14, <4>1
    <3>2. n \in DOMAIN frames' /\ frames'[n] = Tail(Top)
      BY <1>3, <1>4
    <3>3. QED BY <3>1, <3>2, InWaiting
  <2>4. QED BY <1>3, <2>2, <2>3
<1>15. ASSUME deep, NEW x \in Needed(layout, lib) PROVE x \in Waiting'
  <2>1. \E m \in DOMAIN layout.needs[lib] : layout.needs[lib][m] = x
    BY DEF Needed
  <2>2. n + 1 \in DOMAIN frames' /\ frames'[n + 1] = layout.needs[lib]
    BY <1>3, <1>4, <1>15
  <2>3. QED BY <2>1, <2>2, InWaiting
<1>16. ClassesComplete'
  <2>1. ASSUME NEW b \in Visited', NEW x \in Needed(layout, b)
        PROVE  x \in emulated' \cup nonEmulated' \cup Waiting'
    <3>1. lib \in emulated' \cup nonEmulated'
      BY <1>2
    <3>2. CASE b \in Visited
      BY <1>1, <1>2, <1>9, <1>14, <3>1, <3>2 DEF ClassesComplete
    <3>3. CASE b = lib /\ deep
      BY <1>15, <3>3
    <3>4. QED BY <1>10, <3>2, <3>3
  <2>2. QED BY <1>8, <2>1 DEF ClassesComplete
<1>17. ClassesSound'
  <2>1. /\ emulated' \cap nonEmulated' = {}
        /\ \A x \in emulated' : x # Runtime /\ ~IsInstrumented(x)
        /\ \A x \in nonEmulated' \ {Runtime} : IsInstrumented(x)
    BY <1>1, <1>2 DEF ClassesSound
  <2>2. ASSUME NEW x \in Waiting' PROVE \E b \in Visited' : x \in Needed(layout, b)
    BY <1>8, <1>13, InWaiting DEF CallPath, IsPath
  <2>3. ASSUME NEW x \in emulated' \cup nonEmulated' PROVE \E b \in Visited' : x \in Needed(layout, b)
    BY <1>1, <1>2, <1>7, <1>9 DEF ClassesSound
  <2>4. QED BY <1>8, <2>1, <2>2, <2>3 DEF ClassesSound
<1>18. /\ ListedInOrder' /\ PatchesSound' /\ Loops' /\ Table' /\ Patched' /\ Compared' /\ File'
  BY <1>2, <1>9, SplitLeaves
<1>19. QED BY <1>11, <1>12, <1>13, <1>16, <1>17, <1>18 DEF ConfInv, HybridInv

\* A call of split_libs returns, and the last of them does.
LEMMA SplitReturnInv ==
  ASSUME ConfInv, SplitReturn
  PROVE  ConfInv'
<1>1. TypeOK /\ ClassesSound /\ ClassesComplete /\ Reached /\ CallPath
  BY DEF ConfInv, HybridInv
<1>2. /\ pc = "split" /\ pc' = "split" /\ frames # <<>> /\ Top = <<>> /\ frames' = Below
      /\ UNCHANGED <<layout, emulated, nonEmulated, table, todo, patches, redirects, conf>>
  BY DEF SplitReturn
<1>3. /\ Len(frames) \in Nat \ {0} /\ Top = frames[Len(frames)] /\ DOMAIN frames = 1 .. Len(frames)
      /\ frames' \in Seq(Seq(Lib)) /\ Len(frames') = Len(frames) - 1
      /\ \A i \in 1 .. Len(frames) - 1 : frames'[i] = frames[i]
      /\ Len(frames) <= MaxDepth
  BY <1>1, <1>2, TopTyped
<1>4. DOMAIN frames' = 1 .. Len(frames) - 1 /\ DOMAIN frames' \subseteq DOMAIN frames
      /\ Len(frames') <= MaxDepth
  <2>1. MaxDepth \in Nat
    BY MaxDepthAssumption
  <2>2. DOMAIN frames' = 1 .. Len(frames')
    BY <1>3
  <2>3. QED BY <1>3, <2>1, <2>2
<1>5. /\ \A b : Needed(layout', b) = Needed(layout, b)
      /\ \A x : IsInstrumented(x)' = IsInstrumented(x)
      /\ Linker!Native' = Linker!Native /\ Visited' = Visited
  <2>1. layout' = layout /\ nonEmulated' = nonEmulated
    BY <1>2
  <2>2. QED
    BY <2>1 DEF Needed, IsInstrumented, Linker!Native, Linker!Closed, Linker!Needs, Linker!Needed,
                Linker!Instrumented, Visited
<1>6. TypeOK'
  BY <1>1, <1>2, <1>3, <1>4 DEF TypeOK, table, patches
<1>7. Reached'
  BY <1>1, <1>5 DEF Reached
<1>8. ASSUME NEW x PROVE x \in Waiting <=> x \in Waiting'
  <2>1. ASSUME NEW i \in DOMAIN frames, NEW m \in DOMAIN frames[i]
        PROVE  i \in DOMAIN frames'
    <3>1. i # Len(frames)
      BY <1>2, <1>3, <2>1
    <3>2. QED BY <1>3, <1>4, <3>1
  <2>2. QED BY <1>3, <1>4, <2>1, InWaiting
<1>9. CallPath'
  <2>1. PICK path \in [DOMAIN frames -> Blob] : IsPath(path)
    BY <1>1 DEF CallPath
  <2>2. PICK q \in [DOMAIN frames' -> Blob] : q = [i \in DOMAIN frames' |-> path[i]]
    BY <1>4
  <2>3. \A i \in DOMAIN frames' : q[i] = path[i]
    BY <2>2
  <2>4. 1 \in DOMAIN frames' => q[1] = Binary
    BY <1>4, <2>1, <2>3 DEF IsPath
  <2>5. ASSUME NEW i \in 1 .. Len(frames') - 1
        PROVE  q[i + 1] \in Lib /\ q[i + 1] \in Needed(layout, q[i])
    <3>1. i \in DOMAIN frames' /\ i + 1 \in DOMAIN frames' /\ i \in 1 .. Len(frames) - 1
      BY <1>3, <1>4
    <3>2. QED BY <2>1, <2>3, <3>1 DEF IsPath
  <2>6. ASSUME NEW i \in DOMAIN frames'
        PROVE  /\ q[i] \in Visited
               /\ \A m \in DOMAIN frames'[i] : frames'[i][m] \in Needed(layout, q[i])
    BY <1>3, <1>4, <2>1, <2>3 DEF IsPath
  <2>7. IsPath(q)'
    BY <1>5, <2>4, <2>5, <2>6 DEF IsPath
  <2>8. QED BY <2>7 DEF CallPath
<1>10. ClassesComplete' /\ ClassesSound'
  <2>1. Waiting' = Waiting
    BY <1>8
  <2>2. QED BY <1>1, <1>2, <1>5, <2>1 DEF ClassesComplete, ClassesSound
<1>11. /\ ListedInOrder' /\ PatchesSound' /\ Loops' /\ Table' /\ Patched' /\ Compared' /\ File'
  BY <1>2, <1>5, SplitLeaves
<1>12. QED BY <1>6, <1>7, <1>9, <1>10, <1>11 DEF ConfInv, HybridInv

\* What is known of the classes while a step leaves them alone.
LEMMA ClassesLeft ==
  ASSUME ConfInv, UNCHANGED <<layout, classes>>, pc = "failed" => pc' = "failed"
  PROVE  /\ ClassesSound' /\ ClassesComplete' /\ Reached' /\ CallPath'
         /\ Visited' = Visited
<1>1. ClassesSound /\ ClassesComplete /\ Reached /\ CallPath
  BY DEF ConfInv, HybridInv
<1>2. layout' = layout /\ frames' = frames /\ emulated' = emulated /\ nonEmulated' = nonEmulated
  BY DEF classes
<1>3. Visited' = Visited /\ Waiting' = Waiting /\ \A b : Needed(layout', b) = Needed(layout, b)
  BY <1>2 DEF Visited, Waiting, Needed
<1>4. \A x : IsInstrumented(x)' = IsInstrumented(x)
  BY <1>2 DEF IsInstrumented, Needed
<1>5. ClassesSound' /\ ClassesComplete'
  BY <1>1, <1>2, <1>3, <1>4 DEF ClassesSound, ClassesComplete
<1>6. Reached'
  BY <1>1, <1>2, <1>3
     DEF Reached, Linker!Native, Linker!Closed, Linker!Needs, Linker!Needed, Linker!Instrumented
<1>7. CallPath'
  <2>1. PICK path \in [DOMAIN frames -> Blob] : IsPath(path)
    BY <1>1 DEF CallPath
  <2>2. IsPath(path)'
    BY <1>2, <1>3, <2>1 DEF IsPath
  <2>3. QED BY <1>2, <2>2 DEF CallPath
<1>8. QED BY <1>3, <1>5, <1>6, <1>7

\* The slots and the table of exporters are looked up in what a step leaves alone.
LEMMA LookupsLeft ==
  ASSUME UNCHANGED <<layout, symbols>>
  PROVE  /\ \A b : Slots(b)' = Slots(b) /\ Entries(b)' = Entries(b) /\ Gots(b)' = Gots(b)
         /\ \A b, k : Libs(b, k)' = Libs(b, k) /\ NotClassified(b, k)' = NotClassified(b, k)
<1>1. layout' = layout /\ symbols' = symbols
  OBVIOUS
<1>2. \A b : Slots(b)' = Slots(b) /\ Entries(b)' = Entries(b) /\ Gots(b)' = Gots(b)
  BY <1>1 DEF Slots, Entries, Gots, Jumps, VersionedGots, IsPltEntry
<1>3. \A b, k : Libs(b, k)' = Libs(b, k) /\ NotClassified(b, k)' = NotClassified(b, k)
  BY <1>1 DEF Slots, Libs, NotClassified
<1>4. QED BY <1>2, <1>3

LEMMA TableLeft ==
  ASSUME Table, ListedInOrder, UNCHANGED <<layout, table>>
  PROVE  Table' /\ ListedInOrder'
BY DEF Table, Read, ListedInOrder, Loaded, Linker!Ambiguous, Linker!Exports, table

\* An exception leaves everything as it is.
LEMMA RaiseInv ==
  ASSUME ConfInv, NEW condition \in BOOLEAN, Raise(condition), pc \notin {"failed", "written"}
  PROVE  ConfInv'
<1>1. /\ pc' = "failed"
      /\ UNCHANGED <<layout, classes, table, todo, patches, redirects, conf>>
  BY DEF Raise
<1>2. TypeOK'
  BY <1>1 DEF ConfInv, HybridInv, TypeOK, classes, table, patches
<1>3. ClassesSound' /\ ClassesComplete' /\ Reached' /\ CallPath' /\ Visited' = Visited
  BY <1>1, ClassesLeft
<1>4. Table' /\ ListedInOrder'
  BY <1>1, TableLeft DEF ConfInv, HybridInv
<1>5. PatchesSound'
  BY <1>1, <1>3, LookupsLeft DEF ConfInv, HybridInv, PatchesSound, table, patches, classes
<1>6. Loops' /\ Patched' /\ Compared' /\ File'
  BY <1>1 DEF Loops, Patched, Compared, ConfInv, File
<1>7. QED BY <1>2, <1>3, <1>4, <1>5, <1>6 DEF ConfInv, HybridInv

-------------------------------------------------------------------------------
(* The other loops.                                                             *)

\* All blobs that run natively are looked at.
LEMMA EndSplitInv ==
  ASSUME ConfInv, EndSplit
  PROVE  ConfInv'
<1>1. /\ pc = "split" /\ pc' = "symbols" /\ frames = <<>> /\ todo' = Visited
      /\ UNCHANGED <<layout, classes, table, patches, redirects, conf>>
  BY LayoutBlobs DEF EndSplit, Visited
<1>2. TypeOK'
  <2>1. Visited \subseteq Blob
    BY Blobs DEF ConfInv, HybridInv, TypeOK, Visited
  <2>2. QED BY <1>1, <2>1 DEF ConfInv, HybridInv, TypeOK, classes, table, patches
<1>3. ClassesSound' /\ ClassesComplete' /\ Reached' /\ CallPath' /\ Visited' = Visited
  BY <1>1, ClassesLeft
<1>4. Table' /\ ListedInOrder'
  BY <1>1, TableLeft DEF ConfInv, HybridInv
<1>5. PatchesSound'
  BY <1>1, <1>3, LookupsLeft DEF ConfInv, HybridInv, PatchesSound, table, patches, classes
<1>6. Loops'
  BY <1>1, <1>3 DEF Loops, classes
<1>7. PatchedBlobs = {} /\ PatchedBlobs' = {} /\ ComparedLibs = {} /\ ComparedLibs' = {}
  BY <1>1 DEF PatchedBlobs, ComparedLibs
<1>8. Patched' /\ Compared'
  BY <1>1, <1>7 DEF Patched, Compared, ConfInv, patches
<1>9. File'
  BY <1>1 DEF File, ConfInv
<1>10. QED BY <1>2, <1>3, <1>4, <1>5, <1>6, <1>8, <1>9 DEF ConfInv, HybridInv

\* The list of a function after one more library.
LEMMA ListedCases ==
  ASSUME TypeOK, NEW f \in Function, NEW lib \in Lib
  PROVE  /\ symbols[f] \in Seq(Lib) /\ Listed(f, lib) \in Seq(Lib)
         /\ \/ layout.exports[lib][f] = 0 /\ Listed(f, lib) = symbols[f]
            \/ layout.exports[lib][f] = 1 /\ Listed(f, lib) = Append(symbols[f], lib)
            \/ layout.exports[lib][f] = 2 /\ Listed(f, lib) = <<lib>>
<1>1. symbols[f] \in Seq(Lib)
  BY DEF TypeOK
<1>2. layout.exports[lib][f] \in 0 .. 2
  BY LayoutTyped, Blobs DEF TypeOK
<1>3. \/ layout.exports[lib][f] = 0 /\ Listed(f, lib) = symbols[f]
      \/ layout.exports[lib][f] = 1 /\ Listed(f, lib) = Append(symbols[f], lib)
      \/ layout.exports[lib][f] = 2 /\ Listed(f, lib) = <<lib>>
  BY <1>2 DEF Listed
<1>4. <<lib>> \in Seq(Lib) /\ Append(symbols[f], lib) \in Seq(Lib)
  BY <1>1
<1>5. QED BY <1>1, <1>3, <1>4

LEMMA ReadSymbolsInv ==
  ASSUME ConfInv, ReadSymbols
  PROVE  ConfInv'
<1> DEFINE lib == Head(unread)
<1>1. /\ pc = "symbols" /\ pc' = pc /\ unread # <<>> /\ unread' = Tail(unread)
      /\ symbols' = [f \in Function |-> Listed(f, lib)]
      /\ UNCHANGED <<layout, classes, todo, patches, redirects, conf>>
  BY DEF ReadSymbols
<1>2. TypeOK /\ ListedInOrder /\ Table /\ frames = <<>> /\ layout' = layout
  BY <1>1 DEF ConfInv, HybridInv, Loops
<1>3. /\ unread \in Seq(Lib) /\ layout.order \in Seq(Lib) /\ Len(unread) <= Len(layout.order)
      /\ \A k \in DOMAIN unread : unread[k] = layout.order[Read + k]
  BY <1>2, LayoutTyped DEF TypeOK, Table
<1>4. /\ Tail(unread) \in Seq(Lib) /\ Len(Tail(unread)) = Len(unread) - 1
      /\ \A k \in DOMAIN Tail(unread) : k + 1 \in DOMAIN unread /\ Tail(unread)[k] = unread[k + 1]
      /\ lib \in Lib /\ unread[1] = lib /\ 1 \in DOMAIN unread
  BY <1>1, <1>3, HeadOrTail
<1>5. Read \in Nat /\ Read' = Read + 1 /\ Read + 1 \in DOMAIN layout.order
  <2>1. Len(layout.order) \in Nat /\ Len(unread) \in Nat \ {0}
    BY <1>1, <1>3
  <2>2. Read' = Len(layout.order) - (Len(unread) - 1)
    BY <1>1, <1>2, <1>4 DEF Read
  <2>3. DOMAIN layout.order = 1 .. Len(layout.order)
    BY <1>3
  <2>4. QED BY <1>3, <2>1, <2>2, <2>3 DEF Read
<1>6. layout.order[Read + 1] = lib /\ lib \in Loaded(layout)
  BY <1>3, <1>4, <1>5 DEF Loaded
<1> HIDE DEF lib
<1>7. \A f \in Function : symbols'[f] = Listed(f, lib)
  BY <1>1
<1>8. TypeOK'
  <2>1. symbols' \in [Function -> Seq(Lib)]
    BY <1>1, <1>2, <1>4, ListedCases
  <2>2. QED BY <1>1, <1>2, <1>4, <2>1 DEF TypeOK, classes, patches
<1>9. ClassesSound' /\ ClassesComplete' /\ Reached' /\ CallPath' /\ Visited' = Visited
  BY <1>1, <1>2, ClassesLeft
<1>10. Loops'
  BY <1>1, <1>2, <1>9 DEF Loops, ConfInv, classes
<1>11. ASSUME NEW f \in Function, NEW k \in DOMAIN symbols'[f]
       PROVE  \/ k \in DOMAIN symbols[f] /\ symbols'[f][k] = symbols[f][k]
                 /\ layout.exports[lib][f] # 2
              \/ symbols'[f][k] = lib /\ layout.exports[lib][f] > 0
                 /\ (k = 1 \/ k = Len(symbols[f]) + 1) /\ (layout.exports[lib][f] = 2 => k = 1)
                 /\ k = Len(symbols'[f])
  <2>1. symbols[f] \in Seq(Lib) /\ symbols'[f] = Listed(f, lib)
    BY <1>2, <1>4, <1>7, ListedCases
  <2>2. CASE layout.exports[lib][f] = 0 /\ Listed(f, lib) = symbols[f]
    BY <2>1, <2>2
  <2>3. CASE layout.exports[lib][f] = 1 /\ Listed(f, lib) = Append(symbols[f], lib)
    BY <2>1, <2>3
  <2>4. CASE layout.exports[lib][f] = 2 /\ Listed(f, lib) = <<lib>>
    BY <2>1, <2>4
  <2>5. QED BY <1>2, <1>4, <2>2, <2>3, <2>4, ListedCases
<1>12. ListedInOrder'
  <2>1. ASSUME NEW f \in Function, NEW k \in DOMAIN symbols'[f]
        PROVE  symbols'[f][k] \in Loaded(layout) /\ layout.exports[symbols'[f][k]][f] > 0
    BY <1>2, <1>6, <1>11 DEF ListedInOrder
  <2>2. ASSUME NEW f \in Function, NEW m \in DOMAIN symbols'[f], NEW k \in DOMAIN symbols'[f], m < k
        PROVE  \E i, j \in DOMAIN layout.order :
                 i < j /\ symbols'[f][m] = layout.order[i] /\ symbols'[f][k] = layout.order[j]
    <3>1. symbols'[f] \in Seq(Lib) /\ k # 1 /\ m # Len(symbols'[f])
      <4>1. symbols'[f] \in Seq(Lib)
        BY <1>2, <1>4, <1>7, ListedCases
      <4>2. QED BY <2>2, <4>1
    <3>2. /\ m \in DOMAIN symbols[f] /\ symbols'[f][m] = symbols[f][m]
          /\ layout.exports[lib][f] # 2
      BY <1>11, <3>1
    <3>3. CASE k \in DOMAIN symbols[f] /\ symbols'[f][k] = symbols[f][k]
      BY <1>2, <2>2, <3>2, <3>3 DEF ListedInOrder
    <3>4. CASE symbols'[f][k] = lib
      <4>1. PICK i \in 1 .. Read : layout.order[i] = symbols[f][m]
        BY <1>2, <3>2 DEF Table
      <4>2. i \in DOMAIN layout.order /\ i < Read + 1
        BY <1>3, <1>5
      <4>3. QED BY <1>5, <1>6, <3>2, <3>4, <4>1, <4>2
    <3>5. QED BY <1>11, <3>3, <3>4
  <2>3. QED BY <1>2, <2>1, <2>2 DEF ListedInOrder
<1>13. Table'
  <2>1. Len(unread') <= Len(layout.order)
    BY <1>1, <1>3, <1>4
  <2>2. ASSUME NEW k \in DOMAIN unread' PROVE unread'[k] = layout.order[Read' + k]
    <3>1. k \in Int /\ Read' + k = Read + (k + 1)
      BY <1>1, <1>4, <1>5
    <3>2. QED BY <1>1, <1>3, <1>4, <3>1
  <2>3. ASSUME NEW f \in Function, NEW k \in DOMAIN symbols'[f]
        PROVE  \E i \in 1 .. Read' : layout.order[i] = symbols'[f][k]
    <3>1. CASE k \in DOMAIN symbols[f] /\ symbols'[f][k] = symbols[f][k]
      <4>1. PICK i \in 1 .. Read : layout.order[i] = symbols[f][k]
        BY <1>2, <3>1 DEF Table
      <4>2. i \in 1 .. Read'
        BY <1>5
      <4>3. QED BY <3>1, <4>1, <4>2
    <3>2. CASE symbols'[f][k] = lib
      <4>1. Read + 1 \in 1 .. Read'
        BY <1>5
      <4>2. QED BY <1>6, <3>2, <4>1
    <3>3. QED BY <1>11, <3>1, <3>2
  <2>4. ASSUME NEW f \in Function, NEW j \in 1 .. Read', layout.exports[layout.order[j]][f] > 0
        PROVE  /\ symbols'[f] # <<>>
               /\ ~Linker!Ambiguous(f) => \E i \in 1 .. j : layout.order[i] = symbols'[f][1]
    <3>1. symbols[f] \in Seq(Lib) /\ symbols'[f] = Listed(f, lib)
      BY <1>2, <1>4, <1>7, ListedCases
    <3>2. j \in 1 .. Read \/ j = Read + 1
      BY <1>5
    <3>3. CASE j \in 1 .. Read
      <4>1. /\ symbols[f] # <<>>
            /\ ~Linker!Ambiguous(f) => \E i \in 1 .. j : layout.order[i] = symbols[f][1]
        BY <1>2, <2>4, <3>3 DEF Table
      <4>2. CASE layout.exports[lib][f] = 0 /\ Listed(f, lib) = symbols[f]
        BY <3>1, <4>1, <4>2
      <4>3. CASE layout.exports[lib][f] = 1 /\ Listed(f, lib) = Append(symbols[f], lib)
        <5>1. Append(symbols[f], lib) # <<>> /\ Append(symbols[f], lib)[1] = symbols[f][1]
          BY <3>1, <4>1
        <5>2. QED BY <3>1, <4>1, <4>3, <5>1
      <4>4. CASE layout.exports[lib][f] = 2 /\ Listed(f, lib) = <<lib>>
        <5>1. j \in DOMAIN layout.order /\ j < Read + 1
          BY <1>3, <1>5, <3>3
        <5>2. Linker!Ambiguous(f)
          BY <1>5, <1>6, <2>4, <4>4, <5>1 DEF Linker!Ambiguous, Linker!Exports
        <5>3. QED BY <3>1, <4>4, <5>2
      <4>5. QED BY <1>2, <1>4, <4>2, <4>3, <4>4, ListedCases
    <3>4. CASE j = Read + 1
      <4>1. j \in 1 .. j /\ layout.order[j] = lib /\ layout.exports[lib][f] # 0
        <5>1. layout.exports[lib][f] > 0 /\ layout.order[j] = lib
          BY <1>6, <2>4, <3>4
        <5>2. j \in 1 .. j
          BY <1>5, <3>4
        <5>3. QED BY <5>1, <5>2
      <4>2. CASE Listed(f, lib) = <<lib>>
        BY <3>1, <4>1, <4>2
      <4>3. CASE Listed(f, lib) = Append(symbols[f], lib) /\ symbols[f] = <<>>
        BY <3>1, <4>1, <4>3
      <4>4. CASE Listed(f, lib) = Append(symbols[f], lib) /\ symbols[f] # <<>>
        <5>1. 1 \in DOMAIN symbols[f] /\ symbols'[f] # <<>> /\ symbols'[f][1] = symbols[f][1]
          BY <3>1, <4>4
        <5>2. PICK i \in 1 .. Read : layout.order[i] = symbols[f][1]
          BY <1>2, <5>1 DEF Table
        <5>3. i \in 1 .. j
          BY <1>5, <3>4
        <5>4. QED BY <5>1, <5>2, <5>3
      <4>5. QED BY <1>2, <1>4, <4>1, <4>2, <4>3, <4>4, ListedCases
    <3>5. QED BY <3>2, <3>3, <3>4
  <2>5. \A f : Linker!Ambiguous(f)' = Linker!Ambiguous(f)
    BY <1>2 DEF Linker!Ambiguous, Linker!Exports
  <2>6. QED BY <1>2, <2>1, <2>2, <2>3, <2>4, <2>5 DEF Table
<1>14. PatchesSound'
  <2>1. pltPatches = {} /\ pltPatches' = {}
    <3>1. PatchedBlobs = {}
      BY <1>1 DEF PatchedBlobs
    <3>2. pltPatches \subseteq Blob \X Nat
      BY <1>2 DEF TypeOK
    <3>3. \A b \in Blob : \A k \in Nat : <<b, k>> \notin pltPatches
      BY <1>1, <3>1 DEF Patched, ConfInv
    <3>4. QED BY <1>1, <3>2, <3>3 DEF patches
  <2>2. QED BY <2>1 DEF PatchesSound
<1>15. PatchedBlobs = {} /\ PatchedBlobs' = {} /\ ComparedLibs = {} /\ ComparedLibs' = {}
  BY <1>1 DEF PatchedBlobs, ComparedLibs
<1>16. Patched' /\ Compared'
  BY <1>1, <1>15 DEF Patched, Compared, ConfInv, patches
<1>17. File'
  BY <1>1 DEF File, ConfInv
<1>18. QED
  BY <1>8, <1>9, <1>10, <1>12, <1>13, <1>14, <1>16, <1>17 DEF ConfInv, HybridInv

LEMMA EndSymbolsInv ==
  ASSUME ConfInv, EndSymbols
  PROVE  ConfInv'
<1>1. /\ pc = "symbols" /\ pc' = "patch" /\ unread = <<>> /\ frames = <<>>
      /\ UNCHANGED <<layout, classes, table, todo, patches, redirects, conf>>
  BY DEF EndSymbols, ConfInv, Loops
<1>2. TypeOK'
  BY <1>1 DEF ConfInv, HybridInv, TypeOK, classes, table, patches
<1>3. ClassesSound' /\ ClassesComplete' /\ Reached' /\ CallPath' /\ Visited' = Visited
  BY <1>1, ClassesLeft
<1>4. Table' /\ ListedInOrder'
  BY <1>1, TableLeft DEF ConfInv, HybridInv
<1>5. PatchesSound'
  BY <1>1, <1>3, LookupsLeft DEF ConfInv, HybridInv, PatchesSound, table, patches, classes
<1>6. Loops'
  BY <1>1, <1>3 DEF Loops, ConfInv, classes, table
<1>7. PatchedBlobs = {} /\ ComparedLibs = {} /\ ComparedLibs' = {}
  BY <1>1 DEF PatchedBlobs, ComparedLibs
<1>8. PatchedBlobs' = {}
  BY <1>1, <1>3 DEF PatchedBlobs, Loops, ConfInv
<1>9. Patched' /\ Compared'
  BY <1>1, <1>7, <1>8 DEF Patched, Compared, ConfInv, patches
<1>10. File'
  BY <1>1 DEF File, ConfInv
<1>11. QED BY <1>2, <1>3, <1>4, <1>5, <1>6, <1>9, <1>10 DEF ConfInv, HybridInv

\* The slots of one blob are patched; the others stay as they are.
LEMMA PatchBlobInv ==
  ASSUME ConfInv, NEW b \in Blob, PatchBlob(b)
  PROVE  ConfInv'
<1>1. /\ pc = "patch" /\ pc' = pc /\ b \in todo /\ todo' = todo \ {b}
      /\ \A k \in Entries(b) : ~NotClassified(b, k)
      /\ pltPatches' = pltPatches \cup
           {<<b, k>> : k \in {j \in Entries(b) : Head(Libs(b, j)) \in emulated}}
      /\ runtimePatches' = runtimePatches \cup
           {<<b, k>> : k \in {j \in Entries(b) : Libs(b, j)[Len(Libs(b, j))] = Runtime}}
      /\ UNCHANGED <<layout, classes, table, redirects, conf>>
  BY DEF PatchBlob
<1>2. TypeOK /\ layout \in Layouts /\ frames = <<>> /\ b \in Visited
  BY <1>1 DEF ConfInv, HybridInv, TypeOK, Loops
<1>3. /\ Entries(b) \subseteq Nat
      /\ \A c : Slots(c)' = Slots(c) /\ Entries(c)' = Entries(c) /\ Gots(c)' = Gots(c)
      /\ \A c, k : Libs(c, k)' = Libs(c, k) /\ NotClassified(c, k)' = NotClassified(c, k)
  BY <1>1, <1>2, EntriesAreCallSlots, LookupsLeft DEF table
<1>4. TypeOK'
  <2>1. pltPatches' \subseteq Blob \X Nat /\ runtimePatches' \subseteq Blob \X Nat
    BY <1>1, <1>2, <1>3 DEF TypeOK
  <2>2. QED BY <1>1, <1>2, <2>1 DEF TypeOK, classes, table
<1>5. ClassesSound' /\ ClassesComplete' /\ Reached' /\ CallPath' /\ Visited' = Visited
  BY <1>1, <1>2, ClassesLeft
<1>6. Table' /\ ListedInOrder'
  BY <1>1, TableLeft DEF ConfInv, HybridInv
<1>7. emulated' = emulated /\ unread' = unread /\ frames' = frames
  BY <1>1 DEF classes, table
<1>8. PatchesSound'
  <2>1. ASSUME NEW p \in pltPatches'
        PROVE  /\ p[1] \in Visited /\ p[2] \in Entries(p[1])
               /\ Libs(p[1], p[2]) # <<>> /\ Head(Libs(p[1], p[2])) \in emulated
    <3>1. CASE p \in pltPatches
      BY <3>1 DEF PatchesSound, ConfInv, HybridInv
    <3>2. CASE p \notin pltPatches
      <4>1. PICK k \in Entries(b) : p = <<b, k>> /\ Head(Libs(b, k)) \in emulated
        BY <1>1, <2>1, <3>2
      <4>2. Libs(b, k) # <<>>
        BY <1>1 DEF NotClassified
      <4>3. QED BY <1>2, <4>1, <4>2
    <3>3. QED BY <3>1, <3>2
  <2>2. QED BY <1>3, <1>5, <1>7, <2>1 DEF PatchesSound
<1>9. Loops'
  BY <1>1, <1>5, <1>7 DEF Loops, ConfInv
<1>10. PatchedBlobs' = PatchedBlobs \cup {b} /\ ComparedLibs = {} /\ ComparedLibs' = {}
  BY <1>1, <1>2, <1>5 DEF PatchedBlobs, ComparedLibs
<1>11. b \notin PatchedBlobs
  BY <1>1 DEF PatchedBlobs
<1>12. Patched'
  <2>1. ASSUME NEW c \in Blob, NEW k \in Nat
        PROVE  <<c, k>> \in pltPatches' <=>
                 c \in PatchedBlobs' /\ k \in Entries(c) /\ Head(Libs(c, k)) \in emulated
    <3>1. <<c, k>> \in pltPatches <=>
            c \in PatchedBlobs /\ k \in Entries(c) /\ Head(Libs(c, k)) \in emulated
      BY <1>1 DEF Patched, ConfInv
    <3>2. <<c, k>> \in pltPatches' <=>
            <<c, k>> \in pltPatches \/ (c = b /\ k \in Entries(b) /\ Head(Libs(b, k)) \in emulated)
      BY <1>1
    <3>3. QED BY <1>10, <3>1, <3>2
  <2>2. ASSUME NEW c \in Blob, NEW k \in Nat
        PROVE  <<c, k>> \in runtimePatches' <=>
                 c \in PatchedBlobs' /\ k \in Entries(c) /\ Libs(c, k)[Len(Libs(c, k))] = Runtime
    <3>1. <<c, k>> \in runtimePatches <=>
            c \in PatchedBlobs /\ k \in Entries(c) /\ Libs(c, k)[Len(Libs(c, k))] = Runtime
      BY <1>1 DEF Patched, ConfInv
    <3>2. <<c, k>> \in runtimePatches' <=>
            \/ <<c, k>> \in runtimePatches
            \/ c = b /\ k \in Entries(b) /\ Libs(b, k)[Len(Libs(b, k))] = Runtime
      BY <1>1
    <3>3. QED BY <1>10, <3>1, <3>2
  <2>3. \A c \in PatchedBlobs' : \A k \in Entries(c) : ~NotClassified(c, k)
    BY <1>1, <1>10 DEF Patched, ConfInv
  <2>4. QED BY <1>3, <1>7, <2>1, <2>2, <2>3 DEF Patched
<1>13. Compared'
  BY <1>1, <1>10 DEF Compared, ConfInv
<1>14. File'
  BY <1>1 DEF File, ConfInv
<1>15. QED
  BY <1>4, <1>5, <1>6, <1>8, <1>9, <1>12, <1>13, <1>14 DEF ConfInv, HybridInv

LEMMA EndPatchInv ==
  ASSUME ConfInv, EndPatch
  PROVE  ConfInv'
<1>1. /\ pc = "patch" /\ pc' = "alias" /\ todo = {} /\ todo' = emulated /\ frames = <<>>
      /\ UNCHANGED <<layout, classes, table, patches, redirects, conf>>
  BY DEF EndPatch, ConfInv, Loops
<1>2. TypeOK'
  <2>1. emulated \subseteq Blob
    BY Blobs DEF ConfInv, HybridInv, TypeOK
  <2>2. QED BY <1>1, <2>1 DEF ConfInv, HybridInv, TypeOK, classes, table, patches
<1>3. ClassesSound' /\ ClassesComplete' /\ Reached' /\ CallPath' /\ Visited' = Visited
  BY <1>1, ClassesLeft
<1>4. Table' /\ ListedInOrder'
  BY <1>1, TableLeft DEF ConfInv, HybridInv
<1>5. PatchesSound'
  BY <1>1, <1>3, LookupsLeft DEF ConfInv, HybridInv, PatchesSound, table, patches, classes
<1>6. Loops'
  BY <1>1 DEF Loops, ConfInv, classes, table
<1>7. PatchedBlobs' = PatchedBlobs /\ ComparedLibs = {} /\ ComparedLibs' = {}
  BY <1>1, <1>3 DEF PatchedBlobs, ComparedLibs, classes
<1>8. Patched'
  BY <1>1, <1>7, LookupsLeft DEF Patched, ConfInv, patches, classes, table
<1>9. Compared'
  BY <1>1, <1>7 DEF Compared, ConfInv, patches
<1>10. File'
  BY <1>1 DEF File, ConfInv
<1>11. QED BY <1>2, <1>3, <1>4, <1>5, <1>6, <1>8, <1>9, <1>10 DEF ConfInv, HybridInv

LEMMA IsAliasLeft ==
  ASSUME UNCHANGED <<layout, pltPatches>>
  PROVE  \A lib, g, b, k : IsAlias(lib, g, b, k)' = IsAlias(lib, g, b, k)
<1>1. layout' = layout /\ pltPatches' = pltPatches
  OBVIOUS
<1>2. QED BY <1>1 DEF IsAlias, Slots, Gots, Jumps

LEMMA InAliases ==
  ASSUME TypeOK, NEW lib \in Lib
  PROVE  /\ Aliases(lib) \subseteq Lib \X Nat \X Blob \X Nat
         /\ \A m \in Lib : \A g \in Nat : \A b \in Blob : \A k \in Nat :
              <<m, g, b, k>> \in Aliases(lib) <=> m = lib /\ IsAlias(lib, g, b, k)
<1>1. pltPatches \subseteq Blob \X Nat
  BY DEF TypeOK
<1>2. Gots(lib) \subseteq Nat
  BY LayoutTyped, Blobs DEF TypeOK, Gots, Slots
<1>3. \A r : r \in Aliases(lib) <=>
         \E g \in Gots(lib) : \E p \in pltPatches :
           Slots(p[1])[p[2]].name = Slots(lib)[g].name /\ r = <<lib, g, p[1], p[2]>>
  BY DEF Aliases
<1>4. \A p \in pltPatches : p[1] \in Blob /\ p[2] \in Nat /\ p = <<p[1], p[2]>>
  BY <1>1
<1>5. Aliases(lib) \subseteq Lib \X Nat \X Blob \X Nat
  BY <1>2, <1>3, <1>4
<1>6. ASSUME NEW m \in Lib, NEW g \in Nat, NEW b \in Blob, NEW k \in Nat
      PROVE  <<m, g, b, k>> \in Aliases(lib) <=>
                /\ m = lib /\ g \in Gots(lib)
                /\ <<b, k>> \in pltPatches /\ Slots(b)[k].name = Slots(lib)[g].name
  <2>1. ASSUME <<m, g, b, k>> \in Aliases(lib)
        PROVE  /\ m = lib /\ g \in Gots(lib)
               /\ <<b, k>> \in pltPatches /\ Slots(b)[k].name = Slots(lib)[g].name
    <3>1. PICK h \in Gots(lib), p \in pltPatches :
            Slots(p[1])[p[2]].name = Slots(lib)[h].name /\ <<m, g, b, k>> = <<lib, h, p[1], p[2]>>
      BY <1>3, <2>1
    <3>2. m = lib /\ g = h /\ b = p[1] /\ k = p[2]
      BY <3>1
    <3>3. QED BY <1>4, <3>1, <3>2
  <2>2. ASSUME m = lib, g \in Gots(lib), <<b, k>> \in pltPatches,
               Slots(b)[k].name = Slots(lib)[g].name
        PROVE  <<m, g, b, k>> \in Aliases(lib)
    <3> DEFINE p == <<b, k>>
    <3>1. p \in pltPatches /\ p[1] = b /\ p[2] = k
      BY <2>2
    <3>2. QED BY <1>3, <2>2, <3>1
  <2>3. QED BY <2>1, <2>2
<1>7. QED BY <1>5, <1>6 DEF IsAlias

LEMMA AliasesOfInv ==
  ASSUME ConfInv, NEW lib \in Lib, AliasesOf(lib)
  PROVE  ConfInv'
<1>1. /\ pc = "alias" /\ pc' = pc /\ lib \in todo /\ todo' = todo \ {lib}
      /\ redirects' = redirects \cup Aliases(lib)
      /\ UNCHANGED <<layout, classes, table, patches, conf>>
  BY DEF AliasesOf
<1>2. TypeOK /\ frames = <<>> /\ lib \in emulated
  BY <1>1 DEF ConfInv, HybridInv, Loops
<1>3. TypeOK'
  BY <1>1, <1>2, InAliases DEF TypeOK, classes, table, patches
<1>4. ClassesSound' /\ ClassesComplete' /\ Reached' /\ CallPath' /\ Visited' = Visited
  BY <1>1, <1>2, ClassesLeft
<1>5. Table' /\ ListedInOrder'
  BY <1>1, TableLeft DEF ConfInv, HybridInv
<1>6. PatchesSound'
  BY <1>1, <1>4, LookupsLeft DEF ConfInv, HybridInv, PatchesSound, table, patches, classes
<1>7. Loops'
  BY <1>1, <1>2 DEF Loops, ConfInv, classes, table
<1>8. PatchedBlobs' = PatchedBlobs
  BY <1>1, <1>4 DEF PatchedBlobs
<1>9. Patched'
  BY <1>1, <1>8, LookupsLeft DEF Patched, ConfInv, patches, classes, table
<1>10. ComparedLibs' = ComparedLibs \cup {lib}
  BY <1>1, <1>2 DEF ComparedLibs, classes
<1>11. Compared'
  <2>1. ASSUME NEW m \in Lib, NEW g \in Nat, NEW b \in Blob, NEW k \in Nat
        PROVE  <<m, g, b, k>> \in redirects' <=> m \in ComparedLibs' /\ IsAlias(m, g, b, k)
    <3>1. <<m, g, b, k>> \in redirects <=> m \in ComparedLibs /\ IsAlias(m, g, b, k)
      BY <1>1 DEF Compared, ConfInv
    <3>2. QED BY <1>1, <1>2, <1>10, <3>1, InAliases
  <2>2. \A m, g, b, k : IsAlias(m, g, b, k)' = IsAlias(m, g, b, k)
    BY <1>1, IsAliasLeft DEF patches
  <2>3. QED BY <2>1, <2>2 DEF Compared
<1>12. File'
  BY <1>1 DEF File, ConfInv
<1>13. QED
  BY <1>3, <1>4, <1>5, <1>6, <1>7, <1>9, <1>11, <1>12 DEF ConfInv, HybridInv

LEMMA WriteConfInv ==
  ASSUME ConfInv, WriteConf
  PROVE  ConfInv'
<1>1. /\ pc = "alias" /\ pc' = "written" /\ todo = {} /\ frames = <<>>
      /\ conf' = [plt |-> pltPatches, runtime |-> runtimePatches, redirects |-> redirects]
      /\ UNCHANGED <<layout, classes, table, todo, patches, redirects>>
  BY DEF WriteConf, ConfInv, Loops
<1>2. TypeOK'
  BY <1>1 DEF ConfInv, HybridInv, TypeOK, classes, table, patches
<1>3. ClassesSound' /\ ClassesComplete' /\ Reached' /\ CallPath' /\ Visited' = Visited
  BY <1>1, ClassesLeft
<1>4. Table' /\ ListedInOrder'
  BY <1>1, TableLeft DEF ConfInv, HybridInv
<1>5. PatchesSound'
  BY <1>1, <1>3, LookupsLeft DEF ConfInv, HybridInv, PatchesSound, table, patches, classes
<1>6. Loops'
  BY <1>1 DEF Loops, ConfInv, classes, table
<1>7. PatchedBlobs' = PatchedBlobs /\ ComparedLibs' = ComparedLibs
  BY <1>1, <1>3 DEF PatchedBlobs, ComparedLibs, classes
<1>8. Patched'
  BY <1>1, <1>7, LookupsLeft DEF Patched, ConfInv, patches, classes, table
<1>9. Compared'
  <2>1. \A m, g, b, k : IsAlias(m, g, b, k)' = IsAlias(m, g, b, k)
    BY <1>1, IsAliasLeft DEF patches
  <2>2. Compared /\ redirects' = redirects /\ pc # "failed"
    BY <1>1 DEF ConfInv
  <2>3. QED BY <1>7, <2>1, <2>2 DEF Compared
<1>10. File'
  BY <1>1 DEF File, patches
<1>11. QED BY <1>2, <1>3, <1>4, <1>5, <1>6, <1>8, <1>9, <1>10 DEF ConfInv, HybridInv

-------------------------------------------------------------------------------
LEMMA NextInv == ConfInv /\ [Next]_vars => ConfInv'
<1> SUFFICES ASSUME ConfInv, [Next]_vars PROVE ConfInv'
  OBVIOUS
<1>1. CASE UNCHANGED vars
  <2>1. UNCHANGED <<layout, classes, table, patches, pc, todo, redirects, conf>>
    BY <1>1 DEF vars
  <2>2. TypeOK'
    BY <2>1 DEF ConfInv, HybridInv, TypeOK, classes, table, patches
  <2>3. ClassesSound' /\ ClassesComplete' /\ Reached' /\ CallPath' /\ Visited' = Visited
    BY <2>1, ClassesLeft
  <2>4. Table' /\ ListedInOrder'
    BY <2>1, TableLeft DEF ConfInv, HybridInv
  <2>5. PatchesSound'
    BY <2>1, <2>3, LookupsLeft DEF ConfInv, HybridInv, PatchesSound, table, patches, classes
  <2>6. Loops' /\ File'
    BY <2>1, <2>3 DEF Loops, File, ConfInv, classes, table, patches
  <2>7. PatchedBlobs' = PatchedBlobs /\ ComparedLibs' = ComparedLibs
    BY <2>1, <2>3 DEF PatchedBlobs, ComparedLibs, classes
  <2>8. Patched'
    BY <2>1, <2>7, LookupsLeft DEF Patched, ConfInv, patches, classes, table
  <2>9. Compared'
    <3>1. \A m, g, b, k : IsAlias(m, g, b, k)' = IsAlias(m, g, b, k)
      BY <2>1, IsAliasLeft DEF patches
    <3>2. Compared /\ redirects' = redirects /\ pc' = pc
      BY <2>1 DEF ConfInv
    <3>3. QED BY <2>7, <3>1, <3>2 DEF Compared
  <2>10. QED BY <2>2, <2>3, <2>4, <2>5, <2>6, <2>8, <2>9 DEF ConfInv, HybridInv
<1>2. CASE SplitFails
  <2>1. pc = "split"
    BY <1>2 DEF SplitFails
  <2>2. QED BY <1>2, <2>1, RaiseInv DEF SplitFails
<1>3. ASSUME NEW b \in Blob, PatchFails(b) PROVE ConfInv'
  <2>1. pc = "patch"
    BY <1>3 DEF PatchFails
  <2>2. QED BY <1>3, <2>1, RaiseInv DEF PatchFails
<1>4. ASSUME NEW lib \in Lib, AliasFails(lib) PROVE ConfInv'
  <2>1. pc = "alias"
    BY <1>4 DEF AliasFails
  <2>2. QED BY <1>4, <2>1, RaiseInv DEF AliasFails
<1>5. CASE WriteFails
  <2>1. pc = "alias"
    BY <1>5 DEF WriteFails
  <2>2. QED BY <1>5, <2>1, RaiseInv DEF WriteFails
<1>6. CASE Next
  BY <1>1, <1>2, <1>3, <1>4, <1>5, <1>6, SplitLibInv, SplitReturnInv, EndSplitInv, ReadSymbolsInv,
     EndSymbolsInv, PatchBlobInv, EndPatchInv, AliasesOfInv, WriteConfInv DEF Next, Step, Ended
<1>7. QED BY <1>1, <1>6

\* The inductive invariant holds throughout.
THEOREM Invariance == Spec => []ConfInv
BY InitInv, NextInv, PTL DEF Spec

\* split_libs forgets no library and puts none into both classes, the table of exporters follows
\* the loader, and only calls of native blobs are patched (build_conf).
THEOREM HybridInvariant == Spec => []HybridInv
<1>1. ConfInv => HybridInv
  BY DEF ConfInv
<1>2. QED BY <1>1, Invariance, PTL

-------------------------------------------------------------------------------
(* What build_conf gives up on.                                                 *)

\* As many calls of split_libs as Python allows are more than there are libraries: one of them
\* was entered twice, and so the libraries from there on need one another.
LEMMA DeepIsCircular ==
  ASSUME ConfInv, frames # <<>>, Top # <<>>, Len(frames) + Len(Entered(Head(Top))) > MaxDepth
  PROVE  Linker!Circular
<1> DEFINE n == Len(frames)
<1>1. TypeOK /\ Reached
  BY DEF ConfInv, HybridInv
<1>2. n \in Nat \ {0} /\ DOMAIN frames = 1 .. n /\ n <= MaxDepth
  BY <1>1, TopTyped
<1>3. Len(Entered(Head(Top))) \in 0 .. 1
  <2>1. Top \in Seq(Lib)
    BY <1>1, TopTyped
  <2>2. layout.needs[Head(Top)] \in Seq(Lib)
    BY <1>1, <2>1, HeadOrTail, LayoutTyped, Blobs DEF TypeOK
  <2>3. QED BY <2>2 DEF Entered
<1>4. PICK path \in [DOMAIN frames -> Blob] : IsPath(path)
  BY DEF CallPath, ConfInv
<1> HIDE DEF n
<1>5. Cardinality(Lib) \in Nat /\ n > Cardinality(Lib) + 1
  <2>1. Cardinality(Lib) \in Nat
    BY LayoutFinite, FS_CardinalityType
  <2>2. n + Len(Entered(Head(Top))) > MaxDepth
    BY DEF n
  <2>3. n = MaxDepth
    <3> DEFINE e == Len(Entered(Head(Top)))
    <3>1. e \in 0 .. 1 /\ n + e > MaxDepth /\ MaxDepth \in Nat
      BY <1>3, <2>2, MaxDepthAssumption
    <3> HIDE DEF e
    <3>2. QED BY <1>2, <3>1
  <2>4. QED BY <2>1, <2>3, MaxDepthAssumption
<1>6. ASSUME NEW k \in 1 .. n - 1
      PROVE  /\ path[k + 1] \in Lib /\ path[k + 1] \in Needed(layout, path[k])
             /\ path[k + 1] \in Linker!Native /\ path[k + 1] # Binary
  <2>1. k + 1 \in DOMAIN frames
    BY <1>2
  <2>2. path[k + 1] \in Lib /\ path[k + 1] \in Needed(layout, path[k]) /\ path[k + 1] \in Visited
    BY <1>2, <1>4, <2>1 DEF IsPath, n
  <2>3. QED BY <1>1, <2>2, LayoutBlobs DEF Reached
<1>7. PICK i, j \in 2 .. n : i < j /\ path[i] = path[j]
  <2> DEFINE h == [k \in 2 .. n |-> path[k]]
  <2>1. ASSUME NEW k \in 2 .. n PROVE path[k] \in Lib
    <3>1. k - 1 \in 1 .. n - 1 /\ (k - 1) + 1 = k
      BY <1>2
    <3>2. QED BY <1>6, <3>1
  <2>2. h \in [2 .. n -> Lib]
    BY <2>1
  <2>3. IsFiniteSet(2 .. n) /\ Cardinality(2 .. n) = n - 1
    <3>1. n \in Int /\ ~(2 > n) /\ n - 2 + 1 = n - 1
      BY <1>2, <1>5
    <3>2. QED BY <3>1, FS_Interval
  <2>4. Cardinality(Lib) < Cardinality(2 .. n)
    BY <1>2, <1>5, <2>3
  <2> HIDE DEF h
  <2>5. \E x, y \in 2 .. n : x # y /\ h[x] = h[y]
    BY <2>2, <2>3, <2>4, LayoutFinite, FS_PigeonHole
  <2>6. PICK x, y \in 2 .. n : x # y /\ path[x] = path[y]
    BY <2>5 DEF h
  <2>7. x < y \/ y < x
    BY <2>6
  <2>8. QED BY <2>6, <2>7
<1> DEFINE C == {path[k] : k \in i .. j - 1}
<1>8. ASSUME NEW k \in i .. j - 1
      PROVE  k - 1 \in 1 .. n - 1 /\ (k - 1) + 1 = k /\ k \in 1 .. n - 1
  BY <1>2
<1>9. C \in SUBSET (Linker!Native \ {Binary})
  BY <1>6, <1>8
<1>10. path[i] \in C
  <2>1. i \in i .. j - 1
    BY <1>7
  <2>2. QED BY <2>1
<1>11. ASSUME NEW k \in i .. j - 1 PROVE path[k + 1] \in C /\ path[k + 1] \in Needed(layout, path[k])
  <2>1. path[k + 1] \in Needed(layout, path[k])
    BY <1>6, <1>8
  <2>2. CASE k = j - 1
    <3>1. k + 1 = j
      BY <2>2
    <3>2. QED BY <1>7, <1>10, <2>1, <3>1
  <2>3. CASE k # j - 1
    <3>1. k + 1 \in i .. j - 1
      BY <2>3
    <3>2. QED BY <2>1, <3>1
  <2>4. QED BY <2>2, <2>3
<1> HIDE DEF C
<1>12. \A b \in C : Linker!Needs(b) \cap C # {}
  <2>1. ASSUME NEW b \in C PROVE \E x \in C : x \in Needed(layout, b)
    BY <1>11 DEF C
  <2>2. QED BY <2>1, Instrumentation
<1>13. QED BY <1>9, <1>10, <1>12 DEF Linker!Circular

\* When split_libs has returned, the classes are those of the dynamic linker.
LEMMA ClassesRight ==
  ASSUME ConfInv, pc \notin {"split", "failed"}
  PROVE  Linker!Native = Visited /\ Linker!Emulated = emulated
<1>1. TypeOK /\ ClassesSound /\ ClassesComplete /\ Reached /\ frames = <<>>
  BY DEF ConfInv, HybridInv, Loops
<1>2. Waiting = {}
  BY <1>1 DEF Waiting
<1>3. \A b \in Visited : Needed(layout, b) \subseteq emulated \cup nonEmulated
  BY <1>1, <1>2 DEF ClassesComplete
<1> DEFINE S == Visited \cup {Runtime}
<1>4. Linker!Closed(S)
  <2>1. ASSUME NEW b \in S \ {Runtime}, NEW lib \in Needed(layout, b), IsInstrumented(lib)
        PROVE  lib \in S
    <3>1. lib \in nonEmulated
      BY <1>1, <1>3, <2>1 DEF ClassesSound
    <3>2. QED BY <3>1 DEF Visited
  <2>2. Binary \in S
    BY DEF Visited
  <2> HIDE DEF S
  <2>3. QED BY <2>1, <2>2, Instrumentation DEF Linker!Closed
<1>5. S \in SUBSET Linker!Blob
  BY <1>1, LayoutBlobs DEF TypeOK, Visited, Linker!Blob
<1>6. Linker!Native \subseteq Visited
  <2>1. \A b \in Linker!Native : b \in S /\ b # Runtime
    BY <1>4, <1>5 DEF Linker!Native
  <2>2. QED BY <2>1
<1>7. Linker!Native = Visited
  BY <1>1, <1>6 DEF Reached
<1>8. \A x : x \in Linker!Emulated <=>
         (\E b \in Visited : x \in Needed(layout, b)) /\ x # Runtime /\ ~IsInstrumented(x)
  BY <1>7, Instrumentation DEF Linker!Emulated
<1>9. ASSUME NEW x PROVE x \in Linker!Emulated <=> x \in emulated
  <2>1. ASSUME x \in emulated PROVE x \in Linker!Emulated
    BY <1>1, <1>8, <2>1 DEF ClassesSound
  <2>2. ASSUME x \in Linker!Emulated PROVE x \in emulated
    <3>1. x \in emulated \cup nonEmulated /\ x # Runtime /\ ~IsInstrumented(x)
      BY <1>3, <1>8, <2>2
    <3>2. QED BY <1>1, <3>1 DEF ClassesSound
  <2>3. QED BY <2>1, <2>2
<1>10. QED BY <1>7, <1>9

\* A sequence with one element in front.
IsPrefixed(e, s, r) ==
  DOMAIN r = 1 .. Len(s) + 1 /\ r[1] = e /\ \A i \in 1 .. Len(s) : r[i + 1] = s[i]

LEMMA Prefixed ==
  ASSUME NEW S, NEW e \in S, NEW s \in Seq(S)
  PROVE  IsPrefixed(e, s, <<e>> \o s)
<1> DEFINE one == <<e>>
           r == one \o s
<1>1. one \in Seq(S) /\ Len(one) = 1 /\ one[1] = e /\ Len(s) \in Nat
  OBVIOUS
<1> HIDE DEF one
<1>2. /\ r \in Seq(S) /\ Len(r) = Len(one) + Len(s)
      /\ \A i \in 1 .. Len(one) + Len(s) : r[i] = IF i <= Len(one) THEN one[i] ELSE s[i - Len(one)]
  BY <1>1, ConcatProperties
<1>3. r[1] = e
  BY <1>1, <1>2
<1>4. ASSUME NEW i \in 1 .. Len(s) PROVE r[i + 1] = s[i]
  BY <1>1, <1>2
<1>5. DOMAIN r = 1 .. Len(s) + 1
  BY <1>1, <1>2
<1>6. QED BY <1>3, <1>4, <1>5 DEF IsPrefixed, one

\* When all libraries have been read, a function nobody exports has an empty list, and the first
\* of the list is where the dynamic linker finds an unambiguous function.
LEMMA TableRight ==
  ASSUME ConfInv, unread = <<>>, NEW f \in Function
  PROVE  /\ symbols[f] = <<>> => ~ \E lib \in Loaded(layout) : Linker!Exports(lib, f)
         /\ \A n \in DOMAIN symbols[f] : n + 1 \in DOMAIN symbols[f] /\ symbols[f][n] = Runtime =>
              Linker!RuntimeOverlap(f)
         /\ ~Linker!Ambiguous(f) => \A lib \in Lib :
              Linker!ResolvesTo(f, lib) <=> symbols[f] # <<>> /\ Head(symbols[f]) = lib
<1>1. TypeOK /\ ListedInOrder /\ Table /\ layout \in Layouts
  BY DEF ConfInv, HybridInv, TypeOK
<1>2. /\ layout.order \in Seq(Lib) /\ Read = Len(layout.order) /\ Read \in Nat
      /\ DOMAIN layout.order = 1 .. Read /\ symbols[f] \in Seq(Lib)
  <2>1. layout.order \in Seq(Lib)
    BY <1>1, LayoutTyped
  <2>2. Read = Len(layout.order) - 0
    BY DEF Read
  <2>3. QED BY <1>1, <2>1, <2>2 DEF TypeOK
<1>3. /\ \A n \in DOMAIN symbols[f] : \E i \in 1 .. Read : layout.order[i] = symbols[f][n]
      /\ \A j \in 1 .. Read : layout.exports[layout.order[j]][f] > 0 =>
           /\ symbols[f] # <<>>
           /\ ~Linker!Ambiguous(f) => \E i \in 1 .. j : layout.order[i] = symbols[f][1]
  BY <1>1 DEF Table
<1>4. \A n \in DOMAIN symbols[f] : layout.exports[symbols[f][n]][f] > 0
  BY <1>1 DEF ListedInOrder
<1>5. symbols[f] = <<>> => ~ \E lib \in Loaded(layout) : Linker!Exports(lib, f)
  BY <1>2, <1>3 DEF Loaded, Linker!Exports
<1>6. ASSUME NEW n \in DOMAIN symbols[f], n + 1 \in DOMAIN symbols[f], symbols[f][n] = Runtime
      PROVE  Linker!RuntimeOverlap(f)
  <2>1. n < n + 1
    BY <1>2
  <2>2. PICK i, j \in DOMAIN layout.order :
          i < j /\ symbols[f][n] = layout.order[i] /\ symbols[f][n + 1] = layout.order[j]
    BY <1>1, <1>6, <2>1 DEF ListedInOrder
  <2>3. QED BY <1>4, <1>6, <2>2 DEF Linker!RuntimeOverlap, Linker!Exports
<1>7. /\ DOMAIN Linker!Search = 1 .. Read + 1 /\ Linker!Search[1] = Binary
      /\ \A i \in 1 .. Read : Linker!Search[i + 1] = layout.order[i]
  <2>1. Binary \in Blob /\ layout.order \in Seq(Blob)
    BY <1>2, Blobs
  <2>2. IsPrefixed(Binary, layout.order, Linker!Search)
    BY <2>1, Prefixed, Zenon DEF Linker!Search
  <2>3. QED BY <1>2, <2>2 DEF IsPrefixed
<1>8. ASSUME ~Linker!Ambiguous(f), NEW lib \in Lib, symbols[f] # <<>>, Head(symbols[f]) = lib
      PROVE  Linker!ResolvesTo(f, lib)
  <2>1. 1 \in DOMAIN symbols[f] /\ symbols[f][1] = lib
    BY <1>2, <1>8
  <2>2. PICK i \in 1 .. Read : layout.order[i] = lib
    BY <1>3, <2>1
  <2>3. i + 1 \in DOMAIN Linker!Search /\ Linker!Search[i + 1] = lib /\ Linker!Exports(lib, f)
    <3>1. i + 1 \in DOMAIN Linker!Search /\ Linker!Search[i + 1] = lib
      BY <1>2, <1>7, <2>2
    <3>2. Linker!Exports(lib, f)
      BY <1>4, <2>1 DEF Linker!Exports
    <3>3. QED BY <3>1, <3>2
  <2>4. ASSUME NEW m \in 1 .. (i + 1) - 1 PROVE ~Linker!Exports(Linker!Search[m], f)
    <3>1. CASE m = 1
      BY <1>7, <1>8, <3>1 DEF Linker!Ambiguous
    <3>2. CASE m # 1
      <4>1. m - 1 \in 1 .. Read /\ (m - 1) + 1 = m /\ m - 1 < i
        BY <1>2, <3>2
      <4>2. Linker!Search[m] = layout.order[m - 1]
        BY <1>7, <4>1
      <4>3. SUFFICES ASSUME layout.exports[layout.order[m - 1]][f] > 0 PROVE FALSE
        BY <4>2 DEF Linker!Exports
      <4>4. PICK k \in 1 .. m - 1 : layout.order[k] = lib
        BY <1>3, <1>8, <2>1, <4>1, <4>3
      <4>5. k \in DOMAIN layout.order /\ i \in DOMAIN layout.order /\ k # i
        BY <1>2, <4>1
      <4>6. QED BY <1>1, <2>2, <4>4, <4>5, LoadedOnce
    <3>3. QED BY <3>1, <3>2
  <2>5. QED BY <2>3, <2>4 DEF Linker!ResolvesTo
<1>9. ASSUME ~Linker!Ambiguous(f), NEW lib \in Lib, Linker!ResolvesTo(f, lib)
      PROVE  symbols[f] # <<>> /\ Head(symbols[f]) = lib
  <2>1. PICK n \in DOMAIN Linker!Search :
          /\ Linker!Search[n] = lib /\ Linker!Exports(lib, f)
          /\ \A m \in 1 .. n - 1 : ~Linker!Exports(Linker!Search[m], f)
    BY <1>9 DEF Linker!ResolvesTo
  <2>2. n # 1
    BY <1>7, <2>1, LayoutBlobs
  <2>3. n - 1 \in 1 .. Read /\ (n - 1) + 1 = n
    BY <1>2, <1>7, <2>2
  <2>4. layout.order[n - 1] = lib
    BY <1>7, <2>1, <2>3
  <2>5. symbols[f] # <<>> /\ \E i \in 1 .. n - 1 : layout.order[i] = symbols[f][1]
    BY <1>3, <1>9, <2>1, <2>3, <2>4 DEF Linker!Exports
  <2>6. PICK i \in 1 .. n - 1 : layout.order[i] = symbols[f][1]
    BY <2>5
  <2>7. 1 \in DOMAIN symbols[f] /\ symbols[f][1] = Head(symbols[f])
    BY <1>2, <2>5
  <2>8. i = n - 1
    <3>1. SUFFICES ASSUME i # n - 1 PROVE FALSE
      OBVIOUS
    <3>2. i + 1 \in 1 .. n - 1 /\ i \in 1 .. Read
      BY <1>2, <1>7, <2>3, <3>1
    <3>3. Linker!Exports(Linker!Search[i + 1], f)
      BY <1>4, <1>7, <2>6, <2>7, <3>2 DEF Linker!Exports
    <3>4. QED BY <2>1, <3>2, <3>3
  <2>9. QED BY <2>4, <2>5, <2>6, <2>7, <2>8
<1>10. QED BY <1>5, <1>6, <1>8, <1>9

-------------------------------------------------------------------------------
(* The refinement, step by step.                                                *)

\* What can be asked about a call of native code.
LEMMA CallRight ==
  ASSUME ConfInv, pc \in {"alias", "written"}, NEW b \in Linker!Native, NEW k \in DOMAIN Slots(b),
         Linker!CallSlot(b, k)
  PROVE  /\ b \in Blob /\ k \in Nat /\ k \in Entries(b) /\ Slots(b)[k].name \in Function
         /\ Libs(b, k) = symbols[Slots(b)[k].name] /\ Libs(b, k) \in Seq(Lib)
         /\ b \in Visited /\ b \in Blob
         /\ pc = "alias" /\ todo = {} => b \in PatchedBlobs
<1>1. layout \in Layouts /\ TypeOK /\ b \in Visited
  BY ClassesRight DEF ConfInv, HybridInv, TypeOK
<1>2. b \in Blob
  BY NativeBlobs
<1>3. k \in Entries(b) /\ k \in Nat /\ Slots(b) \in Seq(Slot)
  BY <1>1, <1>2, EntriesAreCallSlots, LayoutTyped DEF Slots
<1>4. Slots(b)[k].name \in Function
  <2>1. Slots(b)[k] \in Slot
    BY <1>3
  <2>2. QED BY <2>1 DEF Slot
<1>5. Libs(b, k) = symbols[Slots(b)[k].name] /\ Libs(b, k) \in Seq(Lib)
  BY <1>1, <1>4 DEF Libs, TypeOK
<1>6. QED BY <1>1, <1>2, <1>3, <1>4, <1>5 DEF PatchedBlobs

LEMMA WriteIsCorrect ==
  ASSUME ConfInv, WriteConf
  PROVE  Linker!Correct(conf')
<1> DEFINE c == [plt |-> pltPatches, runtime |-> runtimePatches, redirects |-> redirects]
<1>1. pc = "alias" /\ todo = {} /\ conf' = c
  BY DEF WriteConf
<1>2. c.plt = pltPatches /\ c.runtime = runtimePatches /\ c.redirects = redirects
  OBVIOUS
<1> HIDE DEF c
<1>3. /\ Linker!Native = Visited /\ Linker!Emulated = emulated
      /\ PatchedBlobs = Visited /\ ComparedLibs = emulated /\ unread = <<>>
  BY <1>1, ClassesRight DEF PatchedBlobs, ComparedLibs, ConfInv, Loops
<1>4. TypeOK /\ layout \in Layouts /\ emulated \subseteq Lib /\ Visited \subseteq Blob
  BY Blobs DEF ConfInv, HybridInv, TypeOK, Visited
<1>5. /\ pltPatches \subseteq Blob \X Nat /\ runtimePatches \subseteq Blob \X Nat
      /\ redirects \subseteq Lib \X Nat \X Blob \X Nat
  BY <1>4 DEF TypeOK
<1>6. /\ \A b \in Blob : \A k \in Nat :
           /\ <<b, k>> \in pltPatches <=>
                b \in Visited /\ k \in Entries(b) /\ Head(Libs(b, k)) \in emulated
           /\ <<b, k>> \in runtimePatches <=>
                b \in Visited /\ k \in Entries(b) /\ Libs(b, k)[Len(Libs(b, k))] = Runtime
      /\ \A b \in Visited : \A k \in Entries(b) : ~NotClassified(b, k)
  BY <1>1, <1>3 DEF ConfInv, Patched
<1>7. \A lib \in Lib : \A g \in Nat : \A b \in Blob : \A k \in Nat :
        <<lib, g, b, k>> \in redirects <=> lib \in emulated /\ IsAlias(lib, g, b, k)
  BY <1>1, <1>3 DEF ConfInv, Compared
<1>8. \A b : Linker!SlotsOf(b) = Slots(b) /\ \A k : Linker!NameAt(b, k) = Slots(b)[k].name
  BY DEF Linker!SlotsOf, Linker!NameAt, Slots
<1>9. ASSUME NEW p \in pltPatches \cup runtimePatches
      PROVE  p[1] \in Linker!Native /\ Linker!CallSlot(p[1], p[2])
  <2>1. p[1] \in Blob /\ p[2] \in Nat /\ p = <<p[1], p[2]>>
    BY <1>5
  <2>2. p[1] \in Visited /\ p[2] \in Entries(p[1])
    BY <1>6, <2>1
  <2>3. QED BY <1>3, <1>4, <2>1, <2>2, EntriesAreCallSlots
<1>10. ASSUME NEW b \in Linker!Native, NEW k \in DOMAIN Slots(b), Linker!CallSlot(b, k),
              ~Linker!Ambiguous(Slots(b)[k].name)
       PROVE  /\ <<b, k>> \in pltPatches
                   <=> \E lib \in Linker!Emulated : Linker!ResolvesTo(Slots(b)[k].name, lib)
              /\ Linker!ResolvesTo(Slots(b)[k].name, Runtime) => <<b, k>> \in runtimePatches
  <2> DEFINE f == Slots(b)[k].name
             libs == Libs(b, k)
  <2>1. /\ b \in Blob /\ k \in Nat /\ k \in Entries(b) /\ f \in Function /\ libs = symbols[f]
        /\ libs \in Seq(Lib) /\ b \in Visited
    BY <1>1, <1>10, CallRight
  <2>2. ~NotClassified(b, k)
    BY <1>6, <2>1
  <2>3. libs # <<>> /\ \A n \in 1 .. Len(libs) - 1 : libs[n] # Runtime
    BY <2>2 DEF NotClassified
  <2>4. <<b, k>> \in pltPatches <=> Head(libs) \in emulated
    BY <1>6, <2>1
  <2>5. <<b, k>> \in runtimePatches <=> libs[Len(libs)] = Runtime
    BY <1>6, <2>1
  <2>6. ~Linker!Ambiguous(f)
    BY <1>10
  <2> HIDE DEF f, libs
  <2>7. \A lib \in Lib : Linker!ResolvesTo(f, lib) <=> Head(libs) = lib
    BY <1>3, <2>1, <2>3, <2>6, TableRight
  <2>8. <<b, k>> \in pltPatches <=> \E lib \in Linker!Emulated : Linker!ResolvesTo(f, lib)
    BY <1>3, <1>4, <2>4, <2>7
  <2>9. Linker!ResolvesTo(f, Runtime) => <<b, k>> \in runtimePatches
    <3>1. SUFFICES ASSUME Head(libs) = Runtime PROVE libs[Len(libs)] = Runtime
      BY <2>5, <2>7, Blobs
    <3>2. Len(libs) \in Nat \ {0} /\ libs[1] = Runtime
      BY <2>1, <2>3, <3>1
    <3>3. Len(libs) = 1
      <4> DEFINE m == Len(libs)
      <4>1. ~ (1 \in 1 .. m - 1) /\ m \in Nat \ {0}
        BY <2>3, <3>2
      <4> HIDE DEF m
      <4>2. m = 1
        BY <4>1
      <4>3. QED BY <4>2 DEF m
    <3>4. QED BY <3>2, <3>3
  <2>10. QED BY <2>8, <2>9 DEF f
<1>11. ASSUME NEW r \in redirects PROVE r[1] \in Linker!Emulated /\ <<r[3], r[4]>> \in pltPatches
  <2>1. /\ r[1] \in Lib /\ r[2] \in Nat /\ r[3] \in Blob /\ r[4] \in Nat
        /\ r = <<r[1], r[2], r[3], r[4]>>
    BY <1>5
  <2>2. r[1] \in emulated /\ IsAlias(r[1], r[2], r[3], r[4])
    BY <1>7, <2>1
  <2>3. QED BY <1>3, <2>2 DEF IsAlias
<1>12. ASSUME NEW lib \in Linker!Emulated, NEW g \in DOMAIN Slots(lib), NEW p \in pltPatches
       PROVE  <<lib, g, p[1], p[2]>> \in redirects <=>
                ~Slots(lib)[g].jump /\ Slots(lib)[g].name = Slots(p[1])[p[2]].name
  <2>1. p[1] \in Blob /\ p[2] \in Nat /\ p = <<p[1], p[2]>>
    BY <1>5
  <2>2. lib \in Lib /\ lib \in emulated /\ g \in Nat
    BY <1>3, <1>4, LayoutTyped, Blobs DEF Slots
  <2>3. g \in Gots(lib) <=> ~Slots(lib)[g].jump
    BY DEF Gots, Jumps
  <2>4. QED BY <1>7, <2>1, <2>2, <2>3 DEF IsAlias
<1>13. QED BY <1>1, <1>2, <1>8, <1>9, <1>10, <1>11, <1>12 DEF Linker!Correct

\* What build_conf gives up on is not well-formed.
LEMMA FailIsJustified ==
  ASSUME ConfInv,
         \/ SplitFails \/ WriteFails
         \/ \E b \in Blob : PatchFails(b)
         \/ \E lib \in Lib : AliasFails(lib)
  PROVE  ~Linker!WellFormed
<1>1. TypeOK /\ layout \in Layouts
  BY DEF ConfInv, HybridInv, TypeOK
<1>2. \A b : Linker!SlotsOf(b) = Slots(b) /\ \A k : Linker!NameAt(b, k) = Slots(b)[k].name
  BY DEF Linker!SlotsOf, Linker!NameAt, Slots
<1>3. Linker!Loaded(layout) = Loaded(layout)
  BY DEF Linker!Loaded, Loaded
<1>4. CASE SplitFails
  <2>1. /\ frames # <<>> /\ Top # <<>> /\ pc = "split"
        /\ \/ Head(Top) \notin Loaded(layout)
           \/ Len(frames) + Len(Entered(Head(Top))) > MaxDepth
    BY <1>4 DEF SplitFails, Raise
  <2>2. CASE Head(Top) \notin Loaded(layout)
    <3>1. Head(Top) \in Waiting
      <4>1. Top = frames[Len(frames)] /\ Len(frames) \in DOMAIN frames /\ Top \in Seq(Lib)
        BY <1>1, <2>1, TopTyped
      <4>2. 1 \in DOMAIN Top /\ Top[1] = Head(Top)
        BY <2>1, <4>1, HeadOrTail
      <4>3. QED BY <4>1, <4>2, InWaiting
    <3>2. PICK b \in Linker!Native : Head(Top) \in Needed(layout, b)
      BY <3>1 DEF ConfInv, HybridInv, ClassesSound, Reached
    <3>3. QED BY <1>3, <2>2, <3>2, Instrumentation DEF Linker!WellFormed
  <2>3. CASE Len(frames) + Len(Entered(Head(Top))) > MaxDepth
    BY <2>1, <2>3, DeepIsCircular DEF Linker!WellFormed
  <2>4. QED BY <2>1, <2>2, <2>3
<1>5. CASE WriteFails
  BY <1>3, <1>5 DEF WriteFails, Raise, CanWrite, Linker!WellFormed
<1>6. ASSUME NEW b \in Blob, PatchFails(b) PROVE ~Linker!WellFormed
  <2>1. /\ pc = "patch" /\ b \in todo /\ unread = <<>>
        /\ \/ Jumps(b) = {} \/ VersionedGots(b) = {}
           \/ \E k \in Entries(b) : NotClassified(b, k)
    BY <1>6 DEF PatchFails, Raise, ConfInv, Loops
  <2>2. b \in Linker!Native
    BY <2>1, ClassesRight DEF ConfInv, Loops
  <2>3. CASE Jumps(b) = {}
    BY <1>2, <2>2, <2>3 DEF Jumps, Linker!WellFormed, Linker!HasJump
  <2>4. CASE VersionedGots(b) = {}
    BY <1>2, <2>2, <2>4 DEF Jumps, Gots, VersionedGots, Linker!WellFormed, Linker!HasVersionedGot
  <2>5. ASSUME NEW k \in Entries(b), NotClassified(b, k) PROVE ~Linker!WellFormed
    <3> DEFINE f == Slots(b)[k].name
    <3>1. Linker!CallSlot(b, k) /\ k \in DOMAIN Slots(b) /\ Slots(b) \in Seq(Slot)
      BY <1>1, EntriesAreCallSlots, LayoutTyped DEF Slots
    <3>2. f \in Function /\ symbols[f] \in Seq(Lib)
      <4>1. Slots(b)[k] \in Slot
        BY <3>1
      <4>2. QED BY <1>1, <4>1 DEF Slot, TypeOK
    <3>3. Libs(b, k) = symbols[f]
      BY DEF Libs
    <3> HIDE DEF f
    <3>4. \/ ~ \E lib \in Loaded(layout) : Linker!Exports(lib, f)
          \/ Linker!RuntimeOverlap(f)
      <4>1. CASE symbols[f] = <<>>
        BY <2>1, <3>2, <4>1, TableRight
      <4>2. ASSUME NEW n \in 1 .. Len(symbols[f]) - 1, symbols[f][n] = Runtime
            PROVE  Linker!RuntimeOverlap(f)
        <5>1. n \in DOMAIN symbols[f] /\ n + 1 \in DOMAIN symbols[f]
          BY <3>2
        <5>2. QED BY <2>1, <3>2, <4>2, <5>1, TableRight
      <4>3. QED BY <2>5, <3>3, <4>1, <4>2 DEF NotClassified
    <3>5. QED BY <1>2, <1>3, <2>2, <3>1, <3>4 DEF f, Linker!WellFormed
  <2>6. QED BY <2>1, <2>3, <2>4, <2>5
<1>7. ASSUME NEW lib \in Lib, AliasFails(lib) PROVE ~Linker!WellFormed
  <2>1. pc = "alias" /\ lib \in todo /\ Gots(lib) = {}
    BY <1>7 DEF AliasFails, Raise
  <2>2. lib \in Linker!Emulated
    BY <2>1, ClassesRight DEF ConfInv, Loops
  <2>3. QED BY <1>2, <2>1, <2>2 DEF Gots, Jumps, Linker!WellFormed, Linker!HasGot
<1>8. QED BY <1>4, <1>5, <1>6, <1>7

\* build_conf implements the specification of the dynamic linker: whatever it writes is correct,
\* and it fails on programs that are not well-formed only.
THEOREM ImplementsSafety == Spec => Linker!LinkerSafety
<1>1. Init => Linker!LinkerInit
  BY DEF Init, Linker!LinkerInit, NoConf, Linker!NoConf
<1>2. ASSUME ConfInv, [Next]_vars
      PROVE  [Linker!Write \/ Linker!Fail]_(Linker!linkerVars)
  <2> DEFINE outcome == IF pc \in {"written", "failed"} THEN pc ELSE "running"
             failing == \/ SplitFails \/ WriteFails
                        \/ \E b \in Blob : PatchFails(b)
                        \/ \E lib \in Lib : AliasFails(lib)
  <2>1. CASE WriteConf
    <3>1. outcome = "running" /\ outcome' = "written" /\ layout' = layout
      BY <2>1 DEF WriteConf
    <3>2. Linker!Correct(conf')
      BY <1>2, <2>1, WriteIsCorrect
    <3>3. QED BY <3>1, <3>2 DEF Linker!Write
  <2>2. CASE failing
    <3>1. pc \in {"split", "patch", "alias"} /\ pc' = "failed" /\ layout' = layout /\ conf' = conf
      BY <2>2 DEF SplitFails, WriteFails, PatchFails, AliasFails, Raise
    <3>2. ~Linker!WellFormed
      BY <1>2, <2>2, FailIsJustified
    <3>3. QED BY <3>1, <3>2 DEF Linker!Fail
  <2>3. CASE \/ SplitLib \/ SplitReturn \/ EndSplit \/ ReadSymbols \/ EndSymbols \/ EndPatch
             \/ \E b \in Blob : PatchBlob(b)
             \/ \E lib \in Lib : AliasesOf(lib)
    <3>1. /\ pc \notin {"written", "failed"} /\ pc' \notin {"written", "failed"}
          /\ layout' = layout /\ conf' = conf
      BY <2>3 DEF SplitLib, SplitReturn, EndSplit, ReadSymbols, EndSymbols, EndPatch, PatchBlob,
                  AliasesOf
    <3>2. QED BY <3>1 DEF Linker!linkerVars
  <2>4. CASE UNCHANGED vars
    BY <2>4 DEF vars, Linker!linkerVars
  <2>5. QED BY <1>2, <2>1, <2>2, <2>3, <2>4 DEF Next, Step, Ended
<1>3. QED BY <1>1, <1>2, Invariance, PTL DEF Spec, Linker!LinkerSafety

\* With the termination that TLC checks, it implements the whole of it.
THEOREM Implements == Spec /\ <>(pc \in {"written", "failed"}) => ImplementsLinker
<1>1. pc \in {"written", "failed"} =>
        (IF pc \in {"written", "failed"} THEN pc ELSE "running") # "running"
  OBVIOUS
<1>2. QED BY <1>1, ImplementsSafety, PTL DEF ImplementsLinker, Linker!LinkerSpec
===============================================================================
