--------------------------- MODULE QsymQueue_proofs ----------------------------
(***************************************************************************)
(* Theorems about QsymQueue, for every program under test, every behaviour *)
(* of AFL, and a tracer that may die at any file.                          *)
(***************************************************************************)
EXTENDS QsymQueue, FiniteSetTheorems, TLAPS

-------------------------------------------------------------------------------
(* The inductive invariant.                                                     *)

Entry == [content : Input, new : BOOLEAN]
ToCopy == [rank : Nat, id : Int, content : Content]

TypeTracer ==
  /\ program \in ProgramType
  /\ spc \in {"open", "write", "read", "scan", "dead"}
  /\ cumulative \in Hits
  /\ scan \in Seq(InFile)
  /\ inDir \in Seq(InFile) /\ outDir \in Seq(OutFile)

TypeRunner ==
  /\ pc \in {"open", "boot", "copy", "await", "verdict", "pick", "select", "run", "done", "broken"}
  /\ phase \in {"seed", "import", "run"}
  /\ queueDir \in Seq(Entry)
  /\ inputs \in [DOMAIN inputs -> Nat]
  /\ ran \in Seq(Nat)
  /\ pc = "run" => current \in Testcase
  /\ todo \in Seq(ToCopy) /\ results \in Seq(OutFile)

TypeAfl ==
  /\ aflMode \in BOOLEAN
  /\ afl \in Seq(Content) /\ aflMin \in -1 .. Len(afl) - 1
  /\ rewritten \subseteq Nat
  /\ \A n \in 0 .. Len(afl) - 1 : afl[n + 1] = NoInput => n \in rewritten

TypeOK == TypeTracer /\ TypeRunner /\ TypeAfl

\* The word that is under way, if any, and who acts on it.
Handshake ==
  /\ pc = "open" => spc = "open" /\ opened \in {0, 1} /\ toShowmap = 0 /\ toRunner = 0
  /\ pc = "boot" =>
       /\ toShowmap = 0
       /\ \/ spc = "write" /\ toRunner = 0
          \/ spc = "read" /\ toRunner = 1
  /\ pc = "await" =>
       \/ spc = "read" /\ toShowmap = 1 /\ toRunner = 0
       \/ spc \in {"scan", "write", "dead"} /\ toShowmap = 0 /\ toRunner = 0
       \/ spc = "read" /\ toShowmap = 0 /\ toRunner = 1
  /\ pc \notin {"open", "boot", "await"} =>
       spc \in {"read", "dead"} /\ toShowmap = 0 /\ toRunner = 0

\* Inputs whose hits are in the cumulative map, and files with their answer besides.
Judged(input) == input = Empty \/ program.hits[input] \subseteq cumulative
AnswerOf(file) == \E m \in DOMAIN outDir : outDir[m].rank = file.rank
Served(file) == Judged(file.content) /\ (file.content = Empty \/ AnswerOf(file))

\* The tracer serves every file of the directory, unless it dies.
Serving ==
  \A k \in DOMAIN inDir :
    /\ pc = "await" /\ spc = "scan" =>
         Served(inDir[k]) \/ \E m \in DOMAIN scan : scan[m] = inDir[k]
    /\ pc = "await" /\ (spc = "write" \/ toRunner = 1) => Served(inDir[k])
    /\ pc = "verdict" /\ spc # "dead" => Served(inDir[k])

\* The runner looks at every entry of AFL up to afl_min_id or later; those it looked at are
\* on their way to the tracer or have been there.
Listing ==
  \A k \in DOMAIN todo :
    /\ todo[k].id < Len(afl)
    /\ \A n \in Nat : n < todo[k].id =>
         n <= aflMin \/ n \in rewritten \/ \E j \in 1 .. k - 1 : todo[j].id = n
Copied(input) == \E k \in DOMAIN inDir : inDir[k].content = input
Imported ==
  spc # "dead" =>
    \A n \in 0 .. aflMin :
      \/ n \in rewritten
      \/ Judged(afl[n + 1])
      \/ pc \in {"copy", "await"} /\ Copied(afl[n + 1])

\* The answers the runner has not looked at, and what the map shows of a sequence of answers.
Answers == IF pc = "await" THEN outDir ELSE results
Bits(C) == UNION {program.hits[i] : i \in C}
Contents(q) == {q[k].content : k \in DOMAIN q}
Before(q, k) == {q[j].content : j \in 1 .. k - 1}
KeepOf(q) == {q[k].content : k \in {m \in DOMAIN q : q[m].count > 0}}

\* What the cumulative map has, the corpus q has or will get from the answers a; an answer is
\* kept for a hit that neither the corpus nor an earlier answer has.
Accounted(map, q, a) ==
  /\ map \subseteq program.garbage \cup Bits(Contents(q) \cup KeepOf(a))
  /\ Bits(Contents(q) \cup Contents(a)) \subseteq map
  /\ \A k \in DOMAIN a :
       a[k].count > 0 =>
         ~ (program.hits[a[k].content] \subseteq Bits(Contents(q) \cup Before(a, k)))
  /\ \A k \in DOMAIN q : ~ (program.hits[q[k].content] \subseteq Bits(Before(q, k)))
Corpus ==
  /\ pc # "verdict" => results = <<>>
  /\ Accounted(cumulative, queueDir, Answers)

\* A testcase is in the dictionary until it is run.
Dictionary ==
  DOMAIN inputs \subseteq Testcase /\ Ran \subseteq Testcase /\ DOMAIN inputs \cap Ran = {}

QsymInv == TypeOK /\ Handshake /\ Serving /\ Listing /\ Imported /\ Corpus /\ Dictionary

-------------------------------------------------------------------------------
(* Lemmas: the bits of the map.                                                 *)

LEMMA BitsOfUnion == \A C, D : Bits(C \cup D) = Bits(C) \cup Bits(D)
BY DEF Bits

LEMMA BitsOfOne == \A i : Bits({i}) = program.hits[i]
BY DEF Bits

LEMMA BitsOfSubset == \A C, D : C \subseteq D => Bits(C) \subseteq Bits(D)
BY DEF Bits

\* One more element at the end.
LEMMA Appended ==
  ASSUME NEW S, NEW q \in Seq(S), NEW x \in S
  PROVE  /\ DOMAIN Append(q, x) = DOMAIN q \cup {Len(q) + 1}
         /\ Append(q, x)[Len(q) + 1] = x
         /\ \A k \in DOMAIN q : Append(q, x)[k] = q[k]
         /\ Contents(Append(q, x)) = Contents(q) \cup {x.content}
         /\ Before(Append(q, x), Len(q) + 1) = Contents(q)
         /\ \A k \in DOMAIN q : Before(Append(q, x), k) = Before(q, k)
<1>1. /\ Append(q, x) \in Seq(S) /\ DOMAIN Append(q, x) = DOMAIN q \cup {Len(q) + 1}
      /\ Append(q, x)[Len(q) + 1] = x
      /\ \A k \in DOMAIN q : Append(q, x)[k] = q[k]
      /\ DOMAIN q = 1 .. (Len(q) + 1) - 1
      /\ Len(q) \in Nat
  OBVIOUS
<1> DEFINE r == Append(q, x)
<1> HIDE DEF r
<1>2. /\ DOMAIN r = DOMAIN q \cup {Len(q) + 1} /\ r[Len(q) + 1] = x
      /\ \A k \in DOMAIN q : r[k] = q[k]
  BY <1>1 DEF r
<1>3. Contents(r) = Contents(q) \cup {x.content}
  BY <1>2 DEF Contents
<1>4. Before(r, Len(q) + 1) = Contents(q)
  BY <1>1, <1>2 DEF Before, Contents
<1>5. ASSUME NEW k \in DOMAIN q
      PROVE  Before(r, k) = Before(q, k)
  <2>1. \A j \in 1 .. k - 1 : j \in DOMAIN q
    OBVIOUS
  <2>2. QED BY <1>2, <2>1 DEF Before
<1>6. QED BY <1>2, <1>3, <1>4, <1>5 DEF r

\* All but the first element.
LEMMA Tailed ==
  ASSUME NEW S, NEW q \in Seq(S), q # <<>>
  PROVE  /\ Head(q) = q[1] /\ Head(q) \in S /\ 1 \in DOMAIN q /\ Tail(q) \in Seq(S)
         /\ \A k \in DOMAIN Tail(q) : k + 1 \in DOMAIN q /\ k + 1 # 1 /\ Tail(q)[k] = q[k + 1]
         /\ \A k \in DOMAIN q : k = 1 \/ (k - 1 \in DOMAIN Tail(q) /\ Tail(q)[k - 1] = q[k])
         /\ Contents(q) = Contents(Tail(q)) \cup {Head(q).content}
         /\ \A k \in DOMAIN Tail(q) : Before(q, k + 1) = Before(Tail(q), k) \cup {Head(q).content}
<1>1. /\ Head(q) = q[1] /\ Head(q) \in S /\ 1 \in DOMAIN q /\ Tail(q) \in Seq(S)
      /\ \A k \in DOMAIN Tail(q) : k + 1 \in DOMAIN q /\ k + 1 # 1 /\ Tail(q)[k] = q[k + 1]
      /\ \A k \in DOMAIN q : k = 1 \/ (k - 1 \in DOMAIN Tail(q) /\ Tail(q)[k - 1] = q[k])
      /\ DOMAIN Tail(q) \subseteq Nat
      /\ \A k \in DOMAIN Tail(q) : 1 .. k - 1 \subseteq DOMAIN Tail(q)
  <2>1. Head(q) = q[1] /\ Head(q) \in S /\ 1 \in DOMAIN q /\ Tail(q) \in Seq(S)
    OBVIOUS
  <2>2. Len(q) \in Nat /\ Len(Tail(q)) = Len(q) - 1 /\ DOMAIN q = 1 .. Len(q)
    OBVIOUS
  <2>3. DOMAIN Tail(q) = 1 .. Len(q) - 1
    BY <2>1, <2>2
  <2>4. \A k \in DOMAIN Tail(q) : Tail(q)[k] = q[k + 1]
    OBVIOUS
  <2>5. \A k \in DOMAIN Tail(q) : k + 1 \in DOMAIN q /\ k + 1 # 1
    BY <2>2, <2>3
  <2>6. \A k \in DOMAIN q : k = 1 \/ (k - 1 \in DOMAIN Tail(q) /\ (k - 1) + 1 = k)
    BY <2>2, <2>3
  <2>7. DOMAIN Tail(q) \subseteq Nat /\ \A k \in DOMAIN Tail(q) : 1 .. k - 1 \subseteq DOMAIN Tail(q)
    BY <2>2, <2>3
  <2>8. \A k \in DOMAIN q : k = 1 \/ (k - 1 \in DOMAIN Tail(q) /\ Tail(q)[k - 1] = q[k])
    <3> SUFFICES ASSUME NEW k \in DOMAIN q, k # 1
                 PROVE  k - 1 \in DOMAIN Tail(q) /\ Tail(q)[k - 1] = q[k]
      OBVIOUS
    <3>1. PICK j \in DOMAIN Tail(q) : j = k - 1 /\ j + 1 = k
      BY <2>6
    <3>2. Tail(q)[j] = q[k]
      BY <2>4, <3>1
    <3>3. QED BY <3>1, <3>2
  <2>9. QED BY <2>1, <2>4, <2>5, <2>7, <2>8
<1> DEFINE t == Tail(q)
           h == Head(q)
<1> HIDE DEF t, h
<1>2. Contents(q) = Contents(t) \cup {h.content}
  <2>1. ASSUME NEW k \in DOMAIN q
        PROVE  q[k].content \in Contents(t) \cup {h.content}
    <3>1. q[k] = h \/ \E j \in DOMAIN t : t[j] = q[k]
      BY <1>1 DEF t, h
    <3>2. QED BY <3>1 DEF Contents
  <2>2. \A k \in DOMAIN t : \E j \in DOMAIN q : q[j] = t[k]
    BY <1>1 DEF t
  <2>3. \E j \in DOMAIN q : q[j] = h
    BY <1>1 DEF h
  <2>4. QED BY <2>1, <2>2, <2>3 DEF Contents
<1>3. ASSUME NEW k \in DOMAIN t
      PROVE  Before(q, k + 1) = Before(t, k) \cup {h.content}
  <2>1. k \in Nat /\ k >= 1
    BY <1>1, <1>3 DEF t
  <2>2. \A j \in 1 .. k - 1 : t[j] = q[j + 1] /\ j + 1 \in 1 .. k
    BY <1>1, <2>1 DEF t
  <2>3. \A j \in 1 .. k : j = 1 \/ (j - 1 \in 1 .. k - 1 /\ t[j - 1] = q[j])
    <3>1. \A j \in 1 .. k : j = 1 \/ (j - 1 \in 1 .. k - 1 /\ (j - 1) + 1 = j)
      BY <2>1
    <3> SUFFICES ASSUME NEW j \in 1 .. k, j # 1
                 PROVE  j - 1 \in 1 .. k - 1 /\ t[j - 1] = q[j]
      OBVIOUS
    <3>2. PICK m \in 1 .. k - 1 : m = j - 1 /\ m + 1 = j
      BY <3>1
    <3>3. t[m] = q[j]
      BY <2>2, <3>2
    <3>4. QED BY <3>2, <3>3
  <2>4. 1 \in 1 .. k /\ (k + 1) - 1 = k
    BY <2>1
  <2>5. QED BY <1>1, <2>2, <2>3, <2>4 DEF Before, h
<1>4. QED BY <1>1, <1>2, <1>3 DEF t, h

\* The runner looks at the first answer: what it keeps has a new hit, what it drops has none.
LEMMA VerdictAccounted ==
  ASSUME NEW map, NEW q \in Seq(Entry), NEW a \in Seq(OutFile), a # <<>>,
         NEW e \in Entry, e.content = Head(a).content, Accounted(map, q, a)
  PROVE  /\ Head(a).count > 0 => Accounted(map, Append(q, e), Tail(a))
         /\ ~ (Head(a).count > 0) => Accounted(map, q, Tail(a))
<1> DEFINE t == Tail(a)
           i == Head(a).content
           r == Append(q, e)
           kept == Head(a).count > 0
<1>1. /\ Head(a) = a[1] /\ 1 \in DOMAIN a
      /\ \A k \in DOMAIN t : k + 1 \in DOMAIN a /\ k + 1 # 1 /\ t[k] = a[k + 1]
      /\ \A k \in DOMAIN a : k = 1 \/ (k - 1 \in DOMAIN t /\ t[k - 1] = a[k])
      /\ Contents(a) = Contents(t) \cup {i}
      /\ \A k \in DOMAIN t : Before(a, k + 1) = Before(t, k) \cup {i}
  BY Tailed
<1>2. /\ DOMAIN r = DOMAIN q \cup {Len(q) + 1} /\ r[Len(q) + 1] = e
      /\ \A k \in DOMAIN q : r[k] = q[k]
      /\ Contents(r) = Contents(q) \cup {i}
      /\ Before(r, Len(q) + 1) = Contents(q)
      /\ \A k \in DOMAIN q : Before(r, k) = Before(q, k)
  BY Appended
<1>3. /\ map \subseteq program.garbage \cup Bits(Contents(q) \cup KeepOf(a))
      /\ Bits(Contents(q) \cup Contents(a)) \subseteq map
      /\ \A k \in DOMAIN a :
           a[k].count > 0 =>
             ~ (program.hits[a[k].content] \subseteq Bits(Contents(q) \cup Before(a, k)))
      /\ \A k \in DOMAIN q : ~ (program.hits[q[k].content] \subseteq Bits(Before(q, k)))
  BY DEF Accounted
<1> HIDE DEF t, i, r
<1>4. KeepOf(a) = IF kept THEN KeepOf(t) \cup {i} ELSE KeepOf(t)
  BY <1>1 DEF KeepOf, i
<1>5. \A k \in DOMAIN t :
        t[k].count > 0 =>
          ~ (program.hits[t[k].content] \subseteq Bits(Contents(q) \cup Before(t, k) \cup {i}))
  <2> SUFFICES ASSUME NEW k \in DOMAIN t, t[k].count > 0
               PROVE  ~ (program.hits[t[k].content] \subseteq
                           Bits(Contents(q) \cup Before(t, k) \cup {i}))
    OBVIOUS
  <2>1. ~ (program.hits[a[k + 1].content] \subseteq Bits(Contents(q) \cup Before(a, k + 1)))
    BY <1>1, <1>3
  <2>2. Contents(q) \cup Before(a, k + 1) = Contents(q) \cup Before(t, k) \cup {i}
    BY <1>1
  <2>3. QED BY <1>1, <2>1, <2>2
<1>6. ASSUME kept
      PROVE  Accounted(map, r, t)
  <2>1. Contents(q) \cup KeepOf(a) = Contents(r) \cup KeepOf(t)
    BY <1>2, <1>4, <1>6
  <2>2. Contents(q) \cup Contents(a) = Contents(r) \cup Contents(t)
    BY <1>1, <1>2
  <2>3. ASSUME NEW k \in DOMAIN t, t[k].count > 0
        PROVE  ~ (program.hits[t[k].content] \subseteq Bits(Contents(r) \cup Before(t, k)))
    <3>1. Contents(q) \cup Before(t, k) \cup {i} = Contents(r) \cup Before(t, k)
      BY <1>2
    <3>2. QED BY <1>5, <2>3, <3>1
  <2>4. ASSUME NEW k \in DOMAIN r
        PROVE  ~ (program.hits[r[k].content] \subseteq Bits(Before(r, k)))
    <3>1. CASE k \in DOMAIN q
      BY <1>2, <1>3, <3>1
    <3>2. CASE k = Len(q) + 1
      <4>1. Before(a, 1) = {}
        BY DEF Before
      <4>2. ~ (program.hits[i] \subseteq Bits(Contents(q)))
        <5>1. ~ (program.hits[a[1].content] \subseteq Bits(Contents(q) \cup Before(a, 1)))
          BY <1>1, <1>3, <1>6
        <5>2. Contents(q) \cup Before(a, 1) = Contents(q)
          BY <4>1
        <5>3. QED BY <1>1, <5>1, <5>2 DEF i
      <4>3. r[k].content = i
        BY <1>2, <3>2 DEF i
      <4>4. QED BY <1>2, <3>2, <4>2, <4>3
    <3>3. QED BY <1>2, <3>1, <3>2
  <2>5. QED BY <1>3, <2>1, <2>2, <2>3, <2>4 DEF Accounted
<1>7. ASSUME ~kept
      PROVE  Accounted(map, q, t)
  <2>1. KeepOf(a) = KeepOf(t)
    BY <1>4, <1>7
  <2>2. Bits(Contents(q) \cup Contents(t)) \subseteq map
    <3>1. Contents(q) \cup Contents(t) \subseteq Contents(q) \cup Contents(a)
      BY <1>1
    <3>2. QED BY <1>3, <3>1, BitsOfSubset
  <2>3. ASSUME NEW k \in DOMAIN t, t[k].count > 0
        PROVE  ~ (program.hits[t[k].content] \subseteq Bits(Contents(q) \cup Before(t, k)))
    <3>1. Contents(q) \cup Before(t, k) \subseteq Contents(q) \cup Before(t, k) \cup {i}
      OBVIOUS
    <3>2. Bits(Contents(q) \cup Before(t, k)) \subseteq Bits(Contents(q) \cup Before(t, k) \cup {i})
      BY <3>1, BitsOfSubset
    <3>3. QED BY <1>5, <2>3, <3>2
  <2>4. QED BY <1>3, <2>1, <2>2, <2>3 DEF Accounted
<1>8. QED BY <1>6, <1>7 DEF t, r

\* The tracer merges the map of a run and answers: with a count if it had a new hit.
LEMMA ResultAccounted ==
  ASSUME NEW map, NEW q \in Seq(Entry), NEW a \in Seq(OutFile), NEW r \in OutFile,
         r.count > 0 <=> ~ (program.hits[r.content] \subseteq map), Accounted(map, q, a)
  PROVE  Accounted(map \cup program.hits[r.content], q, Append(a, r))
<1> DEFINE b == Append(a, r)
           i == r.content
<1>1. /\ DOMAIN b = DOMAIN a \cup {Len(a) + 1} /\ b[Len(a) + 1] = r
      /\ \A k \in DOMAIN a : b[k] = a[k]
      /\ Contents(b) = Contents(a) \cup {i}
      /\ Before(b, Len(a) + 1) = Contents(a)
      /\ \A k \in DOMAIN a : Before(b, k) = Before(a, k)
  BY Appended
<1>2. /\ map \subseteq program.garbage \cup Bits(Contents(q) \cup KeepOf(a))
      /\ Bits(Contents(q) \cup Contents(a)) \subseteq map
      /\ \A k \in DOMAIN a :
           a[k].count > 0 =>
             ~ (program.hits[a[k].content] \subseteq Bits(Contents(q) \cup Before(a, k)))
      /\ \A k \in DOMAIN q : ~ (program.hits[q[k].content] \subseteq Bits(Before(q, k)))
  BY DEF Accounted
<1> HIDE DEF b, i
<1>3. Len(a) + 1 \notin DOMAIN a
  OBVIOUS
<1>4. KeepOf(b) = IF r.count > 0 THEN KeepOf(a) \cup {i} ELSE KeepOf(a)
  BY <1>1, <1>3 DEF KeepOf, i
<1>5. map \cup program.hits[i] \subseteq program.garbage \cup Bits(Contents(q) \cup KeepOf(b))
  <2>1. CASE r.count > 0
    <3>1. Contents(q) \cup KeepOf(b) = (Contents(q) \cup KeepOf(a)) \cup {i}
      BY <1>4, <2>1
    <3>2. Bits(Contents(q) \cup KeepOf(b)) = Bits(Contents(q) \cup KeepOf(a)) \cup program.hits[i]
      <4>1. Bits({i}) = program.hits[i]
        BY BitsOfOne
      <4>2. QED BY <3>1, <4>1, BitsOfUnion
    <3>3. QED BY <1>2, <3>2
  <2>2. CASE ~ (r.count > 0)
    <3>1. map \cup program.hits[i] = map /\ KeepOf(b) = KeepOf(a)
      BY <1>4, <2>2 DEF i
    <3>2. QED BY <1>2, <3>1
  <2>3. QED BY <2>1, <2>2
<1>6. Bits(Contents(q) \cup Contents(b)) \subseteq map \cup program.hits[i]
  <2>1. Contents(q) \cup Contents(b) = (Contents(q) \cup Contents(a)) \cup {i}
    BY <1>1
  <2>2. Bits(Contents(q) \cup Contents(b)) = Bits(Contents(q) \cup Contents(a)) \cup program.hits[i]
    <3>1. Bits({i}) = program.hits[i]
      BY BitsOfOne
    <3>2. QED BY <2>1, <3>1, BitsOfUnion
  <2>3. QED BY <1>2, <2>2
<1>7. ASSUME NEW k \in DOMAIN b, b[k].count > 0
      PROVE  ~ (program.hits[b[k].content] \subseteq Bits(Contents(q) \cup Before(b, k)))
  <2>1. CASE k \in DOMAIN a
    BY <1>1, <1>2, <1>7, <2>1
  <2>2. CASE k = Len(a) + 1
    <3>1. Contents(q) \cup Before(b, k) = Contents(q) \cup Contents(a)
      BY <1>1, <2>2
    <3>2. ~ (program.hits[r.content] \subseteq map)
      BY <1>1, <1>7, <2>2
    <3>3. QED BY <1>1, <1>2, <2>2, <3>1, <3>2
  <2>3. QED BY <1>1, <2>1, <2>2
<1>8. Accounted(map \cup program.hits[i], q, b)
  BY <1>2, <1>5, <1>6, <1>7 DEF Accounted
<1>9. QED BY <1>8 DEF b, i

\* The number of entries a run changed in the map is zero when the map has all its hits.
LEMMA CountsChanges ==
  ASSUME NEW hits \in Hits
  PROVE  /\ Cardinality(Changed(hits)) \in Nat /\ Cardinality(NewEntries(hits)) \in Nat
         /\ Cardinality(Changed(hits)) > 0 <=> ~ (hits \subseteq cumulative)
<1>1. Changed(hits) \subseteq Edge /\ NewEntries(hits) \subseteq Edge
  BY DEF Changed, NewEntries, Hits
<1>2. IsFiniteSet(Changed(hits)) /\ IsFiniteSet(NewEntries(hits))
  BY <1>1, ShowmapMapAssumption, FS_Subset
<1>3. Cardinality(Changed(hits)) \in Nat /\ Cardinality(NewEntries(hits)) \in Nat
  BY <1>2, FS_CardinalityType
<1>4. Changed(hits) = {} <=> hits \subseteq cumulative
  BY DEF Changed
<1>5. Cardinality(Changed(hits)) = 0 <=> Changed(hits) = {}
  BY <1>2, FS_EmptySet
<1>6. QED BY <1>3, <1>4, <1>5

-------------------------------------------------------------------------------
(* Lemmas: the parts of the invariant a step leaves alone.                       *)

LEMMA JudgedKept ==
  ASSUME program' = program, cumulative \subseteq cumulative'
  PROVE  \A i : Judged(i) => Judged(i)'
BY DEF Judged

LEMMA ListingKept ==
  ASSUME TypeOK, Listing, UNCHANGED <<todo, aflMin>>,
         Len(afl') \in Nat, Len(afl) <= Len(afl'), rewritten \subseteq rewritten'
  PROVE  Listing'
<1>1. \A k \in DOMAIN todo : todo[k].id \in Int
  <2>1. \A k \in DOMAIN todo : todo[k] \in ToCopy
    BY DEF TypeOK, TypeRunner
  <2>2. QED BY <2>1 DEF ToCopy
<1>2. Len(afl) \in Nat
  BY DEF TypeOK, TypeAfl
<1>3. \A k \in DOMAIN todo : todo[k].id < Len(afl')
  BY <1>1, <1>2 DEF Listing
<1>4. QED BY <1>3 DEF Listing

LEMMA ImportedKept ==
  ASSUME Imported, UNCHANGED <<program, env, aflMin>>, cumulative \subseteq cumulative',
         spc' # "dead" => spc # "dead",
         pc \in {"copy", "await"} => pc' \in {"copy", "await"} /\ inDir' = inDir
  PROVE  Imported'
<1> SUFFICES ASSUME spc' # "dead", NEW n \in 0 .. aflMin
             PROVE  \/ n \in rewritten
                    \/ Judged(afl[n + 1])'
                    \/ pc' \in {"copy", "await"} /\ Copied(afl[n + 1])'
  BY DEF Imported, env
<1>1. afl' = afl
  BY DEF env
<1>2. CASE Judged(afl[n + 1])
  BY <1>1, <1>2 DEF Judged
<1>3. CASE pc \in {"copy", "await"} /\ Copied(afl[n + 1])
  BY <1>1, <1>3 DEF Copied
<1>4. QED BY <1>2, <1>3 DEF Imported

LEMMA ServingKept ==
  ASSUME Serving, UNCHANGED <<program, inDir, outDir, scan, pc, spc, toRunner, cumulative>>
  PROVE  Serving'
BY DEF Serving, Served, Judged, AnswerOf

LEMMA CorpusKept ==
  ASSUME Corpus, UNCHANGED <<program, cumulative, queueDir>>, Answers' = Answers,
         pc' # "verdict" => results' = <<>>
  PROVE  Corpus'
<1>1. Accounted(cumulative, queueDir, Answers)'
  BY DEF Corpus, Accounted, Bits, Contents, KeepOf, Before
<1>2. QED BY <1>1 DEF Corpus

LEMMA DictionaryKept ==
  ASSUME Dictionary, UNCHANGED <<queueDir, inputs, ran>>
  PROVE  Dictionary'
BY DEF Dictionary, Testcase, Ran

LEMMA InitInv == Init => QsymInv
<1> SUFFICES ASSUME Init PROVE QsymInv
  OBVIOUS
<1> USE DEF Init, ShowmapInit
<1>1. /\ program \in ProgramType /\ program.garbage \in Hits
      /\ aflMode \in BOOLEAN
  BY ShowmapProgramsAssumption, QsymBoundsAssumption DEF ProgramType
<1>2. TypeTracer
  BY <1>1 DEF TypeTracer
<1>3. TypeRunner
  BY DEF TypeRunner
<1>4. TypeAfl
  BY <1>1 DEF TypeAfl
<1>5. Handshake /\ Serving /\ Listing /\ Imported
  BY DEF Handshake, Serving, Listing, Imported
<1>6. Corpus
  <2>1. Answers = <<>> /\ queueDir = <<>> /\ cumulative = program.garbage
    BY DEF Answers
  <2>2. Contents(<<>>) = {} /\ KeepOf(<<>>) = {} /\ Bits({}) = {}
    BY DEF Contents, KeepOf, Bits
  <2>3. Accounted(cumulative, queueDir, Answers)
    <3>1. /\ Contents(queueDir) \cup KeepOf(Answers) = {}
          /\ Contents(queueDir) \cup Contents(Answers) = {}
      BY <2>1, <2>2
    <3>2. DOMAIN Answers = {} /\ DOMAIN queueDir = {}
      BY <2>1
    <3>3. QED BY <2>1, <2>2, <3>1, <3>2 DEF Accounted
  <2>4. QED BY <2>3 DEF Corpus
<1>7. Dictionary
  BY DEF Dictionary, Ran
<1>8. QED BY <1>2, <1>3, <1>4, <1>5, <1>6, <1>7 DEF QsymInv, TypeOK

-------------------------------------------------------------------------------
(* The runner.                                                                  *)

LEMMA OpenPipeInv ==
  ASSUME QsymInv, OpenPipe
  PROVE  QsymInv'
<1>1. /\ pc = "open" /\ spc = "open" /\ opened' = opened + 1
      /\ IF opened' = 2 THEN pc' = "boot" /\ spc' = "write" ELSE UNCHANGED <<pc, spc>>
      /\ UNCHANGED <<program, cumulative, scan, shared, queue, env, aflMin, phase, todo, results>>
  BY DEF OpenPipe
<1>2. TypeOK /\ Handshake /\ Serving /\ Listing /\ Imported /\ Corpus /\ Dictionary
  BY DEF QsymInv
<1>3. opened \in {0, 1} /\ toShowmap = 0 /\ toRunner = 0
  BY <1>1, <1>2 DEF Handshake
<1>4. pc' \in {"open", "boot"} /\ spc' \in {"open", "write"}
  BY <1>1
<1>5. TypeOK'
  BY <1>1, <1>2, <1>4 DEF TypeOK, TypeTracer, TypeRunner, TypeAfl, Testcase, shared, queue, env
<1>6. Handshake'
  BY <1>1, <1>3, <1>4 DEF Handshake, shared
<1>7. Serving'
  BY <1>4 DEF Serving
<1>8. Listing'
  BY <1>1, <1>2, ListingKept DEF TypeOK, TypeAfl, env
<1>9. Imported'
  BY <1>1, <1>2, <1>4, ImportedKept
<1>10. Corpus'
  <2>1. Answers' = Answers /\ results' = <<>>
    BY <1>1, <1>2, <1>4 DEF Answers, Corpus
  <2>2. QED BY <1>1, <1>2, <2>1, CorpusKept DEF queue
<1>11. Dictionary'
  BY <1>1, <1>2, DictionaryKept DEF queue
<1>12. QED BY <1>5, <1>6, <1>7, <1>8, <1>9, <1>10, <1>11 DEF QsymInv

LEMMA BootInv ==
  ASSUME QsymInv, Boot
  PROVE  QsymInv'
<1>1. /\ pc = "boot" /\ pc' = "copy" /\ toRunner > 0 /\ toRunner' = toRunner - 1
      /\ todo' = program.seeds
      /\ UNCHANGED <<program, showmapVars, inDir, outDir, toShowmap, opened, queue, env, aflMin,
                     phase, results>>
  BY DEF Boot
<1>2. TypeOK /\ Handshake /\ Serving /\ Listing /\ Imported /\ Corpus /\ Dictionary
  BY DEF QsymInv
<1>3. spc = "read" /\ toRunner = 1 /\ toShowmap = 0
  BY <1>1, <1>2 DEF Handshake
<1> DEFINE Seed == [rank : Nat, id : {-1}, content : Content]
<1>4. program.seeds \in Seq(Seed)
  BY <1>2 DEF TypeOK, TypeTracer, ProgramType
<1>5. \A f \in Seed : f \in ToCopy /\ f.id = -1
  BY DEF ToCopy
<1> HIDE DEF Seed
<1>6. todo' \in Seq(ToCopy) /\ \A k \in DOMAIN todo' : todo'[k].id = -1
  <2>1. Seed \subseteq ToCopy
    BY <1>5
  <2>2. todo' \in Seq(Seed)
    BY <1>1, <1>4
  <2>3. \A k \in DOMAIN todo' : todo'[k] \in Seed
    BY <2>2
  <2>4. QED BY <1>5, <2>1, <2>2, <2>3
<1>7. TypeOK'
  BY <1>1, <1>2, <1>6
     DEF TypeOK, TypeTracer, TypeRunner, TypeAfl, Testcase, showmapVars, queue, env
<1>8. Handshake'
  BY <1>1, <1>3 DEF Handshake, showmapVars
<1>9. Serving'
  BY <1>1 DEF Serving
<1>10. Listing'
  <2>1. Len(afl') \in Nat
    BY <1>7 DEF TypeOK, TypeAfl
  <2>2. QED BY <1>6, <2>1 DEF Listing
<1>11. Imported'
  BY <1>1, <1>2, ImportedKept DEF showmapVars
<1>12. Corpus'
  <2>1. Answers' = Answers /\ results' = <<>>
    BY <1>1, <1>2 DEF Answers, Corpus
  <2>2. QED BY <1>1, <1>2, <2>1, CorpusKept DEF queue, showmapVars
<1>13. Dictionary'
  BY <1>1, <1>2, DictionaryKept DEF queue
<1>14. QED BY <1>7, <1>8, <1>9, <1>10, <1>11, <1>12, <1>13 DEF QsymInv

LEMMA CopyFileInv ==
  ASSUME QsymInv, CopyFile
  PROVE  QsymInv'
<1> DEFINE file == Head(todo)
           skipped == file.id >= 0 /\ file.id < aflMin
           content == ContentOf(file)
<1>1. /\ pc = "copy" /\ todo # <<>> /\ todo' = Tail(todo)
      /\ skipped => UNCHANGED <<inDir, aflMin>>
      /\ ~skipped =>
           /\ aflMin' = MinId(file)
           /\ inDir' = IF content = NoInput THEN inDir
                       ELSE Append(inDir, [rank |-> file.rank, content |-> content])
      /\ UNCHANGED <<program, showmapVars, outDir, toShowmap, toRunner, opened, queue, env, pc,
                     phase, results>>
  BY DEF CopyFile
<1>2. TypeOK /\ Handshake /\ Serving /\ Listing /\ Imported /\ Corpus /\ Dictionary
  BY DEF QsymInv
<1>3. /\ file = todo[1] /\ file \in ToCopy /\ 1 \in DOMAIN todo /\ Tail(todo) \in Seq(ToCopy)
      /\ \A k \in DOMAIN Tail(todo) : k + 1 \in DOMAIN todo /\ k + 1 # 1 /\ Tail(todo)[k] = todo[k + 1]
  BY <1>1, <1>2, Tailed DEF TypeOK, TypeRunner
<1>4. file.id \in Int /\ file.rank \in Nat /\ file.content \in Content
  BY <1>3 DEF ToCopy
<1>5. file.id < Len(afl) /\ afl \in Seq(Content) /\ aflMin \in -1 .. Len(afl) - 1 /\ Len(afl) \in Nat
  BY <1>2, <1>3 DEF Listing, TypeOK, TypeAfl
<1>6. aflMin' = IF file.id >= 0 /\ ~skipped THEN file.id ELSE aflMin
  BY <1>1 DEF MinId
<1>7. /\ aflMin' \in -1 .. Len(afl) - 1 /\ aflMin <= aflMin' /\ file.id <= aflMin'
      /\ aflMin' # aflMin => aflMin' = file.id /\ file.id >= 0 /\ ~skipped
  <2> HIDE DEF file
  <2>1. QED BY <1>4, <1>5, <1>6
<1>8. content \in Content
  <2>1. CASE file.id >= 0
    <3>1. file.id + 1 \in DOMAIN afl
      <4> HIDE DEF file
      <4>1. QED BY <1>4, <1>5, <2>1
    <3>2. QED BY <1>5, <2>1, <3>1 DEF ContentOf
  <2>2. CASE ~ (file.id >= 0)
    BY <1>4, <2>2 DEF ContentOf
  <2>3. QED BY <2>1, <2>2
<1> DEFINE copy == [rank |-> file.rank, content |-> content]
<1>9. content # NoInput => copy \in InFile
  BY <1>4, <1>8 DEF InFile, Content
<1>10. inDir \in Seq(InFile)
  BY <1>2 DEF TypeOK, TypeTracer
<1>11. /\ inDir' \in Seq(InFile)
       /\ \A k \in DOMAIN inDir : k \in DOMAIN inDir' /\ inDir'[k] = inDir[k]
       /\ ~skipped /\ content # NoInput => \E k \in DOMAIN inDir' : inDir'[k].content = content
  <2>1. CASE inDir' = inDir /\ (skipped \/ content = NoInput)
    BY <1>10, <2>1
  <2>2. CASE content # NoInput /\ inDir' = Append(inDir, copy)
    <3>1. copy.content = content
      OBVIOUS
    <3> HIDE DEF copy
    <3>2. inDir' \in Seq(InFile)
      BY <1>9, <1>10, <2>2
    <3>3. /\ DOMAIN inDir' = DOMAIN inDir \cup {Len(inDir) + 1} /\ inDir'[Len(inDir) + 1] = copy
          /\ \A k \in DOMAIN inDir : inDir'[k] = inDir[k]
      BY <1>9, <1>10, <2>2
    <3>4. QED BY <3>1, <3>2, <3>3
  <2>3. QED BY <1>1, <2>1, <2>2
<1> HIDE DEF copy, content
<1>12. TypeOK'
  <2>1. TypeTracer'
    BY <1>1, <1>2, <1>11 DEF TypeOK, TypeTracer, showmapVars
  <2>2. TypeRunner'
    BY <1>1, <1>2, <1>3 DEF TypeOK, TypeRunner, Testcase, queue
  <2>3. TypeAfl'
    BY <1>1, <1>2, <1>7 DEF TypeOK, TypeAfl, env
  <2>4. QED BY <2>1, <2>2, <2>3 DEF TypeOK
<1>13. Handshake'
  BY <1>1, <1>2 DEF Handshake, showmapVars
<1>14. Serving'
  BY <1>1 DEF Serving
<1>15. Listing'
  <2> SUFFICES ASSUME NEW k \in DOMAIN Tail(todo)
               PROVE  /\ Tail(todo)[k].id < Len(afl)
                      /\ \A n \in Nat : n < Tail(todo)[k].id =>
                           \/ n <= aflMin' \/ n \in rewritten
                           \/ \E j \in 1 .. k - 1 : Tail(todo)[j].id = n
    BY <1>1 DEF Listing, env
  <2>1. k + 1 \in DOMAIN todo /\ Tail(todo)[k] = todo[k + 1] /\ k \in Nat
    BY <1>3
  <2>2. todo[k + 1].id < Len(afl)
    BY <1>2, <2>1 DEF Listing
  <2>3. ASSUME NEW n \in Nat, n < todo[k + 1].id, ~ (n <= aflMin'), n \notin rewritten
        PROVE  \E j \in 1 .. k - 1 : Tail(todo)[j].id = n
    <3>1. ~ (n <= aflMin)
      <4> HIDE DEF file
      <4>1. QED BY <1>5, <1>7, <2>3
    <3>2. PICK j \in 1 .. (k + 1) - 1 : todo[j].id = n
      BY <1>2, <2>1, <2>3, <3>1 DEF Listing
    <3>3. j # 1
      BY <1>3, <1>7, <2>3, <3>2
    <3>4. PICK i \in 1 .. k - 1 : i + 1 = j
      <4>1. j - 1 \in 1 .. k - 1 /\ (j - 1) + 1 = j
        BY <2>1, <3>2, <3>3
      <4>2. QED BY <4>1
    <3>5. i \in DOMAIN Tail(todo)
      BY <1>3, <3>4
    <3>6. QED BY <1>3, <3>2, <3>4, <3>5
  <2>4. QED BY <2>1, <2>2, <2>3
<1>16. Imported'
  <2> SUFFICES ASSUME spc # "dead", NEW n \in 0 .. aflMin'
               PROVE  n \in rewritten \/ Judged(afl[n + 1])' \/ Copied(afl[n + 1])'
    BY <1>1 DEF Imported, env, showmapVars
  <2>1. CASE n <= aflMin
    <3>1. n \in 0 .. aflMin
      BY <1>5, <2>1
    <3>2. n \in rewritten \/ Judged(afl[n + 1]) \/ Copied(afl[n + 1])
      BY <1>2, <3>1 DEF Imported
    <3>3. Judged(afl[n + 1]) => Judged(afl[n + 1])'
      BY <1>1 DEF Judged, env, showmapVars
    <3>4. Copied(afl[n + 1]) => Copied(afl[n + 1])'
      BY <1>1, <1>11 DEF Copied, env
    <3>5. QED BY <3>2, <3>3, <3>4
  <2>2. CASE ~ (n <= aflMin)
    <3>1. aflMin' = file.id /\ file.id >= 0 /\ ~skipped /\ n \in Nat /\ n <= file.id
      <4> HIDE DEF file
      <4>1. QED BY <1>4, <1>5, <1>7, <2>2
    <3>2. CASE n = file.id
      <4>1. content = afl[n + 1]
        BY <3>1, <3>2 DEF content, ContentOf
      <4>2. CASE content = NoInput
        <5>1. n \in 0 .. Len(afl) - 1
          BY <1>5, <3>1, <3>2
        <5>2. QED BY <1>2, <4>1, <4>2, <5>1 DEF TypeOK, TypeAfl
      <4>3. CASE content # NoInput
        BY <1>1, <1>11, <3>1, <4>1, <4>3 DEF Copied, env
      <4>4. QED BY <4>2, <4>3
    <3>3. CASE n # file.id
      <4>1. n < file.id
        BY <1>4, <3>1, <3>3
      <4>2. n <= aflMin \/ n \in rewritten \/ \E j \in 1 .. 1 - 1 : todo[j].id = n
        BY <1>2, <1>3, <3>1, <4>1 DEF Listing
      <4>3. QED BY <2>2, <4>2
    <3>4. QED BY <3>2, <3>3
  <2>3. QED BY <2>1, <2>2
<1>17. Corpus'
  <2>1. Answers' = Answers /\ results' = <<>>
    BY <1>1, <1>2 DEF Answers, Corpus
  <2>2. QED BY <1>1, <1>2, <2>1, CorpusKept DEF queue, showmapVars
<1>18. Dictionary'
  BY <1>1, <1>2, DictionaryKept DEF queue
<1>19. QED BY <1>12, <1>13, <1>14, <1>15, <1>16, <1>17, <1>18 DEF QsymInv

LEMMA RequestInv ==
  ASSUME QsymInv, Request
  PROVE  QsymInv'
<1>1. /\ pc = "copy" /\ todo = <<>> /\ outDir' = <<>>
      /\ IF spc = "dead" THEN pc' = "broken" /\ UNCHANGED toShowmap
         ELSE pc' = "await" /\ toShowmap' = toShowmap + 1
      /\ UNCHANGED <<program, showmapVars, inDir, toRunner, opened, queue, env, aflMin, phase, todo,
                     results>>
  BY DEF Request
<1>2. TypeOK /\ Handshake /\ Serving /\ Listing /\ Imported /\ Corpus /\ Dictionary
  BY DEF QsymInv
<1>3. spc \in {"read", "dead"} /\ toShowmap = 0 /\ toRunner = 0
  BY <1>1, <1>2 DEF Handshake
<1>4. pc' \in {"broken", "await"} /\ (spc = "dead" <=> pc' = "broken")
  BY <1>1
<1>5. TypeOK'
  BY <1>1, <1>2, <1>4
     DEF TypeOK, TypeTracer, TypeRunner, TypeAfl, Testcase, showmapVars, queue, env
<1>6. Handshake'
  BY <1>1, <1>3, <1>4 DEF Handshake, showmapVars
<1>7. Serving'
  BY <1>1, <1>3, <1>4 DEF Serving, showmapVars
<1>8. Listing'
  BY <1>1, <1>2, ListingKept DEF TypeOK, TypeAfl, env
<1>9. Imported'
  <2>1. CASE spc = "dead"
    BY <1>1, <2>1 DEF Imported, showmapVars
  <2>2. CASE spc # "dead"
    BY <1>1, <1>2, <1>4, <2>2, ImportedKept DEF showmapVars
  <2>3. QED BY <2>1, <2>2
<1>10. Corpus'
  <2>1. results = <<>> /\ Answers = <<>> /\ Answers' = <<>> /\ results' = <<>>
    BY <1>1, <1>2 DEF Answers, Corpus
  <2>2. QED BY <1>1, <1>2, <2>1, CorpusKept DEF queue, showmapVars
<1>11. Dictionary'
  BY <1>1, <1>2, DictionaryKept DEF queue
<1>12. QED BY <1>5, <1>6, <1>7, <1>8, <1>9, <1>10, <1>11 DEF QsymInv

LEMMA AwaitInv ==
  ASSUME QsymInv, Await
  PROVE  QsymInv'
<1>1. /\ pc = "await" /\ pc' = "verdict" /\ (toRunner > 0 \/ spc = "dead")
      /\ toRunner' = IF toRunner > 0 THEN toRunner - 1 ELSE toRunner
      /\ results' = outDir
      /\ UNCHANGED <<program, showmapVars, inDir, outDir, toShowmap, opened, queue, env, aflMin,
                     phase, todo>>
  BY DEF Await
<1>2. TypeOK /\ Handshake /\ Serving /\ Listing /\ Imported /\ Corpus /\ Dictionary
  BY DEF QsymInv
<1>3. \/ spc = "dead" /\ toShowmap = 0 /\ toRunner = 0
      \/ spc = "read" /\ toShowmap = 0 /\ toRunner = 1
  BY <1>1, <1>2 DEF Handshake
<1>4. spc # "dead" => \A k \in DOMAIN inDir : Served(inDir[k])
  BY <1>1, <1>2, <1>3 DEF Serving
<1>5. TypeOK'
  BY <1>1, <1>2 DEF TypeOK, TypeTracer, TypeRunner, TypeAfl, Testcase, showmapVars, queue, env
<1>6. Handshake'
  BY <1>1, <1>3 DEF Handshake, showmapVars
<1>7. Serving'
  BY <1>1, <1>4 DEF Serving, Served, Judged, AnswerOf, showmapVars
<1>8. Listing'
  BY <1>1, <1>2, ListingKept DEF TypeOK, TypeAfl, env
<1>9. Imported'
  <2> SUFFICES ASSUME spc # "dead", NEW n \in 0 .. aflMin
               PROVE  n \in rewritten \/ Judged(afl[n + 1])
    BY <1>1 DEF Imported, Judged, env, showmapVars
  <2>1. Copied(afl[n + 1]) => Judged(afl[n + 1])
    BY <1>4 DEF Copied, Served
  <2>2. QED BY <1>2, <2>1 DEF Imported
<1>10. Corpus'
  <2>1. Answers = outDir /\ Answers' = outDir
    BY <1>1 DEF Answers
  <2>2. QED BY <1>1, <1>2, <2>1, CorpusKept DEF queue, showmapVars
<1>11. Dictionary'
  BY <1>1, <1>2, DictionaryKept DEF queue
<1>12. QED BY <1>5, <1>6, <1>7, <1>8, <1>9, <1>10, <1>11 DEF QsymInv

LEMMA VerdictInv ==
  ASSUME QsymInv, Verdict
  PROVE  QsymInv'
<1> DEFINE result == Head(results)
           entry == [content |-> result.content, new |-> result.new > 0]
           keep == Interesting(result)
<1>1. /\ pc = "verdict" /\ results # <<>> /\ results' = Tail(results)
      /\ keep => queueDir' = Append(queueDir, entry)
                 /\ inputs' = Extend(inputs, Len(queueDir), result.rank)
      /\ ~keep => UNCHANGED <<queueDir, inputs>>
      /\ UNCHANGED <<program, showmapVars, shared, opened, ran, current, env, aflMin, pc, phase,
                     todo>>
  BY DEF Verdict
<1>2. TypeOK /\ Handshake /\ Serving /\ Listing /\ Imported /\ Corpus /\ Dictionary
  BY DEF QsymInv
<1>3. result \in OutFile /\ Tail(results) \in Seq(OutFile)
  BY <1>1, <1>2, Tailed DEF TypeOK, TypeRunner
<1>4. result.content \in Input /\ result.rank \in Nat /\ entry \in Entry
      /\ entry.content = result.content
  BY <1>3 DEF OutFile, Entry
<1>5. queueDir \in Seq(Entry) /\ Len(queueDir) \in Nat /\ inputs \in [DOMAIN inputs -> Nat]
  BY <1>2 DEF TypeOK, TypeRunner
<1> HIDE DEF entry, result
<1>6. /\ queueDir' \in Seq(Entry) /\ Len(queueDir') \in Nat
      /\ keep => Len(queueDir') = Len(queueDir) + 1
      /\ ~keep => queueDir' = queueDir
  <2>1. CASE keep
    BY <1>1, <1>4, <1>5, <2>1
  <2>2. CASE ~keep
    BY <1>1, <1>5, <2>2
  <2>3. QED BY <2>1, <2>2
<1>7. /\ inputs' \in [DOMAIN inputs' -> Nat]
      /\ DOMAIN inputs' = IF keep THEN DOMAIN inputs \cup {Len(queueDir)} ELSE DOMAIN inputs
  BY <1>1, <1>4, <1>5 DEF Extend
<1>8. TypeOK'
  <2>1. TypeTracer' /\ TypeAfl'
    BY <1>1, <1>2 DEF TypeOK, TypeTracer, TypeAfl, showmapVars, shared, env
  <2>2. TypeRunner'
    BY <1>1, <1>2, <1>3, <1>6, <1>7 DEF TypeOK, TypeRunner
  <2>3. QED BY <2>1, <2>2 DEF TypeOK
<1>9. Handshake'
  BY <1>1, <1>2 DEF Handshake, showmapVars, shared
<1>10. Serving'
  BY <1>1, <1>2, ServingKept DEF showmapVars, shared
<1>11. Listing'
  BY <1>1, <1>2, ListingKept DEF TypeOK, TypeAfl, env
<1>12. Imported'
  BY <1>1, <1>2, ImportedKept DEF showmapVars
<1>13. Corpus'
  <2>1. Answers = results /\ Answers' = Tail(results)
    BY <1>1 DEF Answers
  <2>2. results \in Seq(OutFile)
    BY <1>2 DEF TypeOK, TypeRunner
  <2>3. Accounted(cumulative, queueDir, results)
    BY <1>2, <2>1 DEF Corpus
  <2>4. Accounted(cumulative, queueDir', Tail(results))
    <3>1. /\ result.count > 0 => Accounted(cumulative, Append(queueDir, entry), Tail(results))
          /\ ~ (result.count > 0) => Accounted(cumulative, queueDir, Tail(results))
      BY <1>1, <1>4, <1>5, <2>2, <2>3, VerdictAccounted DEF result
    <3>2. keep <=> result.count > 0
      BY DEF Interesting
    <3>3. QED BY <1>1, <3>1, <3>2
  <2>5. Accounted(cumulative, queueDir, Answers)'
    BY <1>1, <2>1, <2>4 DEF Accounted, Bits, showmapVars
  <2>6. QED BY <1>1, <2>5 DEF Corpus
<1>14. Dictionary'
  <2>1. Testcase' = IF keep THEN Testcase \cup {Len(queueDir)} ELSE Testcase
    <3>1. CASE keep
      <4>1. Testcase' = 0 .. Len(queueDir)
        BY <1>5, <1>6, <3>1 DEF Testcase
      <4>2. 0 .. Len(queueDir) = (0 .. Len(queueDir) - 1) \cup {Len(queueDir)}
        BY <1>5
      <4>3. QED BY <3>1, <4>1, <4>2 DEF Testcase
    <3>2. CASE ~keep
      BY <1>6, <3>2 DEF Testcase
    <3>3. QED BY <3>1, <3>2
  <2>2. Len(queueDir) \notin Testcase
    BY <1>5 DEF Testcase
  <2>3. Ran' = Ran
    BY <1>1 DEF Ran
  <2>4. QED BY <1>2, <1>7, <2>1, <2>2, <2>3 DEF Dictionary
<1>15. QED BY <1>8, <1>9, <1>10, <1>11, <1>12, <1>13, <1>14 DEF QsymInv

LEMMA EndAddInv ==
  ASSUME QsymInv, EndAdd
  PROVE  QsymInv'
<1>1. /\ pc = "verdict" /\ results = <<>> /\ pc' \in {"select", "pick"}
      /\ UNCHANGED <<program, showmapVars, shared, opened, queue, env, aflMin, phase, todo, results>>
  BY DEF EndAdd
<1>2. TypeOK /\ Handshake /\ Serving /\ Listing /\ Imported /\ Corpus /\ Dictionary
  BY DEF QsymInv
<1>3. TypeOK'
  BY <1>1, <1>2
     DEF TypeOK, TypeTracer, TypeRunner, TypeAfl, Testcase, showmapVars, shared, queue, env
<1>4. Handshake'
  BY <1>1, <1>2 DEF Handshake, showmapVars, shared
<1>5. Serving'
  BY <1>1 DEF Serving
<1>6. Listing'
  BY <1>1, <1>2, ListingKept DEF TypeOK, TypeAfl, env
<1>7. Imported'
  BY <1>1, <1>2, ImportedKept DEF showmapVars
<1>8. Corpus'
  <2>1. Answers' = Answers
    BY <1>1 DEF Answers
  <2>2. QED BY <1>1, <1>2, <2>1, CorpusKept DEF queue, showmapVars
<1>9. Dictionary'
  BY <1>1, <1>2, DictionaryKept DEF queue
<1>10. QED BY <1>3, <1>4, <1>5, <1>6, <1>7, <1>8, <1>9 DEF QsymInv

LEMMA ImportInv ==
  ASSUME QsymInv, ImportFromAfl
  PROVE  QsymInv'
<1>1. /\ pc = "pick" /\ phase' = "import"
      /\ UNCHANGED <<program, showmapVars, outDir, toShowmap, toRunner, opened, queue, env, aflMin,
                     results>>
      /\ \/ pc' = "copy" /\ inDir' = <<>> /\ todo' = [n \in 1 .. Len(afl) |-> Listed(n)]
         \/ pc' = "select" /\ UNCHANGED <<todo, inDir>>
  BY DEF ImportFromAfl
<1>2. TypeOK /\ Handshake /\ Serving /\ Listing /\ Imported /\ Corpus /\ Dictionary
  BY DEF QsymInv
<1>3. afl \in Seq(Content) /\ Len(afl) \in Nat /\ MaxOutputs \in Nat
  BY <1>2, QsymBoundsAssumption DEF TypeOK, TypeAfl
<1>4. ASSUME NEW n \in 1 .. Len(afl)
      PROVE  /\ Listed(n) \in ToCopy
             /\ Listed(n).id = IF afl[n] = NoInput THEN -1 ELSE n - 1
  <2>1. RankOfAfl(n - 1) \in Nat /\ n - 1 \in Int
    BY <1>3, <1>4, QsymBoundsAssumption DEF RankOfAfl, RankOfInput
  <2>2. PICK id \in Int : id = IF afl[n] = NoInput THEN -1 ELSE n - 1
    BY <2>1
  <2>3. Listed(n) = [rank |-> RankOfAfl(n - 1), id |-> id, content |-> NoInput]
    BY <2>2 DEF Listed
  <2>4. QED BY <2>1, <2>2, <2>3 DEF ToCopy, Content
<1> DEFINE listing == [n \in 1 .. Len(afl) |-> Listed(n)]
<1>5. /\ listing \in Seq(ToCopy) /\ DOMAIN listing = 1 .. Len(afl)
      /\ \A n \in 1 .. Len(afl) : listing[n].id = IF afl[n] = NoInput THEN -1 ELSE n - 1
  BY <1>3, <1>4
<1> HIDE DEF listing
<1>6. TypeOK'
  <2>1. TypeTracer'
    <3>1. inDir \in Seq(InFile) /\ <<>> \in Seq(InFile)
      BY <1>2 DEF TypeOK, TypeTracer
    <3>2. inDir' \in Seq(InFile)
      BY <1>1, <3>1
    <3>3. QED BY <1>1, <1>2, <3>2 DEF TypeOK, TypeTracer, showmapVars
  <2>2. todo' \in Seq(ToCopy)
    BY <1>1, <1>2, <1>5 DEF TypeOK, TypeRunner, listing
  <2>3. TypeRunner' /\ TypeAfl'
    BY <1>1, <1>2, <2>2 DEF TypeOK, TypeRunner, TypeAfl, Testcase, queue, env
  <2>4. QED BY <2>1, <2>3 DEF TypeOK
<1>7. Handshake'
  BY <1>1, <1>2 DEF Handshake, showmapVars
<1>8. Serving'
  BY <1>1 DEF Serving
<1>9. Listing'
  <2>1. CASE todo' = listing
    <3> SUFFICES ASSUME NEW k \in 1 .. Len(afl)
                 PROVE  /\ listing[k].id < Len(afl)
                        /\ \A n \in Nat : n < listing[k].id =>
                             n \in rewritten \/ \E j \in 1 .. k - 1 : listing[j].id = n
      BY <1>1, <1>5, <2>1 DEF Listing, env
    <3>1. listing[k].id < Len(afl)
      BY <1>3, <1>5
    <3>2. ASSUME NEW n \in Nat, n < listing[k].id, n \notin rewritten
          PROVE  \E j \in 1 .. k - 1 : listing[j].id = n
      <4>1. listing[k].id \in {-1, k - 1} /\ k \in Nat
        BY <1>5
      <4>2. n + 1 \in 1 .. k - 1 /\ n + 1 \in 1 .. Len(afl) /\ n \in 0 .. Len(afl) - 1
        BY <1>3, <3>2, <4>1
      <4>3. afl[n + 1] # NoInput
        BY <1>2, <3>2, <4>2 DEF TypeOK, TypeAfl
      <4>4. listing[n + 1].id = n
        BY <1>5, <4>2, <4>3
      <4>5. QED BY <4>2, <4>4
    <3>3. QED BY <3>1, <3>2
  <2>2. CASE todo' = todo
    BY <1>1, <1>2, <1>3, <2>2, ListingKept DEF env
  <2>3. QED BY <1>1, <2>1, <2>2 DEF listing
<1>10. Imported'
  BY <1>1, <1>2, ImportedKept DEF showmapVars
<1>11. Corpus'
  <2>1. Answers' = Answers /\ results' = <<>>
    BY <1>1, <1>2 DEF Answers, Corpus
  <2>2. QED BY <1>1, <1>2, <2>1, CorpusKept DEF queue, showmapVars
<1>12. Dictionary'
  BY <1>1, <1>2, DictionaryKept DEF queue
<1>13. QED BY <1>6, <1>7, <1>8, <1>9, <1>10, <1>11, <1>12 DEF QsymInv

LEMMA SelectTestcaseInv ==
  ASSUME QsymInv, NEW t \in Testcase, SelectTestcase(t)
  PROVE  QsymInv'
<1>1. /\ pc = "select" /\ pc' = "run" /\ t \in DOMAIN inputs
      /\ inputs' = [u \in DOMAIN inputs \ {t} |-> inputs[u]]
      /\ ran' = Append(ran, t) /\ current' = t
      /\ UNCHANGED <<program, showmapVars, shared, opened, queueDir, env, aflMin, phase, todo, results>>
  BY DEF SelectTestcase, Best, Drop
<1>2. TypeOK /\ Handshake /\ Serving /\ Listing /\ Imported /\ Corpus /\ Dictionary
  BY DEF QsymInv
<1>3. ran \in Seq(Nat) /\ inputs \in [DOMAIN inputs -> Nat] /\ Len(queueDir) \in Nat
  BY <1>2 DEF TypeOK, TypeRunner
<1>4. t \in Nat
  BY <1>3 DEF Testcase
<1>5. /\ ran' \in Seq(Nat) /\ DOMAIN ran' = DOMAIN ran \cup {Len(ran) + 1}
      /\ ran'[Len(ran) + 1] = t /\ \A k \in DOMAIN ran : ran'[k] = ran[k]
  BY <1>1, <1>3, <1>4
<1>6. inputs' \in [DOMAIN inputs' -> Nat] /\ DOMAIN inputs' = DOMAIN inputs \ {t}
  BY <1>1, <1>3
<1>7. TypeOK'
  <2>1. TypeTracer' /\ TypeAfl'
    BY <1>1, <1>2 DEF TypeOK, TypeTracer, TypeAfl, showmapVars, shared, env
  <2>2. TypeRunner'
    BY <1>1, <1>2, <1>5, <1>6 DEF TypeOK, TypeRunner, Testcase
  <2>3. QED BY <2>1, <2>2 DEF TypeOK
<1>8. Handshake'
  BY <1>1, <1>2 DEF Handshake, showmapVars, shared
<1>9. Serving'
  BY <1>1 DEF Serving
<1>10. Listing'
  BY <1>1, <1>2, ListingKept DEF TypeOK, TypeAfl, env
<1>11. Imported'
  BY <1>1, <1>2, ImportedKept DEF showmapVars
<1>12. Corpus'
  <2>1. Answers' = Answers /\ results' = <<>>
    BY <1>1, <1>2 DEF Answers, Corpus
  <2>2. QED BY <1>1, <1>2, <2>1, CorpusKept DEF showmapVars
<1>13. Dictionary'
  <2>1. Ran' = Ran \cup {t}
    BY <1>5 DEF Ran
  <2>2. QED BY <1>1, <1>2, <1>6, <2>1 DEF Dictionary, Testcase
<1>14. QED BY <1>7, <1>8, <1>9, <1>10, <1>11, <1>12, <1>13 DEF QsymInv

LEMMA SelectNoneInv ==
  ASSUME QsymInv, SelectNone
  PROVE  QsymInv'
<1>1. /\ pc = "select" /\ pc' \in {"pick", "done"}
      /\ UNCHANGED <<program, showmapVars, shared, opened, queue, env, aflMin, phase, todo, results>>
  BY DEF SelectNone
<1>2. TypeOK /\ Handshake /\ Serving /\ Listing /\ Imported /\ Corpus /\ Dictionary
  BY DEF QsymInv
<1>3. TypeOK'
  BY <1>1, <1>2
     DEF TypeOK, TypeTracer, TypeRunner, TypeAfl, Testcase, showmapVars, shared, queue, env
<1>4. Handshake'
  BY <1>1, <1>2 DEF Handshake, showmapVars, shared
<1>5. Serving'
  BY <1>1 DEF Serving
<1>6. Listing'
  BY <1>1, <1>2, ListingKept DEF TypeOK, TypeAfl, env
<1>7. Imported'
  BY <1>1, <1>2, ImportedKept DEF showmapVars
<1>8. Corpus'
  <2>1. Answers' = Answers /\ results' = <<>>
    BY <1>1, <1>2 DEF Answers, Corpus
  <2>2. QED BY <1>1, <1>2, <2>1, CorpusKept DEF queue, showmapVars
<1>9. Dictionary'
  BY <1>1, <1>2, DictionaryKept DEF queue
<1>10. QED BY <1>3, <1>4, <1>5, <1>6, <1>7, <1>8, <1>9 DEF QsymInv

LEMMA RunTargetInv ==
  ASSUME QsymInv, RunTarget
  PROVE  QsymInv'
<1> DEFINE input == queueDir[current + 1].content
           Copy(out) == [n \in DOMAIN out |-> [rank |-> n - 1, id |-> -1, content |-> out[n]]]
           own == [rank |-> RankOfInput, id |-> -1, content |-> input]
<1>1. PICK out \in Outputs(input) : todo' = Append(Copy(out), own)
  BY DEF RunTarget
<1>2. /\ pc = "run" /\ pc' = "copy" /\ phase' = "run" /\ current' = -1 /\ inDir' = <<>>
      /\ UNCHANGED <<program, showmapVars, outDir, toShowmap, toRunner, opened, queueDir, inputs,
                     ran, env, aflMin, results>>
  BY DEF RunTarget
<1>3. TypeOK /\ Handshake /\ Serving /\ Listing /\ Imported /\ Corpus /\ Dictionary
  BY DEF QsymInv
<1>4. input \in Input
  <2>1. queueDir \in Seq(Entry) /\ Len(queueDir) \in Nat /\ current \in 0 .. Len(queueDir) - 1
    BY <1>2, <1>3 DEF TypeOK, TypeRunner, Testcase
  <2>2. queueDir[current + 1] \in Entry
    BY <2>1
  <2>3. QED BY <2>2 DEF Entry
<1> HIDE DEF input
<1>5. program.generates[input] \subseteq Input
  BY <1>3, <1>4 DEF TypeOK, TypeTracer, ProgramType, Content
<1>6. PICK m \in Nat : out \in [1 .. m -> program.generates[input]]
  BY QsymBoundsAssumption DEF Outputs
<1> DEFINE File == [rank : Nat, id : {-1}, content : Content]
<1>7. \A n \in 1 .. m : [rank |-> n - 1, id |-> -1, content |-> out[n]] \in File
  BY <1>5, <1>6 DEF Content
<1>8. own \in File
  BY <1>4, QsymBoundsAssumption DEF RankOfInput, Content
<1>9. \A f \in File : f \in ToCopy /\ f.id = -1
  BY DEF ToCopy
<1> HIDE DEF File, own
<1>10. Copy(out) \in Seq(File)
  BY <1>6, <1>7
<1> HIDE DEF Copy
<1>11. todo' \in Seq(File)
  BY <1>1, <1>8, <1>10
<1>12. todo' \in Seq(ToCopy) /\ \A k \in DOMAIN todo' : todo'[k].id = -1
  <2>1. \A k \in DOMAIN todo' : todo'[k] \in File
    BY <1>11
  <2>2. File \subseteq ToCopy
    BY <1>9
  <2>3. QED BY <1>9, <1>11, <2>1, <2>2
<1>13. TypeOK'
  BY <1>2, <1>3, <1>12 DEF TypeOK, TypeTracer, TypeRunner, TypeAfl, showmapVars, env
<1>14. Handshake'
  BY <1>2, <1>3 DEF Handshake, showmapVars
<1>15. Serving'
  BY <1>2 DEF Serving
<1>16. Listing'
  <2>1. Len(afl') \in Nat
    BY <1>13 DEF TypeOK, TypeAfl
  <2>2. QED BY <1>12, <2>1 DEF Listing
<1>17. Imported'
  BY <1>2, <1>3, ImportedKept DEF showmapVars
<1>18. Corpus'
  <2>1. Answers' = Answers /\ results' = <<>>
    BY <1>2, <1>3 DEF Answers, Corpus
  <2>2. QED BY <1>2, <1>3, <2>1, CorpusKept DEF showmapVars
<1>19. Dictionary'
  BY <1>2, <1>3, DictionaryKept
<1>20. QED BY <1>13, <1>14, <1>15, <1>16, <1>17, <1>18, <1>19 DEF QsymInv

-------------------------------------------------------------------------------
(* The tracer.                                                                  *)

\* What a step of the tracer leaves alone, whichever it is.
LEMMA TracerKeeps ==
  ASSUME QsymInv, UNCHANGED <<runner, env, program, inDir>>
  PROVE  /\ TypeRunner' /\ TypeAfl' /\ Listing' /\ Dictionary'
         /\ \A n \in 0 .. aflMin : Copied(afl[n + 1])' = Copied(afl[n + 1])
<1>1. UNCHANGED <<opened, queueDir, inputs, ran, current, aflMin, pc, phase, todo, results,
                  aflMode, afl, rewritten, inDir>>
  BY DEF runner, queue, env
<1>2. TypeOK /\ Listing /\ Dictionary
  BY DEF QsymInv
<1>3. TypeRunner' /\ TypeAfl'
  BY <1>1, <1>2 DEF TypeOK, TypeRunner, TypeAfl, Testcase
<1>4. Listing' /\ Dictionary'
  BY <1>1, <1>2, ListingKept, DictionaryKept DEF TypeOK, TypeAfl
<1>5. QED BY <1>1, <1>3, <1>4 DEF Copied

LEMMA AnnounceInv ==
  ASSUME QsymInv, Announce, UNCHANGED <<runner, env>>
  PROVE  QsymInv'
<1>1. /\ spc = "write" /\ spc' = "read" /\ toRunner' = toRunner + 1
      /\ UNCHANGED <<program, cumulative, scan, inDir, outDir, toShowmap>>
      /\ UNCHANGED <<pc, opened, queueDir, results, aflMin, env>>
  BY DEF Announce, runner, queue
<1>2. TypeOK /\ Handshake /\ Serving /\ Listing /\ Imported /\ Corpus /\ Dictionary
  BY DEF QsymInv
<1>3. TypeRunner' /\ TypeAfl' /\ Listing' /\ Dictionary'
  BY <1>1, TracerKeeps
<1>4. pc \in {"boot", "await"} /\ toShowmap = 0 /\ toRunner = 0
  BY <1>1, <1>2 DEF Handshake, TypeOK, TypeRunner
<1>5. TypeOK'
  BY <1>1, <1>2, <1>3 DEF TypeOK, TypeTracer
<1>6. Handshake'
  BY <1>1, <1>4 DEF Handshake
<1>7. Serving'
  BY <1>1, <1>2, <1>4 DEF Serving, Served, Judged, AnswerOf
<1>8. Imported'
  BY <1>1, <1>2, ImportedKept
<1>9. Corpus'
  <2>1. Answers' = Answers
    BY <1>1 DEF Answers
  <2>2. QED BY <1>1, <1>2, <2>1, CorpusKept DEF Corpus
<1>10. QED BY <1>3, <1>5, <1>6, <1>7, <1>8, <1>9 DEF QsymInv

LEMMA ReadRequestInv ==
  ASSUME QsymInv, ReadRequest, UNCHANGED <<runner, env>>
  PROVE  QsymInv'
<1>1. /\ spc = "read" /\ spc' = "scan" /\ toShowmap > 0 /\ toShowmap' = toShowmap - 1
      /\ scan' = inDir
      /\ UNCHANGED <<program, cumulative, inDir, outDir, toRunner>>
      /\ UNCHANGED <<pc, opened, queueDir, results, aflMin, env>>
  BY DEF ReadRequest, runner, queue
<1>2. TypeOK /\ Handshake /\ Serving /\ Listing /\ Imported /\ Corpus /\ Dictionary
  BY DEF QsymInv
<1>3. TypeRunner' /\ TypeAfl' /\ Listing' /\ Dictionary'
  BY <1>1, TracerKeeps
<1>4. pc = "await" /\ toShowmap = 1 /\ toRunner = 0
  BY <1>1, <1>2 DEF Handshake, TypeOK, TypeRunner
<1>5. TypeOK'
  BY <1>1, <1>2, <1>3 DEF TypeOK, TypeTracer
<1>6. Handshake'
  BY <1>1, <1>4 DEF Handshake
<1>7. Serving'
  BY <1>1, <1>4 DEF Serving
<1>8. Imported'
  BY <1>1, <1>2, ImportedKept
<1>9. Corpus'
  <2>1. Answers' = Answers
    BY <1>1 DEF Answers
  <2>2. QED BY <1>1, <1>2, <2>1, CorpusKept DEF Corpus
<1>10. QED BY <1>3, <1>5, <1>6, <1>7, <1>8, <1>9 DEF QsymInv

\* A scanned file is served from then on.
LEMMA ScanServes ==
  ASSUME QsymInv, ScanFile
  PROVE  /\ \A file : Served(file) => Served(file)'
         /\ \A file : file = Head(scan) => Served(file)'
         /\ cumulative \subseteq cumulative'
<1> DEFINE file == Head(scan)
           answer == [rank |-> file.rank, content |-> file.content,
                      count |-> Cardinality(Changed(program.hits[file.content])),
                      new |-> Cardinality(NewEntries(program.hits[file.content]))]
<1>1. /\ program' = program /\ scan # <<>>
      /\ file.content = Empty => UNCHANGED <<cumulative, outDir>>
      /\ file.content # Empty =>
           outDir' = Append(outDir, answer) /\ cumulative' = cumulative \cup program.hits[file.content]
  BY DEF ScanFile, Result
<1>2. outDir \in Seq(OutFile) /\ scan \in Seq(InFile) /\ program \in ProgramType
  BY DEF QsymInv, TypeOK, TypeTracer
<1>3. file \in InFile
  BY <1>1, <1>2, Tailed
<1>4. file.rank \in Nat /\ file.content \in Input /\ program.hits[file.content] \in Hits
  BY <1>2, <1>3 DEF InFile, ProgramType, Content
<1>5. answer \in OutFile /\ answer.rank = file.rank
  BY <1>4, CountsChanges DEF OutFile
<1>6. cumulative \subseteq cumulative'
  BY <1>1
<1> HIDE DEF answer, file
<1>7. \A f : AnswerOf(f) => AnswerOf(f)'
  <2>1. CASE outDir' = outDir
    BY <2>1 DEF AnswerOf
  <2>2. CASE outDir' = Append(outDir, answer)
    <3>1. \A k \in DOMAIN outDir : k \in DOMAIN outDir' /\ outDir'[k] = outDir[k]
      BY <1>2, <1>5, <2>2, Appended
    <3>2. QED BY <3>1 DEF AnswerOf
  <2>3. QED BY <1>1, <2>1, <2>2
<1>8. \A f : Served(f) => Served(f)'
  BY <1>1, <1>6, <1>7, JudgedKept DEF Served
<1>9. ASSUME NEW f, f = file
      PROVE  Served(f)'
  <2>1. CASE f.content = Empty
    BY <2>1 DEF Served, Judged
  <2>2. CASE f.content # Empty
    <3>1. \E m \in DOMAIN outDir' : outDir'[m].rank = f.rank
      <4>1. Len(outDir) + 1 \in DOMAIN outDir' /\ outDir'[Len(outDir) + 1] = answer
        BY <1>1, <1>2, <1>5, <1>9, <2>2, Appended
      <4>2. QED BY <1>5, <1>9, <4>1
    <3>2. program'.hits[f.content] \subseteq cumulative'
      BY <1>1, <1>9, <2>2
    <3>3. QED BY <3>1, <3>2 DEF Served, Judged, AnswerOf
  <2>3. QED BY <2>1, <2>2
<1>10. QED BY <1>6, <1>8, <1>9 DEF file

LEMMA ScanFileInv ==
  ASSUME QsymInv, ScanFile, UNCHANGED <<runner, env>>
  PROVE  QsymInv'
<1> DEFINE file == Head(scan)
           answer == [rank |-> file.rank, content |-> file.content,
                      count |-> Cardinality(Changed(program.hits[file.content])),
                      new |-> Cardinality(NewEntries(program.hits[file.content]))]
<1>1. /\ spc = "scan" /\ scan # <<>> /\ scan' = Tail(scan)
      /\ file.content = Empty => UNCHANGED <<cumulative, outDir>>
      /\ file.content # Empty =>
           outDir' = Append(outDir, answer) /\ cumulative' = cumulative \cup program.hits[file.content]
      /\ UNCHANGED <<program, spc, inDir, toShowmap, toRunner>>
      /\ UNCHANGED <<pc, opened, queueDir, results, aflMin, env>>
  BY DEF ScanFile, Result, runner, queue
<1>2. TypeOK /\ Handshake /\ Serving /\ Listing /\ Imported /\ Corpus /\ Dictionary
  BY DEF QsymInv
<1>3. TypeRunner' /\ TypeAfl' /\ Listing' /\ Dictionary'
  BY <1>1, TracerKeeps
<1>4. pc = "await" /\ toShowmap = 0 /\ toRunner = 0
  BY <1>1, <1>2 DEF Handshake, TypeOK, TypeRunner
<1>5. outDir \in Seq(OutFile) /\ scan \in Seq(InFile) /\ program \in ProgramType /\ cumulative \in Hits
  BY <1>2 DEF TypeOK, TypeTracer
<1>6. /\ file \in InFile /\ Tail(scan) \in Seq(InFile)
      /\ \A k \in DOMAIN scan : k = 1 \/ (k - 1 \in DOMAIN Tail(scan) /\ Tail(scan)[k - 1] = scan[k])
      /\ file = scan[1]
  BY <1>1, <1>5, Tailed
<1>7. file.rank \in Nat /\ file.content \in Input /\ program.hits[file.content] \in Hits
  BY <1>5, <1>6 DEF InFile, ProgramType, Content
<1>8. /\ answer \in OutFile /\ answer.content = file.content
      /\ answer.count > 0 <=> ~ (program.hits[file.content] \subseteq cumulative)
  BY <1>7, CountsChanges DEF OutFile
<1> HIDE DEF answer
<1>9. TypeOK'
  <2>1. outDir' \in Seq(OutFile)
    <3>1. CASE outDir' = outDir
      BY <1>5, <3>1
    <3>2. CASE outDir' = Append(outDir, answer)
      BY <1>5, <1>8, <3>2
    <3>3. QED BY <1>1, <3>1, <3>2
  <2>2. cumulative' \in Hits
    BY <1>1, <1>5, <1>7 DEF Hits
  <2>3. TypeTracer'
    BY <1>1, <1>2, <1>6, <2>1, <2>2 DEF TypeOK, TypeTracer
  <2>4. QED BY <1>3, <2>3 DEF TypeOK
<1>10. Handshake'
  BY <1>1, <1>2 DEF Handshake
<1>11. /\ \A f : Served(f) => Served(f)'
       /\ \A f : f = file => Served(f)'
       /\ cumulative \subseteq cumulative'
  BY ScanServes DEF ScanFile, QsymInv
<1>12. Serving'
  <2> SUFFICES ASSUME NEW k \in DOMAIN inDir
               PROVE  Served(inDir[k])' \/ \E m \in DOMAIN scan' : scan'[m] = inDir[k]
    BY <1>1, <1>4 DEF Serving
  <2>1. PICK f : f = inDir[k]
    OBVIOUS
  <2>2. f = inDir'[k]
    BY <1>1, <2>1
  <2>3. Served(f)' => Served(inDir[k])'
    BY <2>2 DEF Served, Judged, AnswerOf
  <2>4. CASE Served(inDir[k])
    <3>1. Served(f)
      BY <2>1, <2>4
    <3>2. QED BY <1>11, <2>3, <3>1
  <2>5. ASSUME NEW m \in DOMAIN scan, scan[m] = inDir[k]
        PROVE  Served(inDir[k])' \/ \E j \in DOMAIN scan' : scan'[j] = inDir[k]
    <3>1. CASE m = 1
      <4>1. f = file
        BY <1>6, <2>1, <2>5, <3>1
      <4>2. QED BY <1>11, <2>3, <4>1
    <3>2. CASE m # 1
      BY <1>1, <1>6, <2>5, <3>2
    <3>3. QED BY <3>1, <3>2
  <2>6. QED BY <1>1, <1>2, <1>4, <2>4, <2>5 DEF Serving
<1>13. Imported'
  BY <1>1, <1>2, <1>4, <1>11, ImportedKept
<1>14. Corpus'
  <2>1. Answers = outDir /\ Answers' = outDir'
    BY <1>1, <1>4 DEF Answers
  <2>2. CASE file.content = Empty
    BY <1>1, <1>2, <2>1, <2>2, CorpusKept DEF Corpus
  <2>3. CASE file.content # Empty
    <3>1. queueDir \in Seq(Entry)
      BY <1>2 DEF TypeOK, TypeRunner
    <3>2. Accounted(cumulative, queueDir, outDir)
      BY <1>2, <2>1 DEF Corpus
    <3>3. Accounted(cumulative \cup program.hits[answer.content], queueDir, Append(outDir, answer))
      BY <1>5, <1>8, <3>1, <3>2, ResultAccounted
    <3>4. Accounted(cumulative', queueDir, outDir')
      BY <1>1, <1>8, <2>3, <3>3
    <3>5. Accounted(cumulative, queueDir, Answers)'
      BY <1>1, <2>1, <3>4 DEF Accounted, Bits
    <3>6. QED BY <1>1, <1>2, <1>4, <3>5 DEF Corpus
  <2>4. QED BY <2>2, <2>3
<1>15. QED BY <1>3, <1>9, <1>10, <1>12, <1>13, <1>14 DEF QsymInv

LEMMA EndScanInv ==
  ASSUME QsymInv, EndScan, UNCHANGED <<runner, env>>
  PROVE  QsymInv'
<1>1. /\ spc = "scan" /\ scan = <<>> /\ spc' = "write"
      /\ UNCHANGED <<program, cumulative, scan, inDir, outDir, toShowmap, toRunner>>
      /\ UNCHANGED <<pc, opened, queueDir, results, aflMin, env>>
  BY DEF EndScan, runner, queue
<1>2. TypeOK /\ Handshake /\ Serving /\ Listing /\ Imported /\ Corpus /\ Dictionary
  BY DEF QsymInv
<1>3. TypeRunner' /\ TypeAfl' /\ Listing' /\ Dictionary'
  BY <1>1, TracerKeeps
<1>4. pc = "await" /\ toShowmap = 0 /\ toRunner = 0
  BY <1>1, <1>2 DEF Handshake, TypeOK, TypeRunner
<1>5. TypeOK'
  BY <1>1, <1>2, <1>3 DEF TypeOK, TypeTracer
<1>6. Handshake'
  BY <1>1, <1>4 DEF Handshake
<1>7. Serving'
  <2>1. \A k \in DOMAIN inDir : Served(inDir[k])
    BY <1>1, <1>2, <1>4 DEF Serving
  <2>2. QED BY <1>1, <1>4, <2>1 DEF Serving, Served, Judged, AnswerOf
<1>8. Imported'
  BY <1>1, <1>2, ImportedKept
<1>9. Corpus'
  <2>1. Answers' = Answers
    BY <1>1 DEF Answers
  <2>2. QED BY <1>1, <1>2, <2>1, CorpusKept DEF Corpus
<1>10. QED BY <1>3, <1>5, <1>6, <1>7, <1>8, <1>9 DEF QsymInv

LEMMA DieInv ==
  ASSUME QsymInv, Die, UNCHANGED <<runner, env>>
  PROVE  QsymInv'
<1>1. /\ spc = "scan" /\ spc' = "dead"
      /\ UNCHANGED <<program, cumulative, scan, inDir, outDir, toShowmap, toRunner>>
      /\ UNCHANGED <<pc, opened, queueDir, results, aflMin, env>>
  BY DEF Die, runner, queue
<1>2. TypeOK /\ Handshake /\ Serving /\ Listing /\ Imported /\ Corpus /\ Dictionary
  BY DEF QsymInv
<1>3. TypeRunner' /\ TypeAfl' /\ Listing' /\ Dictionary'
  BY <1>1, TracerKeeps
<1>4. pc = "await" /\ toShowmap = 0 /\ toRunner = 0
  BY <1>1, <1>2 DEF Handshake, TypeOK, TypeRunner
<1>5. TypeOK'
  BY <1>1, <1>2, <1>3 DEF TypeOK, TypeTracer
<1>6. Handshake'
  BY <1>1, <1>4 DEF Handshake
<1>7. Serving'
  BY <1>1, <1>4 DEF Serving
<1>8. Imported'
  BY <1>1 DEF Imported
<1>9. Corpus'
  <2>1. Answers' = Answers
    BY <1>1 DEF Answers
  <2>2. QED BY <1>1, <1>2, <2>1, CorpusKept DEF Corpus
<1>10. QED BY <1>3, <1>5, <1>6, <1>7, <1>8, <1>9 DEF QsymInv

-------------------------------------------------------------------------------
(* AFL.                                                                         *)

\* Only AFL moves: nothing but its queue is different, and no entry of it goes away.
AflMoves ==
  /\ UNCHANGED <<program, showmapVars, shared, runner, aflMode>>
  /\ afl' \in Seq(Content) /\ Len(afl) <= Len(afl')
  /\ rewritten \subseteq rewritten' /\ rewritten' \subseteq Nat
  /\ \A n \in 0 .. Len(afl') - 1 : afl'[n + 1] = NoInput => n \in rewritten'
  /\ \A n \in 0 .. Len(afl) - 1 : afl'[n + 1] = afl[n + 1] \/ n \in rewritten'

LEMMA AflMovesInv ==
  ASSUME QsymInv, AflMoves
  PROVE  QsymInv'
<1>1. /\ UNCHANGED <<program, spc, cumulative, scan, inDir, outDir, toShowmap, toRunner, opened,
                     queueDir, inputs, ran, current, aflMin, pc, phase, todo, results, aflMode>>
      /\ rewritten \subseteq rewritten'
  BY DEF AflMoves, showmapVars, shared, runner, queue
<1>2. TypeOK /\ Handshake /\ Serving /\ Listing /\ Imported /\ Corpus /\ Dictionary
  BY DEF QsymInv
<1>3. /\ afl' \in Seq(Content) /\ Len(afl) \in Nat /\ Len(afl') \in Nat /\ Len(afl) <= Len(afl')
      /\ aflMin \in -1 .. Len(afl) - 1 /\ aflMin \in -1 .. Len(afl') - 1
  BY <1>2 DEF TypeOK, TypeAfl, AflMoves
<1>4. TypeOK'
  <2>1. TypeTracer' /\ TypeRunner'
    BY <1>1, <1>2 DEF TypeOK, TypeTracer, TypeRunner, Testcase
  <2>2. TypeAfl'
    BY <1>1, <1>2, <1>3 DEF TypeOK, TypeAfl, AflMoves
  <2>3. QED BY <2>1, <2>2 DEF TypeOK
<1>5. Handshake'
  BY <1>1, <1>2 DEF Handshake
<1>6. Serving'
  BY <1>1, <1>2, ServingKept
<1>7. Listing'
  BY <1>1, <1>2, <1>3, ListingKept
<1>8. Imported'
  <2> SUFFICES ASSUME spc # "dead", NEW n \in 0 .. aflMin, n \notin rewritten'
               PROVE  \/ Judged(afl[n + 1])'
                      \/ pc \in {"copy", "await"} /\ Copied(afl[n + 1])'
    BY <1>1 DEF Imported
  <2>1. n \in 0 .. Len(afl) - 1
    BY <1>3
  <2>2. afl'[n + 1] = afl[n + 1] /\ n \notin rewritten
    BY <1>1, <2>1 DEF AflMoves
  <2>3. Judged(afl[n + 1]) \/ (pc \in {"copy", "await"} /\ Copied(afl[n + 1]))
    BY <1>2, <2>2 DEF Imported
  <2>4. Judged(afl[n + 1]) => Judged(afl[n + 1])'
    BY <1>1, <2>2 DEF Judged
  <2>5. Copied(afl[n + 1]) => Copied(afl[n + 1])'
    BY <1>1, <2>2 DEF Copied
  <2>6. QED BY <2>3, <2>4, <2>5
<1>9. Corpus'
  <2>1. Answers' = Answers
    BY <1>1 DEF Answers
  <2>2. QED BY <1>1, <1>2, <2>1, CorpusKept DEF Corpus
<1>10. Dictionary'
  BY <1>1, <1>2, DictionaryKept
<1>11. QED BY <1>4, <1>5, <1>6, <1>7, <1>8, <1>9, <1>10 DEF QsymInv

LEMMA AflInv ==
  ASSUME QsymInv, Afl
  PROVE  QsymInv'
<1>1. /\ afl \in Seq(Content) /\ Len(afl) \in Nat /\ rewritten \subseteq Nat
      /\ \A n \in 0 .. Len(afl) - 1 : afl[n + 1] = NoInput => n \in rewritten
  BY DEF QsymInv, TypeOK, TypeAfl
<1>2. NoInput \in Content /\ Input \subseteq Content /\ \A i \in Input : i # NoInput
  BY ShowmapInputAssumption DEF Content
<1>3. CASE AflAdd
  <2>1. PICK i \in Input : afl' = Append(afl, i)
    BY <1>3 DEF AflAdd
  <2>2. UNCHANGED <<program, showmapVars, shared, runner, aflMode, rewritten>>
    BY <1>3 DEF AflAdd
  <2>3. /\ afl' \in Seq(Content) /\ Len(afl') = Len(afl) + 1 /\ afl'[Len(afl) + 1] = i
        /\ \A n \in 0 .. Len(afl) - 1 : afl'[n + 1] = afl[n + 1]
    BY <1>1, <1>2, <2>1
  <2>4. \A n \in 0 .. Len(afl') - 1 : afl'[n + 1] = NoInput => n \in rewritten'
    <3>1. \A n \in 0 .. Len(afl') - 1 : n = Len(afl) \/ n \in 0 .. Len(afl) - 1
      BY <1>1, <2>3
    <3>2. QED BY <1>1, <1>2, <2>2, <2>3, <3>1
  <2>5. AflMoves
    BY <1>1, <2>2, <2>3, <2>4 DEF AflMoves
  <2>6. QED BY <2>5, AflMovesInv
<1>4. ASSUME NEW n \in 0 .. Len(afl) - 1, AflUnlink(n) \/ AflRewrite(n)
      PROVE  QsymInv'
  <2>1. n \in Nat /\ n + 1 \in DOMAIN afl
    BY <1>1
  <2>2. PICK i \in Content :
          /\ afl' = [afl EXCEPT ![n + 1] = i] /\ n \in rewritten'
          /\ rewritten' \in {rewritten, rewritten \cup {n}}
    <3>1. CASE AflUnlink(n)
      BY <1>2, <3>1 DEF AflUnlink
    <3>2. CASE AflRewrite(n)
      BY <1>1, <1>2, <3>2 DEF AflRewrite
    <3>3. QED BY <1>4, <3>1, <3>2
  <2>3. UNCHANGED <<program, showmapVars, shared, runner, aflMode>>
    BY <1>4 DEF AflUnlink, AflRewrite
  <2>4. /\ afl' \in Seq(Content) /\ Len(afl') = Len(afl)
        /\ \A m \in 0 .. Len(afl) - 1 : m # n => afl'[m + 1] = afl[m + 1]
    <3>1. afl' \in Seq(Content) /\ Len(afl') = Len(afl)
      BY <1>1, <2>1, <2>2
    <3>2. \A m \in 0 .. Len(afl) - 1 : m # n => m + 1 \in DOMAIN afl /\ m + 1 # n + 1
      BY <1>1, <2>1
    <3>3. \A k \in DOMAIN afl : k # n + 1 => afl'[k] = afl[k]
      BY <1>1, <2>2
    <3>4. QED BY <3>1, <3>2, <3>3
  <2>5. rewritten \subseteq rewritten' /\ rewritten' \subseteq Nat
    BY <1>1, <2>1, <2>2
  <2>6. \A m \in 0 .. Len(afl') - 1 : afl'[m + 1] = NoInput => m \in rewritten'
    BY <1>1, <2>2, <2>4, <2>5
  <2>7. AflMoves
    BY <1>1, <2>2, <2>3, <2>4, <2>5, <2>6 DEF AflMoves
  <2>8. QED BY <2>7, AflMovesInv
<1>5. QED BY <1>3, <1>4 DEF Afl

LEMMA StutterInv ==
  ASSUME QsymInv, UNCHANGED vars
  PROVE  QsymInv'
<1>1. UNCHANGED <<program, showmapVars, shared, runner, aflMode, afl, rewritten>>
  BY DEF vars, env
<1>2. AflMoves
  BY <1>1 DEF AflMoves, QsymInv, TypeOK, TypeAfl
<1>3. QED BY <1>2, AflMovesInv

LEMMA NextInv == QsymInv /\ [Next]_vars => QsymInv'
<1> SUFFICES ASSUME QsymInv, [Next]_vars
             PROVE  QsymInv'
  OBVIOUS
<1>1. CASE OpenPipe
  BY <1>1, OpenPipeInv
<1>2. CASE Boot
  BY <1>2, BootInv
<1>3. CASE CopyFile
  BY <1>3, CopyFileInv
<1>4. CASE Request
  BY <1>4, RequestInv
<1>5. CASE Await
  BY <1>5, AwaitInv
<1>6. CASE Verdict
  BY <1>6, VerdictInv
<1>7. CASE EndAdd
  BY <1>7, EndAddInv
<1>8. CASE ImportFromAfl
  BY <1>8, ImportInv
<1>9. ASSUME NEW t \in Testcase, SelectTestcase(t)
      PROVE  QsymInv'
  BY <1>9, SelectTestcaseInv
<1>10. CASE SelectNone
  BY <1>10, SelectNoneInv
<1>11. CASE RunTarget
  BY <1>11, RunTargetInv
<1>12. CASE Tracer
  BY <1>12, AnnounceInv, ReadRequestInv, ScanFileInv, EndScanInv, DieInv DEF Tracer, ShowmapStep
<1>13. CASE Afl
  BY <1>13, AflInv
<1>14. CASE UNCHANGED vars
  BY <1>14, StutterInv
<1>15. QED
  BY <1>1, <1>2, <1>3, <1>4, <1>5, <1>6, <1>7, <1>8, <1>9, <1>10, <1>11, <1>12, <1>13, <1>14
     DEF Next, Runner, Done

-------------------------------------------------------------------------------
(* The theorems.                                                                *)

\* The invariant holds in every state of every run.
THEOREM Invariance == Spec => []QsymInv
<1>1. QED BY InitInv, NextInv, PTL DEF Spec

\* The runner and the tracer alternate strictly, no word is left over in a FIFO, and the
\* answers the runner reads are complete.
THEOREM StrictAlternation == Spec => []Alternation
<1>1. QsymInv => Alternation
  <2> SUFFICES ASSUME QsymInv PROVE Alternation
    OBVIOUS
  <2>1. pc \in {"copy", "verdict", "pick", "select", "run"} =>
          spc \in {"read", "dead"} /\ toShowmap = 0 /\ toRunner = 0
    BY DEF QsymInv, Handshake
  <2>2. pc = "verdict" /\ spc # "dead" => Answered
    BY DEF QsymInv, Serving, Served, AnswerOf, Answered
  <2>3. QED BY <2>1, <2>2 DEF Alternation
<1>2. QED BY Invariance, <1>1, PTL

\* What will never be interesting again is in the corpus, or about to be.
THEOREM CorpusCovers == Spec => []CorpusCoversCumulative
<1>1. QsymInv => CorpusCoversCumulative
  <2> SUFFICES ASSUME QsymInv PROVE CorpusCoversCumulative
    OBVIOUS
  <2>1. cumulative \subseteq program.garbage \cup Bits(Contents(queueDir) \cup KeepOf(Answers))
    BY DEF QsymInv, Corpus, Accounted
  <2>2. queueDir \in Seq(Entry)
    BY DEF QsymInv, TypeOK, TypeRunner
  <2>3. Contents(queueDir) \subseteq Shown
    <3> SUFFICES ASSUME NEW k \in DOMAIN queueDir
                 PROVE  queueDir[k].content \in Shown
      BY DEF Contents
    <3>1. PICK t \in Testcase : t + 1 = k
      <4>1. k - 1 \in Testcase /\ (k - 1) + 1 = k
        BY <2>2 DEF Testcase
      <4>2. QED BY <4>1
    <3>2. QED BY <3>1 DEF Shown
  <2>4. KeepOf(Answers) \subseteq Shown
    <3>1. KeepOf(Answers) \subseteq Contents(Answers)
      BY DEF KeepOf, Contents
    <3>2. Contents(Answers) \subseteq Shown
      <4>1. CASE pc = "await"
        BY <4>1 DEF Contents, Answers, Shown
      <4>2. CASE pc # "await"
        BY <4>2 DEF Contents, Answers, Shown
      <4>3. QED BY <4>1, <4>2
    <3>3. QED BY <3>1, <3>2
  <2>5. Bits(Contents(queueDir) \cup KeepOf(Answers)) \subseteq Bits(Shown)
    BY <2>3, <2>4, BitsOfSubset
  <2>6. QED BY <2>1, <2>5 DEF CorpusCoversCumulative, Bits
<1>2. QED BY Invariance, <1>1, PTL

\* Each testcase has a hit that no older one has.
THEOREM KeptForAHit == Spec => []KeptInteresting
<1>1. QsymInv => KeptInteresting
  <2> SUFFICES ASSUME QsymInv, NEW t \in Testcase
               PROVE  ~ (program.hits[queueDir[t + 1].content] \subseteq
                           UNION {program.hits[queueDir[s + 1].content] : s \in 0 .. t - 1})
    BY DEF KeptInteresting
  <2>1. queueDir \in Seq(Entry) /\ t \in Nat
    BY DEF QsymInv, TypeOK, TypeRunner, Testcase
  <2>2. t + 1 \in DOMAIN queueDir /\ (t + 1) - 1 = t
    BY <2>1 DEF Testcase
  <2>3. ~ (program.hits[queueDir[t + 1].content] \subseteq Bits(Before(queueDir, t + 1)))
    BY <2>2 DEF QsymInv, Corpus, Accounted
  <2>4. UNION {program.hits[queueDir[s + 1].content] : s \in 0 .. t - 1}
          \subseteq Bits(Before(queueDir, t + 1))
    <3> SUFFICES ASSUME NEW s \in 0 .. t - 1
                 PROVE  program.hits[queueDir[s + 1].content] \subseteq Bits(Before(queueDir, t + 1))
      OBVIOUS
    <3>1. s + 1 \in 1 .. (t + 1) - 1
      BY <2>1
    <3>2. queueDir[s + 1].content \in Before(queueDir, t + 1)
      BY <3>1 DEF Before
    <3>3. QED BY <3>2 DEF Bits
  <2>5. QED BY <2>3, <2>4
<1>2. QED BY Invariance, <1>1, PTL

\* No entry of AFL up to afl_min_id was passed over.
THEOREM ImportsJudged == Spec => []ImportedJudged
<1>1. QsymInv => ImportedJudged
  BY DEF QsymInv, Imported, Judged, ImportedJudged
<1>2. QED BY Invariance, <1>1, PTL

-------------------------------------------------------------------------------
(* The dictionary implements the work list.                                    *)

LEMMA StepImplements ==
  ASSUME QsymInv, [Next]_vars
  PROVE  [List!WLNext]_(List!wlVars)
<1> USE DEF List!wlVars
<1>1. /\ Dictionary /\ Len(queueDir) \in Nat
      /\ inputs \in [DOMAIN inputs -> Nat]
  BY DEF QsymInv, TypeOK, TypeRunner
<1>2. ASSUME UNCHANGED <<inputs, ran>>, pc # "done", pc' # "done"
      PROVE  UNCHANGED List!wlVars
  BY <1>2
<1>3. CASE OpenPipe \/ Boot
  BY <1>2, <1>3 DEF OpenPipe, Boot, queue
<1>4. CASE CopyFile \/ Request \/ Await
  BY <1>2, <1>4 DEF CopyFile, Request, Await, queue
<1>5. CASE Verdict
  <2>1. pc = "verdict" /\ pc' = pc /\ ran' = ran
    BY <1>5 DEF Verdict
  <2>2. CASE inputs' = inputs
    BY <1>2, <2>1, <2>2
  <2>3. CASE inputs' # inputs
    <3>1. DOMAIN inputs' = DOMAIN inputs \cup {Len(queueDir)}
      BY <1>5, <2>3 DEF Verdict, Extend
    <3>2. Len(queueDir) \notin DOMAIN inputs \cup List!Taken
      <4>1. Len(queueDir) \notin Testcase
        BY <1>1 DEF Testcase
      <4>2. QED BY <1>1, <4>1 DEF Dictionary, Ran, List!Taken
    <3>3. List!Put
      BY <2>1, <3>1, <3>2 DEF List!Put
    <3>4. QED BY <3>3 DEF List!WLNext
  <2>4. QED BY <2>2, <2>3
<1>6. CASE EndAdd \/ ImportFromAfl
  BY <1>2, <1>6 DEF EndAdd, ImportFromAfl, queue
<1>7. ASSUME NEW t \in Testcase, SelectTestcase(t)
      PROVE  List!Take
  <2>1. /\ pc = "select" /\ pc' = "run" /\ ran' = Append(ran, t) /\ t \in DOMAIN inputs
        /\ inputs' = [u \in DOMAIN inputs \ {t} |-> inputs[u]]
    BY <1>7 DEF SelectTestcase, Best, Drop
  <2>2. DOMAIN inputs' = DOMAIN inputs \ {t}
    BY <2>1
  <2>3. QED BY <2>1, <2>2 DEF List!Take
<1>8. CASE SelectNone
  <2>1. /\ pc = "select" /\ pc' \in {"pick", "done"} /\ UNCHANGED <<inputs, ran>>
        /\ DOMAIN inputs = {}
    BY <1>8 DEF SelectNone, queue
  <2>2. CASE pc' = "pick"
    BY <1>2, <2>1, <2>2
  <2>3. CASE pc' = "done"
    BY <2>1, <2>3 DEF List!WLNext, List!Close
  <2>4. QED BY <2>1, <2>2, <2>3
<1>9. CASE RunTarget
  BY <1>2, <1>9 DEF RunTarget
<1>10. CASE Tracer \/ Afl
  <2>1. UNCHANGED runner
    BY <1>10 DEF Tracer, Afl, AflAdd, AflUnlink, AflRewrite
  <2>2. QED BY <2>1 DEF runner, queue
<1>11. CASE UNCHANGED vars
  BY <1>11 DEF vars, runner, queue
<1>12. QED
  BY <1>3, <1>4, <1>5, <1>6, <1>7, <1>8, <1>9, <1>10, <1>11
     DEF Next, Runner, Done, List!WLNext

\* No testcase is dropped or handed out twice, and the exploration ends when none waits.
THEOREM Implements == Spec => ImplementsWorklist
<1>1. Init => List!WLInit
  BY DEF Init, List!WLInit
<1>2. QED BY Invariance, StepImplements, <1>1, PTL DEF Spec, ImplementsWorklist, List!WLSpec
===============================================================================
