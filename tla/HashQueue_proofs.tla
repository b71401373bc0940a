--------------------------- MODULE HashQueue_proofs ----------------------------
(***************************************************************************)
(* Theorems about HashQueue, for every target, every seed directory and    *)
(* every behaviour of AFL.                                                 *)
(***************************************************************************)
EXTENDS HashQueue, FiniteSetTheorems, TLAPS

-------------------------------------------------------------------------------
(* The inductive invariant.                                                     *)

Entry == [name : Content, content : Input]

TypeQueues ==
  /\ generated \subseteq Content
  /\ curr \subseteq Entry /\ next \subseteq Entry
  /\ queueDir \in Seq(Content)
  /\ ran \in Seq(Content)
  /\ depth \in [generated -> Nat]
  /\ current \in Content /\ hash \in Content

TypeEnv ==
  /\ aflMode \in BOOLEAN
  /\ afl \in Seq(Content) /\ aflMin \in Int
  /\ rewritten \subseteq Nat /\ IsFiniteSet(rewritten)

TypeControl ==
  /\ pc \in {"add", "next", "queue", "pick", "select", "run", "done"}
  /\ phase \in {"seed", "import", "run"}
  /\ todo \in Seq(File)
  /\ pc \in {"next", "queue"} => todo # <<>> /\ ~Head(todo).name \in {"gone", "input_file"}
  /\ pc \in {"select", "run"} => phase = "import"

\* Files of AFL are looked at by an import only; the others have a content.
Files ==
  \A k \in DOMAIN todo :
    LET file == todo[k]
    IN /\ file.name = "afl" => phase = "import" /\ aflMode /\ file.id \in 0 .. Len(afl) - 1
       /\ file.name \notin {"afl", "gone", "input_file"} => file.content \in Input
       /\ phase = "import" => file.name \in {"afl", "gone"}
       /\ pc = "next" /\ k = 1 /\ file.name = "afl" => file.id = aflMin

TypeOK == TypeQueues /\ TypeEnv /\ TypeControl /\ Files

\* The hashes that wait or were run were generated, each by one file of one generation; the one
\* being added is new.
Hashes ==
  /\ Waiting \subseteq generated /\ Ran \subseteq generated
  /\ \A d, e \in curr \cup next : d.name = e.name => d = e
  /\ curr \cap next = {}
  /\ pc = "next" => hash \in generated \ (Waiting \cup Ran)

\* Entries of AFL that may have lost a hash: those it unlinked and the runner has looked at.
Spent ==
  {n \in rewritten : n <= aflMin /\ ~(pc = "next" /\ phase = "import" /\ n = Head(todo).id)}
LossesCounted ==
  /\ \A n \in 0 .. Len(afl) - 1 : afl[n + 1] = NoInput => n \in rewritten
  /\ IsFiniteSet(Lost) /\ Cardinality(Lost) <= Cardinality(Spent)

\* As long as AFL rewrites nothing, a file still has the hash it had.
ContentsKept ==
  rewritten = {} =>
    /\ QueueContentsDistinct
    /\ \A s \in DOMAIN queueDir : queueDir[s] \in generated
    /\ pc \in {"next", "queue"} =>
         /\ ContentOf(Head(todo)) = hash /\ hash \in generated
         /\ \A s \in DOMAIN queueDir : queueDir[s] # hash

\* Runs it takes to derive what was run last, and what will be run after its generation.
Last == depth[ran[Len(ran)]]
NextDepth == IF ran = <<>> THEN 0 ELSE Last + 1

\* The generations: the current one is as deep as what was run last, the next one is one deeper.
Generations ==
  /\ phase = "seed" => ran = <<>>
  /\ phase = "run" \/ pc = "run" => ran # <<>>
  /\ ran = <<>> => curr = {}
  /\ ~aflMode =>
       /\ phase = "import" => todo = <<>>
       /\ BreadthFirst
       /\ \A k \in DOMAIN ran : depth[ran[k]] <= Last
       /\ \A e \in curr : depth[e.name] = Last
       /\ \A e \in next : depth[e.name] = NextDepth
       /\ pc = "next" => depth[hash] = NextDepth

HashInv == TypeOK /\ Hashes /\ LossesCounted /\ ContentsKept /\ Generations

-------------------------------------------------------------------------------
(* Lemmas.                                                                      *)

LEMMA Todo ==
  ASSUME TypeOK, todo # <<>>
  PROVE  /\ Head(todo) \in File /\ Head(todo) = todo[1] /\ 1 \in DOMAIN todo
         /\ Tail(todo) \in Seq(File)
         /\ \A k \in DOMAIN Tail(todo) :
              k + 1 \in DOMAIN todo /\ k + 1 # 1 /\ Tail(todo)[k] = todo[k + 1]
<1>1. todo \in Seq(File)
  BY DEF TypeOK, TypeControl
<1>2. QED BY <1>1

\* What is read from a file that is not skipped is a content, and none only if AFL unlinked it.
LEMMA ContentTyped ==
  ASSUME TypeOK, LossesCounted, todo # <<>>, Head(todo).name \notin {"gone", "input_file"}
  PROVE  /\ ContentOf(Head(todo)) \in Content
         /\ ContentOf(Head(todo)) = NoInput =>
              /\ Head(todo).name = "afl" /\ phase = "import" /\ Head(todo).id \in rewritten
         /\ Head(todo).id \in Int
<1> DEFINE file == Head(todo)
<1>1. file \in File /\ file = todo[1] /\ 1 \in DOMAIN todo
  BY Todo
<1>2. /\ file.name = "afl" => phase = "import" /\ aflMode /\ file.id \in 0 .. Len(afl) - 1
      /\ file.name \notin {"afl", "gone", "input_file"} => file.content \in Input
  BY <1>1 DEF TypeOK, Files
<1>3. file.id \in Int /\ file.name \in FileName
  BY <1>1 DEF File
<1> HIDE DEF file
<1>4. CASE file.name = "afl"
  <2>1. afl \in Seq(Content) /\ file.id + 1 \in DOMAIN afl
    BY <1>2, <1>4 DEF TypeOK, TypeEnv
  <2>2. ContentOf(file) = afl[file.id + 1] /\ afl[file.id + 1] \in Content
    BY <1>4, <2>1 DEF ContentOf
  <2>3. afl[file.id + 1] = NoInput => file.id \in rewritten
    BY <1>2, <1>4 DEF LossesCounted
  <2>4. QED BY <1>2, <1>3, <1>4, <2>2, <2>3 DEF file
<1>5. CASE file.name # "afl"
  <2>1. file.content \in Input
    BY <1>2, <1>5 DEF file
  <2>2. ContentOf(file) = file.content
    BY <1>5 DEF ContentOf
  <2>3. QED BY <1>3, <2>1, <2>2, HashInputAssumption DEF file, Content
<1>6. QED BY <1>4, <1>5

\* The files that remain when the first was looked at.
LEMMA FilesTail ==
  ASSUME TypeOK, todo # <<>>, todo' = Tail(todo), UNCHANGED <<phase, env>>, pc' # "next"
  PROVE  Files'
<1>1. /\ \A k \in DOMAIN Tail(todo) : k + 1 \in DOMAIN todo /\ Tail(todo)[k] = todo[k + 1]
      /\ afl' = afl /\ phase' = phase /\ aflMode' = aflMode
  BY Todo DEF env
<1>2. QED BY <1>1 DEF TypeOK, Files

\* A step that loses no hash and forgets no entry of AFL.
LEMMA NothingLost ==
  ASSUME TypeOK, LossesCounted, Lost' \subseteq Lost, Spent \subseteq Spent', IsFiniteSet(rewritten'),
         \A n \in 0 .. Len(afl') - 1 : afl'[n + 1] = NoInput => n \in rewritten'
  PROVE  LossesCounted'
<1>1. IsFiniteSet(Lost) /\ Cardinality(Lost) <= Cardinality(Spent)
  BY DEF LossesCounted
<1>2. IsFiniteSet(Lost') /\ Cardinality(Lost') <= Cardinality(Lost)
  BY <1>1, FS_Subset
<1>3. IsFiniteSet(Spent')
  <2>1. Spent' \subseteq rewritten'
    BY DEF Spent
  <2>2. QED BY <2>1, FS_Subset
<1>4. IsFiniteSet(Spent) /\ Cardinality(Spent) <= Cardinality(Spent')
  BY <1>3, FS_Subset
<1>5. /\ Cardinality(Lost) \in Nat /\ Cardinality(Lost') \in Nat
      /\ Cardinality(Spent) \in Nat /\ Cardinality(Spent') \in Nat
  BY <1>1, <1>2, <1>3, <1>4, FS_CardinalityType
<1>6. Cardinality(Lost') <= Cardinality(Spent')
  BY <1>1, <1>2, <1>4, <1>5
<1>7. QED BY <1>2, <1>6 DEF LossesCounted

LEMMA InitInv == Init => HashInv
<1> SUFFICES ASSUME Init PROVE HashInv
  OBVIOUS
<1>1. /\ generated = {} /\ curr = {} /\ next = {} /\ queueDir = <<>> /\ ran = <<>>
      /\ current = NoInput /\ hash = NoInput /\ pc = "add" /\ phase = "seed"
      /\ afl = <<>> /\ aflMin = -1 /\ rewritten = {}
  BY DEF Init
<1>2. NoInput \in Content
  BY DEF Content
<1> DEFINE Seed == [name : FileName \ {"afl"}, id : Int, content : Input]
<1>3. todo \in Seq(Seed)
  BY HashSeedsAssumption DEF Init
<1>4. \A k \in DOMAIN todo : todo[k] \in Seed
  <2> HIDE DEF Seed
  <2>1. QED BY <1>3
<1>5. TypeQueues
  <2>1. depth \in [generated -> Nat]
    BY DEF Init
  <2>2. queueDir \in Seq(Content) /\ ran \in Seq(Content)
    BY <1>1
  <2>3. QED BY <1>1, <1>2, <2>1, <2>2 DEF TypeQueues
<1>6. TypeEnv
  <2>1. aflMode \in BOOLEAN
    BY HashBoundsAssumption DEF Init
  <2>2. IsFiniteSet(rewritten)
    BY <1>1, FS_EmptySet
  <2>3. QED BY <1>1, <2>1, <2>2 DEF TypeEnv
<1>7. TypeControl
  <2>1. \A k \in DOMAIN todo : todo[k] \in File
    BY <1>4 DEF File, Content
  <2>2. todo \in Seq(File)
    BY <1>3, <2>1
  <2>3. QED BY <1>1, <2>2 DEF TypeControl
<1>8. Files
  BY <1>1, <1>4 DEF Files
<1>9. Waiting = {} /\ Ran = {} /\ Lost = {}
  BY <1>1 DEF Waiting, Ran, Lost
<1>10. Hashes
  BY <1>1, <1>9 DEF Hashes
<1>11. LossesCounted
  <2>1. Spent = {}
    BY <1>1 DEF Spent
  <2>2. IsFiniteSet({}) /\ Cardinality({}) = 0
    BY FS_EmptySet
  <2>3. QED BY <1>1, <1>9, <2>1, <2>2 DEF LossesCounted
<1>12. ContentsKept
  BY <1>1 DEF ContentsKept, QueueContentsDistinct
<1>13. Generations
  BY <1>1 DEF Generations, BreadthFirst
<1>14. QED BY <1>5, <1>6, <1>7, <1>8, <1>10, <1>11, <1>12, <1>13 DEF HashInv, TypeOK

-------------------------------------------------------------------------------
(* add_from_dir.                                                                *)

LEMMA SkipFileInv ==
  ASSUME HashInv, SkipFile
  PROVE  HashInv'
<1>1. /\ pc = "add" /\ pc' = pc /\ todo # <<>> /\ todo' = Tail(todo)
      /\ UNCHANGED <<queues, queueDir, ran, depth, current, env, aflMin, phase, hash>>
  BY DEF SkipFile
<1>2. TypeOK /\ Hashes /\ LossesCounted /\ ContentsKept /\ Generations
  BY DEF HashInv
<1>3. TypeOK'
  BY <1>1, <1>2, Todo, FilesTail DEF TypeOK, TypeQueues, TypeEnv, TypeControl, queues, env
<1>4. Waiting' = Waiting /\ Ran' = Ran /\ Lost' = Lost
  BY <1>1 DEF Waiting, Ran, Lost, queues
<1>5. Hashes'
  BY <1>1, <1>2, <1>4 DEF Hashes, queues
<1>6. LossesCounted'
  <2>1. Spent \subseteq Spent'
    BY <1>1 DEF Spent, env
  <2>2. QED BY <1>1, <1>2, <1>4, <2>1, NothingLost DEF env, LossesCounted, TypeOK, TypeEnv
<1>7. ContentsKept'
  BY <1>1, <1>2 DEF ContentsKept, QueueContentsDistinct, queues, env
<1>8. Generations'
  <2>1. BreadthFirst' = BreadthFirst /\ Last' = Last /\ NextDepth' = NextDepth
    BY <1>1 DEF BreadthFirst, Last, NextDepth, env
  <2>2. todo = <<>> => todo' = <<>>
    BY <1>1
  <2>3. ~aflMode => ~(phase = "import")
    BY <1>1, <1>2 DEF Generations
  <2>4. QED BY <1>1, <1>2, <2>1, <2>3 DEF Generations, queues, env
<1>9. QED BY <1>3, <1>5, <1>6, <1>7, <1>8 DEF HashInv

LEMMA HashFileInv ==
  ASSUME HashInv, HashFile
  PROVE  HashInv'
<1> DEFINE file == Head(todo)
           h == ContentOf(file)
<1>1. /\ pc = "add" /\ todo # <<>> /\ ~Skipped(file)
      /\ aflMin' = IF file.name = "afl" THEN file.id ELSE aflMin
      /\ UNCHANGED <<processed, curr, next, queueDir, ran, current, env, phase>>
  BY DEF HashFile
<1>2. TypeOK /\ Hashes /\ LossesCounted /\ ContentsKept /\ Generations
  BY DEF HashInv
<1>3. /\ file.name \notin {"gone", "input_file"}
      /\ file.name = "afl" => ~(file.id <= aflMin)
  BY <1>1 DEF Skipped
<1>4. file = todo[1] /\ 1 \in DOMAIN todo /\ file.id \in Int /\ h \in Content
  BY <1>1, <1>2, <1>3, Todo, ContentTyped
<1>5. aflMin \in Int /\ aflMin' \in Int /\ aflMin <= aflMin'
  BY <1>1, <1>2, <1>3, <1>4 DEF TypeOK, TypeEnv
<1>6. phase = "import" => file.name = "afl"
  BY <1>2, <1>3, <1>4 DEF TypeOK, Files
<1>7. ~aflMode => phase # "import"
  BY <1>1, <1>2 DEF Generations
<1>8. Waiting' = Waiting /\ Ran' = Ran
  BY <1>1 DEF Waiting, Ran
<1>9. rewritten \subseteq Nat /\ IsFiniteSet(rewritten)
  BY <1>2 DEF TypeOK, TypeEnv
<1>10. TypeEnv'
  BY <1>1, <1>2, <1>5 DEF TypeOK, TypeEnv, env
<1>11. CASE Known(h)
  <2>1. todo' = Tail(todo) /\ UNCHANGED <<generated, depth, pc, hash>>
    BY <1>1, <1>11 DEF HashFile, Known
  <2>2. TypeOK'
    <3>1. TypeQueues'
      BY <1>1, <1>2, <2>1 DEF TypeOK, TypeQueues
    <3>2. TypeControl'
      BY <1>1, <1>2, <2>1, Todo DEF TypeOK, TypeControl
    <3>3. Files'
      BY <1>1, <1>2, <2>1, FilesTail
    <3>4. QED BY <1>10, <3>1, <3>2, <3>3 DEF TypeOK
  <2>3. Hashes'
    BY <1>1, <1>2, <1>8, <2>1 DEF Hashes
  <2>4. LossesCounted'
    <3>1. Lost' = Lost
      BY <1>1, <1>8, <2>1 DEF Lost
    <3>2. Spent \subseteq Spent'
      <4>1. \A n \in rewritten : n <= aflMin => n <= aflMin'
        BY <1>5, <1>9
      <4>2. rewritten' = rewritten /\ pc' = "add"
        BY <1>1, <2>1 DEF env
      <4>3. QED BY <4>1, <4>2 DEF Spent
    <3>3. QED BY <1>1, <1>2, <1>9, <3>1, <3>2, NothingLost DEF env, LossesCounted
  <2>5. ContentsKept'
    BY <1>1, <1>2, <2>1 DEF ContentsKept, QueueContentsDistinct, env
  <2>6. Generations'
    <3>1. BreadthFirst' = BreadthFirst /\ Last' = Last /\ NextDepth' = NextDepth
      BY <1>1, <2>1 DEF BreadthFirst, Last, NextDepth, env
    <3>2. QED BY <1>1, <1>2, <1>7, <2>1, <3>1 DEF Generations, env
  <2>7. QED BY <2>2, <2>3, <2>4, <2>5, <2>6 DEF HashInv
<1>12. CASE ~Known(h)
  <2>1. /\ generated' = generated \cup {h} /\ hash' = h /\ pc' = "next" /\ UNCHANGED todo
        /\ depth' = [x \in DOMAIN depth \cup {h} |-> IF x = h THEN Depth ELSE depth[x]]
    BY <1>1, <1>12 DEF HashFile, Known
  <2>2. h \notin generated
    BY <1>12 DEF Known
  <2>3. depth \in [generated -> Nat] /\ generated \subseteq Content
    BY <1>2 DEF TypeOK, TypeQueues
  <2>4. \A k \in DOMAIN ran : ran[k] \in generated
    BY <1>2 DEF Hashes, Ran
  <2>5. ran # <<>> => Len(ran) \in DOMAIN ran
    BY <1>2 DEF TypeOK, TypeQueues
  <2>6. Depth \in Nat
    <3>1. CASE phase = "run"
      <4>1. depth[ran[Len(ran)]] \in Nat
        BY <1>2, <2>3, <2>4, <2>5, <3>1 DEF Generations
      <4>2. QED BY <3>1, <4>1 DEF Depth
    <3>2. CASE phase # "run"
      BY <3>2 DEF Depth
    <3>3. QED BY <3>1, <3>2
  <2>7. depth' \in [generated' -> Nat]
    BY <2>1, <2>3, <2>6
  <2>8. depth'[h] = Depth /\ \A x \in generated : depth'[x] = depth[x]
    BY <2>1, <2>2, <2>3
  <2>9. TypeOK'
    <3>1. TypeQueues'
      BY <1>1, <1>2, <1>4, <2>1, <2>3, <2>7 DEF TypeOK, TypeQueues
    <3>2. TypeControl'
      BY <1>1, <1>2, <1>3, <2>1 DEF TypeOK, TypeControl
    <3>3. Files'
      BY <1>1, <1>2, <1>4, <2>1 DEF TypeOK, Files, env
    <3>4. QED BY <1>10, <3>1, <3>2, <3>3 DEF TypeOK
  <2>10. Hashes'
    BY <1>1, <1>2, <1>8, <2>1, <2>2 DEF Hashes
  <2>11. LossesCounted'
    <3>1. Lost' \subseteq Lost
      BY <1>1, <1>8, <2>1 DEF Lost
    <3>2. Spent \subseteq Spent'
      <4>1. \A n \in rewritten : n <= aflMin => n <= aflMin'
        BY <1>5, <1>9
      <4>2. rewritten' = rewritten /\ phase' = phase /\ Head(todo)' = file
        BY <1>1, <2>1 DEF env
      <4>3. phase = "import" => ~(file.id <= aflMin)
        BY <1>3, <1>6
      <4>4. QED BY <4>1, <4>2, <4>3 DEF Spent
    <3>3. QED BY <1>1, <1>2, <1>9, <3>1, <3>2, NothingLost DEF env, LossesCounted
  <2>12. ContentsKept'
    <3>1. ContentOf(file)' = h
      BY <1>1, <2>1 DEF ContentOf, env
    <3>2. QED BY <1>1, <1>2, <2>1, <2>2, <3>1 DEF ContentsKept, QueueContentsDistinct, env
  <2>13. Generations'
    <3>1. \A k \in DOMAIN ran : depth'[ran'[k]] = depth[ran[k]]
      BY <1>1, <2>4, <2>8
    <3>2. Last' = Last \/ ran = <<>>
      BY <1>1, <2>5, <3>1 DEF Last
    <3>3. NextDepth' = NextDepth
      BY <1>1, <3>2 DEF NextDepth
    <3>4. ~aflMode => Depth = NextDepth
      BY <1>2, <1>7 DEF Generations, TypeOK, TypeControl, Depth, NextDepth, Last
    <3>5. ~aflMode => BreadthFirst'
      BY <1>1, <1>2, <3>1 DEF Generations, BreadthFirst
    <3>6. \A e \in curr \cup next : depth'[e.name] = depth[e.name]
      BY <1>2, <2>8 DEF Hashes, Waiting
    <3>7. ~aflMode => \A k \in DOMAIN ran' : depth'[ran'[k]] <= Last'
      <4>1. \A k \in DOMAIN ran : ran # <<>>
        BY <1>2 DEF TypeOK, TypeQueues
      <4>2. QED BY <1>1, <1>2, <3>1, <3>2, <4>1 DEF Generations
    <3>8. ~aflMode => \A e \in curr : depth'[e.name] = Last'
      BY <1>2, <3>2, <3>6 DEF Generations
    <3>9. ~aflMode => \A e \in next : depth'[e.name] = NextDepth'
      BY <1>2, <3>3, <3>6 DEF Generations
    <3>10. ~aflMode => depth'[hash'] = NextDepth'
      BY <2>1, <2>8, <3>3, <3>4
    <3>11. QED BY <1>1, <1>2, <1>7, <2>1, <3>5, <3>7, <3>8, <3>9, <3>10 DEF Generations, env
  <2>14. QED BY <2>9, <2>10, <2>11, <2>12, <2>13 DEF HashInv
<1>13. QED BY <1>11, <1>12

LEMMA CopyToNextInv ==
  ASSUME HashInv, CopyToNext
  PROVE  HashInv'
<1> DEFINE file == Head(todo)
           h == ContentOf(file)
<1>1. /\ pc = "next" /\ pc' = "queue"
      /\ next' = IF h = NoInput THEN next ELSE next \cup {[name |-> hash, content |-> h]}
      /\ UNCHANGED <<generated, processed, curr, queueDir, ran, depth, current, env, aflMin, phase,
                     todo, hash>>
  BY DEF CopyToNext
<1>2. TypeOK /\ Hashes /\ LossesCounted /\ ContentsKept /\ Generations
  BY DEF HashInv
<1>3. todo # <<>> /\ file.name \notin {"gone", "input_file"}
  BY <1>1, <1>2 DEF TypeOK, TypeControl
<1>4. /\ file = todo[1] /\ 1 \in DOMAIN todo /\ file.id \in Int /\ h \in Content
      /\ h = NoInput => file.name = "afl" /\ phase = "import" /\ file.id \in rewritten
  BY <1>2, <1>3, Todo, ContentTyped
<1>5. hash \in generated \ (Waiting \cup Ran) /\ hash \in Content
  BY <1>1, <1>2 DEF Hashes, TypeOK, TypeQueues
<1>6. Ran' = Ran
  BY <1>1 DEF Ran
<1>7. rewritten \subseteq Nat /\ IsFiniteSet(rewritten) /\ aflMin \in Int
  BY <1>2 DEF TypeOK, TypeEnv
<1>8. h # NoInput => [name |-> hash, content |-> h] \in Entry
  BY <1>4, <1>5 DEF Entry, Content
<1>9. TypeOK'
  <2>1. TypeQueues'
    BY <1>1, <1>2, <1>8 DEF TypeOK, TypeQueues
  <2>2. TypeEnv' /\ TypeControl'
    BY <1>1, <1>2 DEF TypeOK, TypeEnv, TypeControl, env
  <2>3. Files'
    BY <1>1, <1>2 DEF TypeOK, Files, env
  <2>4. QED BY <2>1, <2>2, <2>3 DEF TypeOK
<1>10. Waiting' = IF h = NoInput THEN Waiting ELSE Waiting \cup {hash}
  <2>1. CASE h = NoInput
    BY <1>1, <2>1 DEF Waiting
  <2>2. CASE h # NoInput
    <3> DEFINE entry == [name |-> hash, content |-> h]
    <3>1. entry.name = hash
      OBVIOUS
    <3> HIDE DEF entry
    <3>2. curr' \cup next' = (curr \cup next) \cup {entry}
      BY <1>1, <2>2 DEF entry
    <3>3. QED BY <2>2, <3>1, <3>2 DEF Waiting
  <2>3. QED BY <2>1, <2>2
<1>11. Hashes'
  <2>1. \A e \in curr \cup next : e.name # hash
    BY <1>5 DEF Waiting
  <2>2. \A d, e \in curr' \cup next' : d.name = e.name => d = e
    BY <1>1, <1>2, <2>1 DEF Hashes
  <2>3. curr' \cap next' = {}
    <3>1. PICK entry : entry = [name |-> hash, content |-> h]
      OBVIOUS
    <3>2. entry \notin curr
      BY <2>1, <3>1
    <3>3. next' \subseteq next \cup {entry} /\ curr' = curr
      BY <1>1, <3>1
    <3>4. QED BY <1>2, <3>2, <3>3 DEF Hashes
  <2>4. QED BY <1>1, <1>2, <1>5, <1>6, <1>10, <2>2, <2>3 DEF Hashes
<1>12. LossesCounted'
  <2>1. CASE h # NoInput
    <3>1. Lost' \subseteq Lost
      BY <1>1, <1>6, <1>10, <2>1 DEF Lost
    <3>2. Spent \subseteq Spent'
      BY <1>1 DEF Spent, env
    <3>3. QED BY <1>1, <1>2, <1>7, <3>1, <3>2, NothingLost DEF env, LossesCounted
  <2>2. CASE h = NoInput
    <3>1. Lost' = Lost \cup {hash} /\ hash \notin Lost
      BY <1>1, <1>5, <1>6, <1>10, <2>2 DEF Lost
    <3>2. file.id = aflMin
      BY <1>1, <1>2, <1>4, <2>2 DEF TypeOK, Files
    <3>3. Spent' = Spent \cup {file.id} /\ file.id \notin Spent
      BY <1>1, <1>4, <1>7, <2>2, <3>2 DEF Spent, env
    <3>4. IsFiniteSet(Lost) /\ IsFiniteSet(Spent) /\ Cardinality(Lost) <= Cardinality(Spent)
      <4>1. Spent \subseteq rewritten
        BY DEF Spent
      <4>2. QED BY <1>2, <1>7, <4>1, FS_Subset DEF LossesCounted
    <3>5. /\ IsFiniteSet(Lost') /\ Cardinality(Lost') = Cardinality(Lost) + 1
          /\ Cardinality(Spent') = Cardinality(Spent) + 1
      BY <3>1, <3>3, <3>4, FS_AddElement
    <3>6. Cardinality(Lost) \in Nat /\ Cardinality(Spent) \in Nat
      BY <3>4, FS_CardinalityType
    <3>7. Cardinality(Lost') <= Cardinality(Spent')
      BY <3>4, <3>5, <3>6
    <3>8. QED BY <1>1, <1>2, <3>5, <3>7 DEF LossesCounted, env
  <2>3. QED BY <2>1, <2>2
<1>13. ContentsKept'
  BY <1>1, <1>2 DEF ContentsKept, QueueContentsDistinct, ContentOf, env
<1>14. Generations'
  <2>1. BreadthFirst' = BreadthFirst /\ Last' = Last /\ NextDepth' = NextDepth
    BY <1>1 DEF BreadthFirst, Last, NextDepth, env
  <2>2. ~aflMode => \A e \in next' : depth[e.name] = NextDepth
    BY <1>1, <1>2 DEF Generations
  <2>3. QED BY <1>1, <1>2, <2>1, <2>2 DEF Generations, env
<1>15. QED BY <1>9, <1>11, <1>12, <1>13, <1>14 DEF HashInv

LEMMA CopyToQueueInv ==
  ASSUME HashInv, CopyToQueue
  PROVE  HashInv'
<1> DEFINE file == Head(todo)
           h == ContentOf(file)
<1>1. /\ pc = "queue" /\ pc' = "add" /\ hash' = NoInput
      /\ queueDir' = Append(queueDir, h) /\ todo' = Tail(todo)
      /\ UNCHANGED <<queues, ran, depth, current, env, aflMin, phase>>
  BY DEF CopyToQueue
<1>2. TypeOK /\ Hashes /\ LossesCounted /\ ContentsKept /\ Generations
  BY DEF HashInv
<1>3. todo # <<>> /\ file.name \notin {"gone", "input_file"}
  BY <1>1, <1>2 DEF TypeOK, TypeControl
<1>4. h \in Content /\ NoInput \in Content
  BY <1>2, <1>3, ContentTyped DEF Content
<1>5. queueDir \in Seq(Content)
  BY <1>2 DEF TypeOK, TypeQueues
<1> HIDE DEF h
<1>6. /\ queueDir' \in Seq(Content) /\ DOMAIN queueDir' = DOMAIN queueDir \cup {Len(queueDir) + 1}
      /\ queueDir'[Len(queueDir) + 1] = h
      /\ \A s \in DOMAIN queueDir : queueDir'[s] = queueDir[s]
  BY <1>1, <1>4, <1>5
<1>7. TypeOK'
  <2>1. TypeQueues'
    BY <1>1, <1>2, <1>4, <1>6 DEF TypeOK, TypeQueues, queues
  <2>2. TypeEnv' /\ TypeControl'
    BY <1>1, <1>2, <1>3, Todo DEF TypeOK, TypeEnv, TypeControl, env
  <2>3. Files'
    BY <1>1, <1>2, <1>3, FilesTail
  <2>4. QED BY <2>1, <2>2, <2>3 DEF TypeOK
<1>8. Waiting' = Waiting /\ Ran' = Ran /\ Lost' = Lost
  BY <1>1 DEF Waiting, Ran, Lost, queues
<1>9. Hashes'
  BY <1>1, <1>2, <1>8 DEF Hashes, queues
<1>10. LossesCounted'
  <2>1. Spent \subseteq Spent'
    BY <1>1 DEF Spent, env
  <2>2. QED BY <1>1, <1>2, <1>8, <2>1, NothingLost DEF env, LossesCounted, TypeOK, TypeEnv
<1>11. ContentsKept'
  <2> SUFFICES ASSUME rewritten = {}
               PROVE  /\ QueueContentsDistinct'
                      /\ \A s \in DOMAIN queueDir' : queueDir'[s] \in generated
    BY <1>1 DEF ContentsKept, queues, env
  <2>1. /\ h \in generated /\ \A s \in DOMAIN queueDir : queueDir[s] \in generated /\ queueDir[s] # h
        /\ \A s, t \in DOMAIN queueDir : queueDir[s] = queueDir[t] => s = t
    BY <1>1, <1>2 DEF ContentsKept, QueueContentsDistinct, h
  <2>2. \A s, t \in DOMAIN queueDir' : queueDir'[s] = queueDir'[t] => s = t
    BY <1>6, <2>1
  <2>3. QED BY <1>6, <2>1, <2>2 DEF QueueContentsDistinct
<1>12. Generations'
  <2>1. BreadthFirst' = BreadthFirst /\ Last' = Last /\ NextDepth' = NextDepth
    BY <1>1 DEF BreadthFirst, Last, NextDepth, env
  <2>2. ~aflMode => phase # "import"
    BY <1>2, <1>3 DEF Generations
  <2>3. QED BY <1>1, <1>2, <2>1, <2>2 DEF Generations, queues, env
<1>13. QED BY <1>7, <1>9, <1>10, <1>11, <1>12 DEF HashInv

LEMMA EndAddInv ==
  ASSUME HashInv, EndAdd
  PROVE  HashInv'
<1>1. /\ pc = "add" /\ todo = <<>> /\ pc' = IF phase = "import" THEN "select" ELSE "pick"
      /\ UNCHANGED <<queues, queueDir, ran, depth, current, env, aflMin, phase, todo, hash>>
  BY DEF EndAdd
<1>2. TypeOK /\ Hashes /\ LossesCounted /\ ContentsKept /\ Generations
  BY DEF HashInv
<1>3. TypeOK'
  BY <1>1, <1>2 DEF TypeOK, TypeQueues, TypeEnv, TypeControl, Files, queues, env
<1>4. Waiting' = Waiting /\ Ran' = Ran /\ Lost' = Lost
  BY <1>1 DEF Waiting, Ran, Lost, queues
<1>5. Hashes'
  BY <1>1, <1>2, <1>4 DEF Hashes, queues
<1>6. LossesCounted'
  <2>1. Spent \subseteq Spent'
    BY <1>1 DEF Spent, env
  <2>2. QED BY <1>1, <1>2, <1>4, <2>1, NothingLost DEF env, LossesCounted, TypeOK, TypeEnv
<1>7. ContentsKept'
  BY <1>1, <1>2 DEF ContentsKept, QueueContentsDistinct, queues, env
<1>8. Generations'
  <2>1. BreadthFirst' = BreadthFirst /\ Last' = Last /\ NextDepth' = NextDepth
    BY <1>1 DEF BreadthFirst, Last, NextDepth, env
  <2>2. QED BY <1>1, <1>2, <2>1 DEF Generations, queues, env
<1>9. QED BY <1>3, <1>5, <1>6, <1>7, <1>8 DEF HashInv

-------------------------------------------------------------------------------
(* pick_testcase and the run.                                                   *)

LEMMA ImportInv ==
  ASSUME HashInv, ImportFromAfl
  PROVE  HashInv'
<1>1. /\ pc = "pick" /\ pc' = "add" /\ phase' = "import"
      /\ todo' = IF aflMode THEN AflListing ELSE <<>>
      /\ UNCHANGED <<queues, queueDir, ran, depth, current, env, aflMin, hash>>
  BY DEF ImportFromAfl
<1>2. TypeOK /\ Hashes /\ LossesCounted /\ ContentsKept /\ Generations
  BY DEF HashInv
<1>3. afl \in Seq(Content) /\ Len(afl) \in Nat
  BY <1>2 DEF TypeOK, TypeEnv
<1>4. /\ todo' \in Seq(File)
      /\ \A k \in DOMAIN todo' :
           /\ todo'[k].name \in {"afl", "gone"}
           /\ aflMode /\ todo'[k].id \in 0 .. Len(afl) - 1
  <2>1. CASE aflMode
    <3>1. \A n \in 1 .. Len(afl) :
            /\ AflListing[n] = [name |-> IF afl[n] = NoInput THEN "gone" ELSE "afl", id |-> n - 1,
                                content |-> NoInput]
            /\ n - 1 \in 0 .. Len(afl) - 1
      BY <1>3 DEF AflListing
    <3>2. \A n \in 1 .. Len(afl) :
            /\ AflListing[n].name \in {"afl", "gone"} /\ AflListing[n].id \in 0 .. Len(afl) - 1
            /\ AflListing[n] \in File
      <4> SUFFICES ASSUME NEW n \in 1 .. Len(afl)
                   PROVE  /\ AflListing[n].name \in {"afl", "gone"}
                          /\ AflListing[n].id \in 0 .. Len(afl) - 1 /\ AflListing[n] \in File
        OBVIOUS
      <4>1. n - 1 \in 0 .. Len(afl) - 1 /\ n - 1 \in Int
        BY <1>3
      <4>2. PICK name \in {"afl", "gone"} :
              AflListing[n] = [name |-> name, id |-> n - 1, content |-> NoInput]
        BY <3>1
      <4>3. name \in FileName /\ NoInput \in Content
        BY DEF FileName, Content
      <4>4. QED BY <4>1, <4>2, <4>3 DEF File
    <3>3. DOMAIN AflListing = 1 .. Len(afl) /\ AflListing = [n \in 1 .. Len(afl) |-> AflListing[n]]
      BY DEF AflListing
    <3>4. AflListing \in Seq(File)
      <4> DEFINE f == AflListing
      <4> HIDE DEF f
      <4>1. f \in [1 .. Len(afl) -> File]
        BY <3>2, <3>3 DEF f
      <4>2. f \in Seq(File)
        BY <1>3, <4>1
      <4>3. QED BY <4>2 DEF f
    <3>5. QED BY <1>1, <2>1, <3>2, <3>3, <3>4
  <2>2. CASE ~aflMode
    BY <1>1, <2>2
  <2>3. QED BY <2>1, <2>2
<1>5. TypeOK'
  <2>1. TypeQueues' /\ TypeEnv'
    BY <1>1, <1>2 DEF TypeOK, TypeQueues, TypeEnv, queues, env
  <2>2. TypeControl'
    BY <1>1, <1>4 DEF TypeControl
  <2>3. Files'
    BY <1>1, <1>4 DEF Files, env
  <2>4. QED BY <2>1, <2>2, <2>3 DEF TypeOK
<1>6. Waiting' = Waiting /\ Ran' = Ran /\ Lost' = Lost
  BY <1>1 DEF Waiting, Ran, Lost, queues
<1>7. Hashes'
  BY <1>1, <1>2, <1>6 DEF Hashes, queues
<1>8. LossesCounted'
  <2>1. Spent \subseteq Spent'
    BY <1>1 DEF Spent, env
  <2>2. QED BY <1>1, <1>2, <1>6, <2>1, NothingLost DEF env, LossesCounted, TypeOK, TypeEnv
<1>9. ContentsKept'
  BY <1>1, <1>2 DEF ContentsKept, QueueContentsDistinct, queues, env
<1>10. Generations'
  <2>1. BreadthFirst' = BreadthFirst /\ Last' = Last /\ NextDepth' = NextDepth
    BY <1>1 DEF BreadthFirst, Last, NextDepth, env
  <2>2. QED BY <1>1, <1>2, <2>1 DEF Generations, queues, env
<1>11. QED BY <1>5, <1>7, <1>8, <1>9, <1>10 DEF HashInv

\* What taking an entry does to the two generations.
LEMMA Selected ==
  ASSUME Hashes, NEW e \in Generation, SelectTestcase(e)
  PROVE  /\ e \in curr \cup next /\ e.name \in Waiting
         /\ curr' \cup next' = (curr \cup next) \ {e}
         /\ curr' \cap next' = {}
         /\ Waiting' = Waiting \ {e.name}
<1>1. /\ curr' = Generation \ {e} /\ next' = IF curr = {} THEN {} ELSE next
  BY DEF SelectTestcase
<1>2. e \in curr \cup next
  BY DEF Generation
<1>3. curr' \cup next' = (curr \cup next) \ {e} /\ curr' \cap next' = {}
  BY <1>1 DEF Generation, Hashes
<1>4. \A d \in curr \cup next : d.name = e.name => d = e
  BY <1>2 DEF Hashes
<1>5. QED BY <1>2, <1>3, <1>4 DEF Waiting

LEMMA SelectTestcaseInv ==
  ASSUME HashInv, NEW e \in Generation, SelectTestcase(e)
  PROVE  HashInv'
<1>1. /\ pc = "select" /\ pc' = "run" /\ ran' = Append(ran, e.name) /\ current' = e.content
      /\ curr' = Generation \ {e} /\ next' = IF curr = {} THEN {} ELSE next
      /\ UNCHANGED <<generated, queueDir, depth, env, aflMin, phase, todo, hash>>
  BY DEF SelectTestcase
<1>2. TypeOK /\ Hashes /\ LossesCounted /\ ContentsKept /\ Generations
  BY DEF HashInv
<1>3. /\ e \in curr \cup next /\ e.name \in Waiting
      /\ curr' \cup next' = (curr \cup next) \ {e} /\ curr' \cap next' = {}
      /\ Waiting' = Waiting \ {e.name}
  BY <1>2, Selected
<1>4. e \in Entry /\ e.name \in Content /\ e.content \in Content /\ e.name \in generated
  <2>1. e \in Entry
    BY <1>2, <1>3 DEF TypeOK, TypeQueues
  <2>2. QED BY <1>2, <1>3, <2>1 DEF Entry, Content, Hashes
<1>5. phase = "import" /\ ran \in Seq(Content)
  BY <1>1, <1>2 DEF TypeOK, TypeControl, TypeQueues
<1> DEFINE n == Len(ran) + 1
<1>6. /\ ran' \in Seq(Content) /\ ran' # <<>> /\ Len(ran') = n /\ DOMAIN ran' = DOMAIN ran \cup {n}
      /\ ran'[n] = e.name /\ \A k \in DOMAIN ran : ran'[k] = ran[k] /\ k < n
      /\ n \in Nat /\ DOMAIN ran \subseteq Nat
  BY <1>1, <1>4, <1>5
<1>7. Ran' = Ran \cup {e.name}
  BY <1>6 DEF Ran
<1>8. TypeOK'
  <2>1. TypeQueues'
    <3>1. curr' \subseteq Entry /\ next' \subseteq Entry
      BY <1>2, <1>3 DEF TypeOK, TypeQueues
    <3>2. QED BY <1>1, <1>2, <1>4, <1>6, <3>1 DEF TypeOK, TypeQueues
  <2>2. TypeEnv' /\ TypeControl'
    BY <1>1, <1>2, <1>5 DEF TypeOK, TypeEnv, TypeControl, env
  <2>3. Files'
    BY <1>1, <1>2 DEF TypeOK, Files, env
  <2>4. QED BY <2>1, <2>2, <2>3 DEF TypeOK
<1>9. Hashes'
  BY <1>1, <1>2, <1>3, <1>4, <1>7 DEF Hashes
<1>10. LossesCounted'
  <2>1. Lost' \subseteq Lost
    BY <1>1, <1>3, <1>7 DEF Lost
  <2>2. Spent \subseteq Spent'
    BY <1>1 DEF Spent, env
  <2>3. QED BY <1>1, <1>2, <2>1, <2>2, NothingLost DEF env, LossesCounted, TypeOK, TypeEnv
<1>11. ContentsKept'
  BY <1>1, <1>2 DEF ContentsKept, QueueContentsDistinct, env
<1>12. Generations'
  <2>1. ~aflMode =>
          /\ phase = "import" => todo = <<>>
          /\ BreadthFirst
          /\ \A k \in DOMAIN ran : depth[ran[k]] <= Last
          /\ \A d \in curr : depth[d.name] = Last
          /\ \A d \in next : depth[d.name] = NextDepth
    BY <1>2 DEF Generations
  <2>2. ran = <<>> => curr = {}
    BY <1>2 DEF Generations
  <2>3. depth \in [generated -> Nat] /\ \A k \in DOMAIN ran : ran[k] \in generated
    BY <1>2 DEF TypeOK, TypeQueues, Hashes, Ran
  <2>4. ran # <<>> => Last \in Nat /\ Last <= NextDepth /\ NextDepth = Last + 1
    <3>1. ran # <<>> => Len(ran) \in DOMAIN ran
      BY <1>5
    <3>2. QED BY <2>3, <3>1 DEF Last, NextDepth
  <2>5. Last' = depth[e.name] /\ Last' \in Nat
    BY <1>1, <1>4, <1>6, <2>3 DEF Last
  <2>6. ~aflMode => Last' = IF curr = {} THEN NextDepth ELSE Last
    BY <2>1, <2>5 DEF Generation
  <2>7. NextDepth' = Last' + 1
    BY <1>6 DEF NextDepth
  <2>8. ~aflMode => \A k \in DOMAIN ran : depth[ran[k]] <= Last'
    <3>1. \A k \in DOMAIN ran : ran # <<>> /\ depth[ran[k]] \in Nat
      BY <1>5, <2>3
    <3>2. QED BY <2>1, <2>4, <2>5, <2>6, <3>1
  <2>9. ~aflMode => \A k \in DOMAIN ran' : depth'[ran'[k]] <= Last'
    BY <1>1, <1>6, <2>5, <2>8
  <2>10. ~aflMode => BreadthFirst'
    <3> SUFFICES ASSUME ~aflMode, NEW k \in DOMAIN ran', NEW m \in DOMAIN ran', k < m
                 PROVE  depth[ran'[k]] <= depth[ran'[m]]
      BY <1>1 DEF BreadthFirst, env
    <3>1. k \in DOMAIN ran
      BY <1>6
    <3>2. CASE m = n
      BY <1>6, <2>5, <2>8, <3>1, <3>2
    <3>3. CASE m \in DOMAIN ran
      BY <1>6, <2>1, <3>1, <3>3 DEF BreadthFirst
    <3>4. QED BY <1>6, <3>2, <3>3
  <2>11. ~aflMode => \A d \in curr' : depth[d.name] = Last'
    BY <1>1, <2>1, <2>6 DEF Generation
  <2>12. ~aflMode => \A d \in next' : depth[d.name] = NextDepth'
    <3>1. curr # {} => ran # <<>>
      BY <2>2
    <3>2. QED BY <1>1, <2>1, <2>4, <2>6, <2>7, <3>1
  <2>13. QED BY <1>1, <1>5, <1>6, <2>1, <2>9, <2>10, <2>11, <2>12 DEF Generations, env
<1>13. QED BY <1>8, <1>9, <1>10, <1>11, <1>12 DEF HashInv

LEMMA SelectNoneInv ==
  ASSUME HashInv, SelectNone
  PROVE  HashInv'
<1>1. /\ pc = "select" /\ pc' = IF aflMode /\ ran # <<>> THEN "pick" ELSE "done"
      /\ UNCHANGED <<queues, queueDir, ran, depth, current, env, aflMin, phase, todo, hash>>
  BY DEF SelectNone
<1>2. TypeOK /\ Hashes /\ LossesCounted /\ ContentsKept /\ Generations
  BY DEF HashInv
<1>3. TypeOK'
  BY <1>1, <1>2 DEF TypeOK, TypeQueues, TypeEnv, TypeControl, Files, queues, env
<1>4. Waiting' = Waiting /\ Ran' = Ran /\ Lost' = Lost
  BY <1>1 DEF Waiting, Ran, Lost, queues
<1>5. Hashes'
  BY <1>1, <1>2, <1>4 DEF Hashes, queues
<1>6. LossesCounted'
  <2>1. Spent \subseteq Spent'
    BY <1>1 DEF Spent, env
  <2>2. QED BY <1>1, <1>2, <1>4, <2>1, NothingLost DEF env, LossesCounted, TypeOK, TypeEnv
<1>7. ContentsKept'
  BY <1>1, <1>2 DEF ContentsKept, QueueContentsDistinct, queues, env
<1>8. Generations'
  <2>1. BreadthFirst' = BreadthFirst /\ Last' = Last /\ NextDepth' = NextDepth
    BY <1>1 DEF BreadthFirst, Last, NextDepth, env
  <2>2. QED BY <1>1, <1>2, <2>1 DEF Generations, queues, env
<1>9. QED BY <1>3, <1>5, <1>6, <1>7, <1>8 DEF HashInv

LEMMA RunTargetInv ==
  ASSUME HashInv, RunTarget
  PROVE  HashInv'
<1>1. PICK out \in Outputs(current) :
        todo' = <<[name |-> "input_file", id |-> -1, content |-> current]>> \o out
  BY DEF RunTarget
<1>2. /\ pc = "run" /\ pc' = "add" /\ phase' = "run"
      /\ UNCHANGED <<queues, queueDir, ran, depth, current, env, aflMin, hash>>
  BY DEF RunTarget
<1>3. TypeOK /\ Hashes /\ LossesCounted /\ ContentsKept /\ Generations
  BY DEF HashInv
<1> DEFINE Testcase == [name : {"testcase"}, id : {-1}, content : Generates[current]]
           Own == [name : {"input_file"}, id : {-1}, content : Content]
<1>4. current \in Content /\ Generates[current] \subseteq Input
  BY <1>3, HashGeneratesAssumption DEF TypeOK, TypeQueues
<1>5. out \in Seq(Testcase)
  <2> HIDE DEF Testcase
  <2>1. PICK n \in 0 .. MaxOutputs : out \in [1 .. n -> Testcase]
    BY DEF Outputs, Testcase
  <2>2. n \in Nat
    BY HashBoundsAssumption
  <2>3. QED BY <2>1, <2>2
<1>6. [name |-> "input_file", id |-> -1, content |-> current] \in Own
  BY <1>4
<1>7. /\ \A f \in Testcase \cup Own : f \in File
      /\ \A f \in Testcase \cup Own : f.name \in {"testcase", "input_file"}
      /\ \A f \in Testcase \cup Own : f.name = "testcase" => f.content \in Input
  BY <1>4 DEF File, FileName, Content
<1> HIDE DEF Testcase, Own
<1>8. todo' \in Seq(Testcase \cup Own)
  <2>1. <<[name |-> "input_file", id |-> -1, content |-> current]>> \in Seq(Testcase \cup Own)
    BY <1>6
  <2>2. out \in Seq(Testcase \cup Own)
    BY <1>5
  <2> DEFINE q == <<[name |-> "input_file", id |-> -1, content |-> current]>>
  <2> HIDE DEF q
  <2>3. q \o out \in Seq(Testcase \cup Own)
    BY <2>1, <2>2 DEF q
  <2>4. QED BY <1>1, <2>3 DEF q
<1>9. \A k \in DOMAIN todo' : todo'[k] \in Testcase \cup Own
  BY <1>8
<1>10. todo' \in Seq(File)
  <2>1. Testcase \cup Own \subseteq File
    BY <1>7
  <2>2. QED BY <1>8, <2>1
<1>11. TypeOK'
  <2>1. TypeQueues' /\ TypeEnv'
    BY <1>2, <1>3 DEF TypeOK, TypeQueues, TypeEnv, queues, env
  <2>2. TypeControl'
    BY <1>2, <1>10 DEF TypeControl
  <2>3. Files'
    BY <1>2, <1>7, <1>9 DEF Files
  <2>4. QED BY <2>1, <2>2, <2>3 DEF TypeOK
<1>12. Waiting' = Waiting /\ Ran' = Ran /\ Lost' = Lost
  BY <1>2 DEF Waiting, Ran, Lost, queues
<1>13. Hashes'
  BY <1>2, <1>3, <1>12 DEF Hashes, queues
<1>14. LossesCounted'
  <2>1. Spent \subseteq Spent'
    BY <1>2 DEF Spent, env
  <2>2. QED BY <1>2, <1>3, <1>12, <2>1, NothingLost DEF env, LossesCounted, TypeOK, TypeEnv
<1>15. ContentsKept'
  BY <1>2, <1>3 DEF ContentsKept, QueueContentsDistinct, queues, env
<1>16. Generations'
  <2>1. BreadthFirst' = BreadthFirst /\ Last' = Last /\ NextDepth' = NextDepth
    BY <1>2 DEF BreadthFirst, Last, NextDepth, env
  <2>2. QED BY <1>2, <1>3, <2>1 DEF Generations, queues, env
<1>17. QED BY <1>11, <1>13, <1>14, <1>15, <1>16 DEF HashInv

-------------------------------------------------------------------------------
(* AFL.                                                                         *)

\* Only AFL moves: nothing but its queue is different, and no entry of it goes away.
AflMoves ==
  /\ UNCHANGED <<runner, aflMode>>
  /\ afl' \in Seq(Content) /\ Len(afl) <= Len(afl')
  /\ rewritten \subseteq rewritten' /\ rewritten' \subseteq Nat /\ IsFiniteSet(rewritten')
  /\ \A n \in 0 .. Len(afl') - 1 : afl'[n + 1] = NoInput => n \in rewritten'
  /\ rewritten' = {} => \A n \in 0 .. Len(afl) - 1 : afl'[n + 1] = afl[n + 1]

LEMMA AflMovesInv ==
  ASSUME HashInv, AflMoves
  PROVE  HashInv'
<1>1. /\ UNCHANGED <<queues, queueDir, ran, depth, current, aflMin, pc, phase, todo, hash, aflMode>>
      /\ rewritten \subseteq rewritten' /\ IsFiniteSet(rewritten')
  BY DEF AflMoves, runner
<1>2. TypeOK /\ Hashes /\ LossesCounted /\ ContentsKept /\ Generations
  BY DEF HashInv
<1>3. TypeOK'
  <2>1. TypeQueues' /\ TypeControl'
    BY <1>1, <1>2 DEF TypeOK, TypeQueues, TypeControl, queues
  <2>2. TypeEnv'
    BY <1>1, <1>2 DEF TypeOK, TypeEnv, AflMoves
  <2>3. Files'
    <3>1. 0 .. Len(afl) - 1 \subseteq 0 .. Len(afl') - 1
      BY <1>2 DEF TypeOK, TypeEnv, AflMoves
    <3>2. QED BY <1>1, <1>2, <3>1 DEF TypeOK, Files
  <2>4. QED BY <2>1, <2>2, <2>3 DEF TypeOK
<1>4. Waiting' = Waiting /\ Ran' = Ran /\ Lost' = Lost
  BY <1>1 DEF Waiting, Ran, Lost, queues
<1>5. Hashes'
  BY <1>1, <1>2, <1>4 DEF Hashes, queues
<1>6. LossesCounted'
  <2>1. Spent \subseteq Spent'
    BY <1>1 DEF Spent
  <2>2. \A n \in 0 .. Len(afl') - 1 : afl'[n + 1] = NoInput => n \in rewritten'
    BY DEF AflMoves
  <2>3. QED BY <1>1, <1>2, <1>4, <2>1, <2>2, NothingLost
<1>7. ContentsKept'
  <2> SUFFICES ASSUME rewritten' = {}
               PROVE  ContentsKept'
    BY DEF ContentsKept
  <2>1. rewritten = {}
    BY <1>1
  <2>2. pc \in {"next", "queue"} => ContentOf(Head(todo))' = ContentOf(Head(todo))
    <3> SUFFICES ASSUME pc \in {"next", "queue"}
                 PROVE  ContentOf(Head(todo))' = ContentOf(Head(todo))
      OBVIOUS
    <3> DEFINE file == Head(todo)
    <3>1. todo # <<>>
      BY <1>2 DEF TypeOK, TypeControl
    <3>2. file.name = "afl" => file.id \in 0 .. Len(afl) - 1
      BY <1>2, <3>1, Todo DEF TypeOK, Files
    <3>3. file.name = "afl" => afl'[file.id + 1] = afl[file.id + 1]
      BY <3>2 DEF AflMoves
    <3>4. QED BY <1>1, <3>3 DEF ContentOf
  <2>3. QED BY <1>1, <1>2, <2>1, <2>2 DEF ContentsKept, QueueContentsDistinct, queues
<1>8. Generations'
  <2>1. BreadthFirst' = BreadthFirst /\ Last' = Last /\ NextDepth' = NextDepth
    BY <1>1 DEF BreadthFirst, Last, NextDepth
  <2>2. QED BY <1>1, <1>2, <2>1 DEF Generations, queues
<1>9. QED BY <1>3, <1>5, <1>6, <1>7, <1>8 DEF HashInv

LEMMA AflInv ==
  ASSUME HashInv, Afl
  PROVE  HashInv'
<1>1. /\ afl \in Seq(Content) /\ Len(afl) \in Nat
      /\ rewritten \subseteq Nat /\ IsFiniteSet(rewritten)
      /\ \A n \in 0 .. Len(afl) - 1 : afl[n + 1] = NoInput => n \in rewritten
  BY DEF HashInv, TypeOK, TypeEnv, LossesCounted
<1>2. NoInput \in Content /\ Input \subseteq Content /\ \A i \in Input : i # NoInput
  BY HashInputAssumption DEF Content
<1>3. CASE AflAdd
  <2>1. PICK i \in Input : afl' = Append(afl, i)
    BY <1>3 DEF AflAdd
  <2>2. UNCHANGED <<runner, aflMode, rewritten>>
    BY <1>3 DEF AflAdd
  <2>3. /\ afl' \in Seq(Content) /\ Len(afl') = Len(afl) + 1 /\ afl'[Len(afl) + 1] = i
        /\ \A n \in 0 .. Len(afl) - 1 : afl'[n + 1] = afl[n + 1]
    BY <1>1, <1>2, <2>1
  <2>4. \A n \in 0 .. Len(afl') - 1 : afl'[n + 1] = NoInput => n \in rewritten'
    <3>1. \A n \in 0 .. Len(afl') - 1 : n = Len(afl) \/ n \in 0 .. Len(afl) - 1
      BY <1>1, <2>3
    <3>2. QED BY <1>1, <1>2, <2>2, <2>3, <3>1
  <2>5. AflMoves
    BY <1>1, <2>2, <2>3, <2>4 DEF AflMoves
  <2>6. QED BY <2>5, AflMovesInv
<1>4. ASSUME NEW n \in 0 .. Len(afl) - 1, AflUnlink(n) \/ AflRewrite(n)
      PROVE  HashInv'
  <2>1. n \in Nat /\ n + 1 \in DOMAIN afl
    BY <1>1
  <2>2. PICK i \in Content :
          /\ afl' = [afl EXCEPT ![n + 1] = i] /\ n \in rewritten'
          /\ rewritten' \in {rewritten, rewritten \cup {n}}
    <3>1. CASE AflUnlink(n)
      BY <1>2, <3>1 DEF AflUnlink
    <3>2. CASE AflRewrite(n)
      BY <1>1, <1>2, <3>2 DEF AflRewrite
    <3>3. QED BY <1>4, <3>1, <3>2
  <2>3. UNCHANGED <<runner, aflMode>>
    BY <1>4 DEF AflUnlink, AflRewrite
  <2>4. /\ afl' \in Seq(Content) /\ Len(afl') = Len(afl)
        /\ \A m \in 0 .. Len(afl) - 1 : m # n => afl'[m + 1] = afl[m + 1]
    <3>1. afl' \in Seq(Content) /\ Len(afl') = Len(afl)
      BY <1>1, <2>1, <2>2
    <3>2. \A m \in 0 .. Len(afl) - 1 : m # n => m + 1 \in DOMAIN afl /\ m + 1 # n + 1
      BY <1>1, <2>1
    <3>3. \A k \in DOMAIN afl : k # n + 1 => afl'[k] = afl[k]
      BY <1>1, <2>2
    <3>4. QED BY <3>1, <3>2, <3>3
  <2>5. IsFiniteSet(rewritten') /\ rewritten \subseteq rewritten' /\ rewritten' \subseteq Nat
    <3>1. IsFiniteSet(rewritten \cup {n})
      BY <1>1, FS_AddElement
    <3>2. QED BY <1>1, <2>1, <2>2, <3>1
  <2>6. \A m \in 0 .. Len(afl') - 1 : afl'[m + 1] = NoInput => m \in rewritten'
    BY <1>1, <2>2, <2>4, <2>5
  <2>7. AflMoves
    BY <1>1, <2>2, <2>3, <2>4, <2>5, <2>6 DEF AflMoves
  <2>8. QED BY <2>7, AflMovesInv
<1>5. QED BY <1>3, <1>4 DEF Afl

LEMMA StutterInv ==
  ASSUME HashInv, UNCHANGED vars
  PROVE  HashInv'
<1>1. UNCHANGED <<runner, aflMode, afl, rewritten>>
  BY DEF vars, runner, env
<1>2. AflMoves
  BY <1>1 DEF AflMoves, HashInv, TypeOK, TypeEnv, LossesCounted
<1>3. QED BY <1>2, AflMovesInv

LEMMA NextInv == HashInv /\ [Next]_vars => HashInv'
<1> SUFFICES ASSUME HashInv, [Next]_vars
             PROVE  HashInv'
  OBVIOUS
<1>1. CASE SkipFile
  BY <1>1, SkipFileInv
<1>2. CASE HashFile
  BY <1>2, HashFileInv
<1>3. CASE CopyToNext
  BY <1>3, CopyToNextInv
<1>4. CASE CopyToQueue
  BY <1>4, CopyToQueueInv
<1>5. CASE EndAdd
  BY <1>5, EndAddInv
<1>6. CASE ImportFromAfl
  BY <1>6, ImportInv
<1>7. ASSUME NEW e \in Generation, SelectTestcase(e)
      PROVE  HashInv'
  BY <1>7, SelectTestcaseInv
<1>8. CASE SelectNone
  BY <1>8, SelectNoneInv
<1>9. CASE RunTarget
  BY <1>9, RunTargetInv
<1>10. CASE Afl
  BY <1>10, AflInv
<1>11. CASE UNCHANGED vars
  BY <1>11, StutterInv
<1>12. QED
  BY <1>1, <1>2, <1>3, <1>4, <1>5, <1>6, <1>7, <1>8, <1>9, <1>10, <1>11 DEF Next, Runner, Done

-------------------------------------------------------------------------------
(* The theorems.                                                                *)

\* The invariant holds in every state of every run.
THEOREM Invariance == Spec => []HashInv
<1>1. QED BY InitInv, NextInv, PTL DEF Spec

\* A hash is lost only when AFL unlinked an entry between its hash and its copy, at most one
\* for each entry it unlinked.
THEOREM LossesAreAfls == Spec => []HashLostOnlyByAfl
<1>1. HashInv => HashLostOnlyByAfl
  <2> SUFFICES ASSUME HashInv PROVE HashLostOnlyByAfl
    OBVIOUS
  <2>1. /\ IsFiniteSet(Lost) /\ Cardinality(Lost) <= Cardinality(Spent) /\ IsFiniteSet(rewritten)
    BY DEF HashInv, LossesCounted, TypeOK, TypeEnv
  <2>2. Spent \subseteq rewritten
    BY DEF Spent
  <2>3. IsFiniteSet(Spent) /\ Cardinality(Spent) <= Cardinality(rewritten)
    BY <2>1, <2>2, FS_Subset
  <2>4. Cardinality(Lost) \in Nat /\ Cardinality(Spent) \in Nat /\ Cardinality(rewritten) \in Nat
    BY <2>1, <2>3, FS_CardinalityType
  <2>5. QED BY <2>1, <2>3, <2>4 DEF HashLostOnlyByAfl
<1>2. QED BY Invariance, <1>1, PTL

\* As long as AFL rewrites nothing, no two files of queue/ have the same content.
THEOREM ContentsDistinct == Spec => []QueueContentsDistinct
<1>1. HashInv => QueueContentsDistinct
  BY DEF HashInv, ContentsKept, QueueContentsDistinct
<1>2. QED BY Invariance, <1>1, PTL

\* The order in which inputs are run never goes back to an earlier generation.
THEOREM RunsBreadthFirst == Spec => []BreadthFirst
<1>1. HashInv => BreadthFirst
  BY DEF HashInv, Generations, BreadthFirst
<1>2. QED BY Invariance, <1>1, PTL

-------------------------------------------------------------------------------
(* The two generations implement the work list.                                *)

LEMMA StepImplements ==
  ASSUME HashInv, [Next]_vars
  PROVE  [List!WLNext]_(List!wlVars)
<1> USE DEF List!wlVars
<1>1. ASSUME UNCHANGED <<curr, next, ran>>, pc # "done", pc' # "done"
      PROVE  UNCHANGED List!wlVars
  BY <1>1 DEF Waiting
<1>2. CASE SkipFile
  BY <1>1, <1>2 DEF SkipFile, queues
<1>3. CASE HashFile
  BY <1>1, <1>3 DEF HashFile
<1>4. CASE CopyToNext
  <2> DEFINE h == ContentOf(Head(todo))
  <2>1. CASE h = NoInput
    BY <1>1, <1>4, <2>1 DEF CopyToNext
  <2>2. CASE h # NoInput
    <3> DEFINE entry == [name |-> hash, content |-> h]
    <3>1. entry.name = hash /\ next' = next \cup {entry}
      BY <1>4, <2>2 DEF CopyToNext
    <3>2. pc = "next" /\ pc' = "queue" /\ UNCHANGED <<curr, ran>>
      BY <1>4 DEF CopyToNext
    <3> HIDE DEF entry
    <3>3. Waiting' = Waiting \cup {hash}
      BY <3>1, <3>2 DEF Waiting
    <3>4. hash \notin Waiting \cup List!Taken
      BY <3>2 DEF HashInv, Hashes, Ran, List!Taken
    <3>5. List!Put
      BY <3>2, <3>3, <3>4 DEF List!Put
    <3>6. QED BY <3>5 DEF List!WLNext
  <2>3. QED BY <2>1, <2>2
<1>5. CASE CopyToQueue
  BY <1>1, <1>5 DEF CopyToQueue, queues
<1>6. CASE EndAdd
  BY <1>1, <1>6 DEF EndAdd, queues
<1>7. CASE ImportFromAfl
  BY <1>1, <1>7 DEF ImportFromAfl, queues
<1>8. ASSUME NEW e \in Generation, SelectTestcase(e)
      PROVE  List!Take
  <2>1. e.name \in Waiting /\ Waiting' = Waiting \ {e.name}
    BY <1>8, Selected DEF HashInv
  <2>2. pc = "select" /\ pc' = "run" /\ ran' = Append(ran, e.name)
    BY <1>8 DEF SelectTestcase
  <2>3. QED BY <2>1, <2>2 DEF List!Take
<1>9. CASE SelectNone
  <2>1. /\ pc = "select" /\ pc' \in {"pick", "done"} /\ UNCHANGED <<curr, next, ran>>
        /\ curr = {} /\ next = {}
    BY <1>9 DEF SelectNone, queues, Generation
  <2>2. Waiting = {} /\ Waiting' = Waiting
    BY <2>1 DEF Waiting
  <2>3. CASE pc' = "pick"
    BY <1>1, <2>1, <2>3
  <2>4. CASE pc' = "done"
    BY <2>1, <2>2, <2>4 DEF List!WLNext, List!Close
  <2>5. QED BY <2>1, <2>3, <2>4
<1>10. CASE RunTarget
  BY <1>1, <1>10 DEF RunTarget, queues
<1>11. CASE Afl
  <2>1. UNCHANGED runner
    BY <1>11 DEF Afl, AflAdd, AflUnlink, AflRewrite
  <2>2. UNCHANGED <<curr, next, ran, pc>>
    BY <2>1 DEF runner, queues
  <2>3. QED BY <2>2 DEF Waiting
<1>12. CASE UNCHANGED vars
  <2>1. UNCHANGED <<curr, next, ran, pc>>
    BY <1>12 DEF vars, queues
  <2>2. QED BY <2>1 DEF Waiting
<1>13. QED
  BY <1>2, <1>3, <1>4, <1>5, <1>6, <1>7, <1>8, <1>9, <1>10, <1>11, <1>12
     DEF Next, Runner, Done, List!WLNext

\* No input is dropped or handed out twice, and the exploration ends when none waits.
THEOREM Implements == Spec => ImplementsWorklist
<1>1. Init => List!WLInit
  BY DEF Init, Waiting, List!WLInit
<1>2. QED BY Invariance, StepImplements, <1>1, PTL DEF Spec, ImplementsWorklist, List!WLSpec
===============================================================================
