------------------------- MODULE SymfusionQueue_proofs -------------------------
(***************************************************************************)
(* Theorems about SymfusionQueue, for every set of programs without path   *)
(* hash collisions, every number of AFL entries and every bound.           *)
(***************************************************************************)
EXTENDS SymfusionQueue, TLAPS, FiniteSetTheorems, SequenceTheorems

USE DEF Content, Hits, Id

-------------------------------------------------------------------------------
(* Type correctness.                                                           *)

LEMMA ProgramTyped ==
  ASSUME NEW p \in Programs
  PROVE  /\ p.main \in [Content -> Hits]
         /\ p.all \in [Content -> Hits]
         /\ p.pathMain \in [Content -> Path]
         /\ p.pathAll \in [Content -> Path]
         /\ p.generates \in [Content -> SUBSET Input]
         /\ p.seeds \in Seq(File)
         /\ \A k \in DOMAIN p.seeds :
              p.seeds[k].name \notin {"afl", "gone"} /\ p.seeds[k].content \in Input
  BY ProgramsAssumption, SeedsAssumption DEF ProgramType

LEMMA InitTypeOK == Init => TypeOK
<1> SUFFICES ASSUME Init PROVE TypeOK
  OBVIOUS
<1>0. program \in Programs
  BY DEF Init
<1>1. TypeTracer
  BY <1>0 DEF Init, TypeTracer, NoReport
<1>2. TypeQueues
  BY DEF Init, TypeQueues, Testcase
<1>3. TypeFiles
  BY <1>0, ProgramTyped DEF Init, TypeFiles, Testcase
<1>4. TypeControl
  BY DEF Init, TypeControl
<1>5. QED BY <1>1, <1>2, <1>3, <1>4 DEF TypeOK

LEMMA TailTyped ==
  ASSUME TypeFiles, todo # <<>>, todo' = Tail(todo)
  PROVE  /\ todo' \in Seq(File)
         /\ \A k \in DOMAIN todo' :
              /\ todo'[k].name = "afl" => todo'[k].id \in 0 .. Len(afl) - 1
              /\ todo'[k].name \in {"testcase", "seed"} => todo'[k].content \in Input
<1>1. todo \in Seq(File)
  BY DEF TypeFiles
<1>2. todo' \in Seq(File) /\ Len(todo') = Len(todo) - 1
  BY <1>1
<1>3. \A k \in DOMAIN todo' : k + 1 \in DOMAIN todo /\ todo'[k] = todo[k + 1]
  BY <1>1, <1>2
<1>4. QED BY <1>2, <1>3 DEF TypeFiles

LEMMA HeadTyped ==
  ASSUME TypeFiles, todo # <<>>
  PROVE  /\ Head(todo) \in File
         /\ Head(todo).name = "afl" => Head(todo).id \in 0 .. Len(afl) - 1
         /\ Head(todo).name \in {"testcase", "seed"} => Head(todo).content \in Input
         /\ ContentOf(Head(todo)) \in Content
<1>1. todo \in Seq(File) /\ 1 \in DOMAIN todo /\ Head(todo) = todo[1]
  BY DEF TypeFiles
<1>2. /\ Head(todo) \in File
      /\ Head(todo).name = "afl" => Head(todo).id \in 0 .. Len(afl) - 1
      /\ Head(todo).name \in {"testcase", "seed"} => Head(todo).content \in Input
  BY <1>1 DEF TypeFiles
<1>3. CASE Head(todo).name = "afl"
  <2>1. Head(todo).id + 1 \in 1 .. Len(afl)
    BY <1>2, <1>3 DEF TypeFiles
  <2>2. QED BY <2>1, <1>2, <1>3 DEF ContentOf, TypeFiles
<1>4. CASE Head(todo).name # "afl"
  BY <1>2, <1>4 DEF ContentOf, File
<1>5. QED BY <1>2, <1>3, <1>4

LEMMA SkipFileTypeOK == TypeOK /\ SkipFile => TypeOK'
<1> SUFFICES ASSUME TypeOK, SkipFile PROVE TypeOK'
  OBVIOUS
<1> USE DEF TypeOK
<1>1. TypeTracer' /\ TypeQueues' /\ TypeControl'
  BY DEF SkipFile, TypeTracer, TypeQueues, TypeControl, tracer, queues, Testcase
<1>2. TypeFiles'
  BY TailTyped DEF SkipFile, TypeFiles, env, queues, Testcase
<1>3. QED BY <1>1, <1>2

LEMMA MergeTyped ==
  ASSUME TypeTracer, NEW i \in Content
  PROVE  /\ Merge(i) \in [main : Hits, all : Hits]
         /\ NewEdges(program.main[i], bitmap.main) \subseteq Edge
         /\ NewEdges(program.all[i], bitmap.all) \subseteq Edge
<1>1. program.main[i] \in Hits /\ program.all[i] \in Hits
  BY ProgramTyped DEF TypeTracer
<1>2. QED BY <1>1 DEF TypeTracer, Merge, NewEdges

LEMMA TraceFileTypeOK == TypeOK /\ TraceFile => TypeOK'
<1> SUFFICES ASSUME TypeOK, TraceFile PROVE TypeOK'
  OBVIOUS
<1> USE DEF TypeOK
<1> DEFINE file == Head(todo)
           input == IF ContentOf(file) = NoInput THEN tracerInput ELSE ContentOf(file)
<1>1. todo # <<>> /\ pc = "add" /\ tracerInput' = input /\ aflMin' = MinId(file)
  BY DEF TraceFile
<1>2. input \in Content
  BY <1>1, HeadTyped DEF TypeTracer
<1>3. TypeTracer'
  <2>1. bitmap' \in {bitmap, Merge(input)} /\ program' = program
    BY DEF TraceFile
  <2>2. \/ report' = report
        \/ report' = [input |-> input, main |-> NewEdges(program.main[input], bitmap.main),
                      all |-> NewEdges(program.all[input], bitmap.all)]
    BY DEF TraceFile
  <2>3. QED BY <1>1, <1>2, <2>1, <2>2, MergeTyped DEF TypeTracer
<1>4. TypeQueues'
  BY DEF TraceFile, TypeQueues, queues, Testcase
<1>5. TypeFiles'
  <2>1. aflMin' \in -1 .. Len(afl) - 1
    BY <1>1, HeadTyped DEF MinId, TypeFiles
  <2>2. todo' = todo \/ todo' = Tail(todo)
    BY DEF TraceFile
  <2>3. QED BY <1>1, <2>1, <2>2, TailTyped DEF TraceFile, TypeFiles, env, Testcase
<1>6. TypeControl'
  BY <1>1 DEF TraceFile, TypeControl, Testcase
<1>7. QED BY <1>3, <1>4, <1>5, <1>6

LEMMA ReportedTyped ==
  ASSUME TypeTracer, NEW q \in QueueName
  PROVE  Reported(q) \subseteq Id /\ IsFiniteSet(Reported(q)) /\ Fresh(q) \subseteq Reported(q)
<1>1. program.pathMain[report.input] \in Path /\ program.pathAll[report.input] \in Path
  BY ProgramTyped DEF TypeTracer
<1>2. Reported(q) \subseteq Edge \/ Reported(q) \subseteq Path
  BY <1>1 DEF Reported, TypeTracer, QueueName
<1>3. IsFiniteSet(Reported(q))
  BY <1>2, FiniteAssumption, FS_Subset
<1>4. QED BY <1>2, <1>3 DEF Fresh

LEMMA ReportedCount ==
  ASSUME TypeTracer, NEW q \in QueueName, NEW n \in {0, 1}
  PROVE  /\ Cardinality(Reported(q)) + n \in Nat
         /\ Fresh(q) # {} => Cardinality(Reported(q)) + n > 0
<1>1. IsFiniteSet(Reported(q)) /\ Fresh(q) \subseteq Reported(q)
  BY ReportedTyped
<1>2. Cardinality(Reported(q)) \in Nat
  BY <1>1, FS_CardinalityType
<1>3. Fresh(q) # {} => Cardinality(Reported(q)) # 0
  BY <1>1, FS_EmptySet
<1>4. QED BY <1>2, <1>3

\* What add enters in queue/ for the file it looks at.
Entry ==
  [content |-> ContentOf(Head(todo)), traced |-> report.input,
   source |-> IF Head(todo).name = "afl" THEN Head(todo).id ELSE -1]

LEMMA KeepTestcaseTypeOK == TypeOK /\ KeepTestcase => TypeOK'
<1> SUFFICES ASSUME TypeOK, KeepTestcase PROVE TypeOK'
  OBVIOUS
<1> USE DEF TypeOK
<1> DEFINE file == Head(todo)
           tc == Len(queueDir)
           imported == IF file.name = "afl" THEN 1 ELSE 0
<1>1. /\ pc = "keep" /\ todo # <<>> /\ todo' = Tail(todo)
      /\ queueDir' = Append(queueDir, Entry)
  BY DEF KeepTestcase, TypeControl, Entry
<1>2. tc \in Nat /\ Testcase' = 0 .. tc /\ Testcase = 0 .. tc - 1 /\ Testcase \subseteq Testcase'
      /\ tc \in Testcase'
  BY <1>1 DEF TypeFiles, Testcase
<1>3. TypeTracer'
  BY DEF KeepTestcase, TypeTracer, tracer, NoReport
<1>4. TypeQueues'
  <2>1. ids' \in [QueueName -> SUBSET (Id \X Testcase')]
    <3>1. ASSUME NEW q \in QueueName
          PROVE  ids'[q] \subseteq Id \X Testcase'
      <4>1. ids[q] \subseteq Id \X Testcase
        BY DEF TypeQueues
      <4>2. Reported(q) \subseteq Id /\ Fresh(q) \subseteq Id
        BY ReportedTyped
      <4>3. ids'[q] = ids[q] \cup
                ((IF OnlyUniqueIds(q) THEN Fresh(q) ELSE Reported(q)) \X {tc})
        BY DEF KeepTestcase
      <4>4. QED BY <4>1, <4>2, <4>3, <1>2
    <3>2. ids' = [q \in QueueName |-> ids'[q]]
      BY DEF KeepTestcase
    <3>3. QED BY <3>1, <3>2
  <2>2. processed' \in [QueueName -> SUBSET (Id \X Testcase')]
    BY <1>2 DEF KeepTestcase, TypeQueues
  <2>3. DOMAIN count' = QueueName /\ DOMAIN testcaseIds' = QueueName
    BY DEF KeepTestcase
  <2>4. ASSUME NEW q \in QueueName
        PROVE  /\ DOMAIN count'[q] \subseteq Testcase'
               /\ count'[q] \in [DOMAIN count'[q] -> Nat]
               /\ testcaseIds'[q] \in [DOMAIN count'[q] -> SUBSET Id]
    <3>1. CASE Fresh(q) = {}
      <4>1. count'[q] = count[q] /\ testcaseIds'[q] = testcaseIds[q]
        BY <3>1 DEF KeepTestcase
      <4>2. QED BY <4>1, <1>2 DEF TypeQueues
    <3>2. CASE Fresh(q) # {}
      <4>1. /\ count'[q] = Extend(count[q], tc, Cardinality(Reported(q)) + imported)
            /\ testcaseIds'[q] = Extend(testcaseIds[q], tc, Reported(q))
        BY <3>2 DEF KeepTestcase
      <4>2. Cardinality(Reported(q)) + imported \in Nat
        BY ReportedCount
      <4>3. Reported(q) \subseteq Id
        BY ReportedTyped
      <4>4. /\ DOMAIN count[q] \subseteq Testcase
            /\ count[q] \in [DOMAIN count[q] -> Nat]
            /\ testcaseIds[q] \in [DOMAIN count[q] -> SUBSET Id]
        BY DEF TypeQueues
      <4>5. DOMAIN count'[q] = DOMAIN count[q] \cup {tc}
        BY <4>1 DEF Extend
      <4>6. count'[q] \in [DOMAIN count'[q] -> Nat]
        BY <4>1, <4>2, <4>4, <4>5 DEF Extend
      <4>7. testcaseIds'[q] \in [DOMAIN count'[q] -> SUBSET Id]
        BY <4>1, <4>3, <4>4, <4>5 DEF Extend
      <4>8. QED BY <1>2, <4>4, <4>5, <4>6, <4>7
    <3>3. QED BY <3>1, <3>2
  <2>5. QED BY <2>1, <2>2, <2>3, <2>4 DEF TypeQueues
<1>5. TypeFiles'
  <2>1. Entry \in [content : Content, traced : Content, source : Int]
    BY <1>1, HeadTyped DEF TypeTracer, File, Entry
  <2>2. queueDir' \in Seq([content : Content, traced : Content, source : Int])
    BY <1>1, <2>1 DEF TypeFiles
  <2>3. ran' \in Seq(Testcase')
    BY <1>2 DEF KeepTestcase, TypeFiles
  <2>4. QED BY <1>1, <2>2, <2>3, TailTyped DEF KeepTestcase, TypeFiles, env
<1>6. TypeControl'
  BY <1>2 DEF KeepTestcase, TypeControl
<1>7. QED BY <1>3, <1>4, <1>5, <1>6

LEMMA EndAddTypeOK == TypeOK /\ EndAdd => TypeOK'
  BY DEF EndAdd, TypeOK, TypeTracer, TypeQueues, TypeFiles, TypeControl, tracer, queues, env,
         Testcase

LEMMA ImportFromAflTypeOK == TypeOK /\ ImportFromAfl => TypeOK'
<1> SUFFICES ASSUME TypeOK, ImportFromAfl PROVE TypeOK'
  OBVIOUS
<1> USE DEF TypeOK
<1>1. TypeTracer' /\ TypeQueues' /\ TypeControl'
  BY DEF ImportFromAfl, TypeTracer, TypeQueues, TypeControl, tracer, queues, Testcase
<1>2. AflListing \in Seq(File)
  BY DEF AflListing, TypeFiles, File, FileName
<1>3. \A k \in DOMAIN AflListing : /\ AflListing[k].id \in 0 .. Len(afl) - 1
                                   /\ AflListing[k].name \in {"afl", "gone"}
  BY DEF AflListing, TypeFiles
<1>4. TypeFiles'
  BY <1>2, <1>3 DEF ImportFromAfl, TypeFiles, env, Testcase
<1>5. QED BY <1>1, <1>4

LEMMA SelectTestcaseTypeOK ==
  ASSUME TypeOK, NEW t \in Testcase, SelectTestcase(t)
  PROVE  TypeOK'
<1> USE DEF TypeOK
<1>1. TypeTracer' /\ TypeControl'
  BY DEF SelectTestcase, TypeTracer, TypeControl, tracer, queues, Testcase
<1>2. MarkProcessed(t) /\ Testcase' = Testcase
  BY DEF SelectTestcase, Testcase
<1>3. TypeQueues'
  <2>1. ASSUME NEW q \in QueueName, t \in DOMAIN count[q]
        PROVE  testcaseIds[q][t] \X {t} \subseteq Id \X Testcase
    BY <2>1 DEF TypeQueues
  <2>2. ids' \in [QueueName -> SUBSET (Id \X Testcase)]
    BY <1>2, <2>1 DEF MarkProcessed, TypeQueues
  <2>3. processed' \in [QueueName -> SUBSET (Id \X Testcase)]
    BY <1>2, <2>1 DEF MarkProcessed, TypeQueues
  <2>4. ASSUME NEW q \in QueueName
        PROVE  /\ DOMAIN count'[q] = DOMAIN count[q]
               /\ count'[q] \in [DOMAIN count[q] -> Nat]
    BY <1>2 DEF MarkProcessed, TypeQueues
  <2>5. DOMAIN count' = QueueName /\ testcaseIds' = testcaseIds
    BY <1>2 DEF MarkProcessed
  <2>6. QED BY <1>2, <2>2, <2>3, <2>4, <2>5 DEF TypeQueues
<1>4. TypeFiles'
  BY <1>2 DEF SelectTestcase, TypeFiles, env
<1>5. QED BY <1>1, <1>3, <1>4

LEMMA SelectNoneTypeOK == TypeOK /\ SelectNone => TypeOK'
  BY DEF SelectNone, TypeOK, TypeTracer, TypeQueues, TypeFiles, TypeControl, tracer, queues,
         env, Testcase

\* What a run leaves in its directory is typed and holds no entry of AFL.
LEMMA RunTargetLists ==
  ASSUME TypeOK, RunTarget
  PROVE  /\ todo' \in Seq(File)
         /\ \A k \in DOMAIN todo' :
              /\ todo'[k].name # "afl"
              /\ todo'[k].name \in {"testcase", "seed"} => todo'[k].content \in Input
<1> USE DEF TypeOK
<1> DEFINE input == queueDir[current + 1].content
           copy == [name |-> "input_file", id |-> -1, content |-> input]
<1>1. PICK out \in Outputs(input) : todo' = <<copy>> \o out
  BY DEF RunTarget
<1>2. input \in Content
  <2>1. current \in 0 .. Len(queueDir) - 1
    BY DEF RunTarget, TypeControl, Testcase
  <2>2. queueDir \in Seq([content : Content, traced : Content, source : Int])
    BY DEF TypeFiles
  <2>3. queueDir[current + 1] \in [content : Content, traced : Content, source : Int]
    <3>1. Len(queueDir) \in Nat /\ current + 1 \in 1 .. Len(queueDir)
      BY <2>1, <2>2
    <3>2. QED BY <2>2, <3>1, ElementOfSeq
  <2>4. QED BY <2>3
<1>3. program.generates[input] \subseteq Input
  BY <1>2, ProgramTyped DEF TypeTracer
<1>4. PICK n \in 0 .. MaxOutputs :
        out \in [1 .. n -> [name : {"testcase"}, id : {-1}, content : program.generates[input]]]
  BY <1>1 DEF Outputs
<1>5. out \in Seq(File) /\ Len(out) = n
  <2>1. n \in Nat
    BY QueueBoundsAssumption
  <2>2. [name : {"testcase"}, id : {-1}, content : program.generates[input]] \subseteq File
    BY <1>3 DEF File, FileName
  <2>3. out \in [1 .. n -> File]
    BY <1>4, <2>2
  <2>4. QED BY <2>1, <2>3
<1>6. copy \in File
  BY <1>2 DEF File, FileName
<1>7. todo' \in Seq(File)
  BY <1>1, <1>5, <1>6
<1>8. \A k \in DOMAIN todo' :
        /\ todo'[k].name # "afl"
        /\ todo'[k].name \in {"testcase", "seed"} => todo'[k].content \in Input
  <2>1. \A k \in DOMAIN out : out[k].name = "testcase" /\ out[k].content \in Input
    BY <1>3, <1>4
  <2>2. \A k \in DOMAIN todo' : todo'[k] = copy \/ \E m \in DOMAIN out : todo'[k] = out[m]
    BY <1>1, <1>5
  <2>3. QED BY <2>1, <2>2
<1>9. QED BY <1>7, <1>8

LEMMA RunTargetTypeOK == TypeOK /\ RunTarget => TypeOK'
<1> SUFFICES ASSUME TypeOK, RunTarget PROVE TypeOK'
  OBVIOUS
<1> USE DEF TypeOK
<1>1. TypeTracer' /\ TypeQueues' /\ TypeControl'
  BY DEF RunTarget, TypeTracer, TypeQueues, TypeControl, tracer, queues, Testcase
<1>2. TypeFiles'
  BY RunTargetLists DEF RunTarget, TypeFiles, env, Testcase
<1>3. QED BY <1>1, <1>2

LEMMA AflTypeOK == TypeOK /\ Afl => TypeOK'
<1> SUFFICES ASSUME TypeOK, Afl PROVE TypeOK'
  OBVIOUS
<1> USE DEF TypeOK
<1>1. TypeTracer' /\ TypeQueues' /\ TypeControl'
  BY DEF Afl, AflAdd, AflUnlink, AflRewrite, TypeTracer, TypeQueues, TypeControl, tracer,
         queues, Testcase
<1>2. /\ afl' \in Seq(Content) /\ Len(afl') >= Len(afl)
      /\ rewritten' \subseteq 0 .. Len(afl) - 1
  <2>1. CASE AflAdd
    <3>1. PICK i \in Input : afl' = Append(afl, i)
      BY <2>1 DEF AflAdd
    <3>2. QED BY <2>1, <3>1 DEF AflAdd, TypeFiles
  <2>2. ASSUME NEW n \in 0 .. Len(afl) - 1, NEW i \in Content,
               afl' = [afl EXCEPT ![n + 1] = i]
        PROVE  afl' \in Seq(Content) /\ Len(afl') = Len(afl)
    BY <2>2 DEF TypeFiles
  <2>3. ASSUME NEW n \in 0 .. Len(afl) - 1, AflUnlink(n)
        PROVE  /\ afl' \in Seq(Content) /\ Len(afl') = Len(afl)
               /\ rewritten' \subseteq 0 .. Len(afl) - 1
    BY <2>2, <2>3 DEF AflUnlink, TypeFiles
  <2>4. ASSUME NEW n \in 0 .. Len(afl) - 1, AflRewrite(n)
        PROVE  /\ afl' \in Seq(Content) /\ Len(afl') = Len(afl)
               /\ rewritten' \subseteq 0 .. Len(afl) - 1
    <3>1. PICK i \in Input : afl' = [afl EXCEPT ![n + 1] = i]
      BY <2>4 DEF AflRewrite
    <3>2. QED BY <2>2, <2>4, <3>1 DEF AflRewrite, TypeFiles
  <2>5. Len(afl) \in Nat
    BY DEF TypeFiles
  <2>6. QED BY <2>1, <2>3, <2>4, <2>5 DEF Afl
<1>3. UNCHANGED <<queueDir, ran, aflMin, todo>>
  BY DEF Afl, AflAdd, AflUnlink, AflRewrite
<1>4. TypeFiles'
  BY <1>2, <1>3 DEF TypeFiles, Testcase
<1>5. QED BY <1>1, <1>4

LEMMA StutterTypeOK == TypeOK /\ UNCHANGED vars => TypeOK'
  BY DEF vars, TypeOK, TypeTracer, TypeQueues, TypeFiles, TypeControl, tracer, queues, env,
         Testcase

\* Every behaviour of the exploration loop is well typed: no file is looked for that no
\* step of the runner or of AFL created, for every program and every bound.
THEOREM TypeCorrect == Spec => []TypeOK
<1>1. TypeOK /\ [Next]_vars => TypeOK'
  BY SkipFileTypeOK, TraceFileTypeOK, KeepTestcaseTypeOK, EndAddTypeOK, ImportFromAflTypeOK,
     SelectTestcaseTypeOK, SelectNoneTypeOK, RunTargetTypeOK, AflTypeOK, StutterTypeOK
     DEF Next, Runner, Done
<1>2. QED BY InitTypeOK, <1>1, PTL DEF Spec

-------------------------------------------------------------------------------
(* The inductive invariant.                                                    *)

LEMMA InitQueueInv == Init => QueueInv
<1> SUFFICES ASSUME Init PROVE QueueInv
  OBVIOUS
<1>1. Testcase = {}
  BY DEF Init, Testcase
<1>2. \A q \in QueueName : DOMAIN count[q] = {} /\ ids[q] = {}
  BY DEF Init
<1>3. SeenMerged /\ MembersSeen /\ RanDone
  BY <1>2 DEF SeenMerged, MembersSeen, RanDone, PathSeen, QueueName
<1>4. ReportNew /\ KeptSeen /\ LastTraced /\ NoTestcaseLost /\ KeptDistinct
      /\ DebugQueueAssertions
  BY <1>1 DEF Init, ReportNew, KeptSeen, LastTraced, NoTestcaseLost, KeptDistinct,
              DebugQueueAssertions
<1>5. TracedCoverBitmap
  BY DEF Init, TracedCoverBitmap
<1>6. QED BY <1>3, <1>4, <1>5 DEF QueueInv

\* Steps that do not touch the queues, the tracer or what was saved, and do not pass
\* through the control point between the tracer's verdict and the saving.
LEMMA FrameQueueInv ==
  ASSUME QueueInv,
         UNCHANGED <<program, bitmap, tracerInput, ids, count, testcaseIds, queueDir, ran,
                     report>>,
         pc' = "keep" <=> pc = "keep"
  PROVE  QueueInv'
<1>1. Testcase' = Testcase /\ Ran' = Ran
  BY DEF Testcase, Ran
<1>2. /\ \A q, h : PathSeen(q, h)' = PathSeen(q, h)
      /\ \A i : Merged(i)' = Merged(i)
  BY DEF PathSeen, Merged
<1>3. SeenMerged' /\ ReportNew' /\ MembersSeen' /\ KeptSeen'
  BY <1>1, <1>2 DEF QueueInv, SeenMerged, ReportNew, MembersSeen, KeptSeen, PathSeen, Merged
<1>4. RanDone' /\ NoTestcaseLost' /\ KeptDistinct'
  BY <1>1 DEF QueueInv, RanDone, NoTestcaseLost, KeptDistinct
<1>5. LastTraced'
  BY DEF QueueInv, LastTraced, Duplicate, NewEdges, PathSeen
<1>6. DebugQueueAssertions'
  BY DEF QueueInv, DebugQueueAssertions, PathSeen
<1>7. TracedCoverBitmap'
  BY <1>1 DEF QueueInv, TracedCoverBitmap, TracedInputs, InHand
<1>8. QED BY <1>3, <1>4, <1>5, <1>6, <1>7 DEF QueueInv

\* A duplicate adds nothing to the bitmaps.
LEMMA NoNewEdges ==
  ASSUME TypeTracer, NEW i \in Content
  PROVE  /\ NewEdges(program.main[i], bitmap.main) = {} => program.main[i] \subseteq bitmap.main
         /\ NewEdges(program.all[i], bitmap.all) = {} => program.all[i] \subseteq bitmap.all
         /\ program.main[i] \subseteq bitmap.main => NewEdges(program.main[i], bitmap.main) = {}
         /\ program.all[i] \subseteq bitmap.all => NewEdges(program.all[i], bitmap.all) = {}
  BY DEF NewEdges

\* An input whose whole path is in the queue is a duplicate: its hits, and its application
\* path, were seen with the run that put the path there.
LEMMA SeenIsDuplicate ==
  ASSUME TypeTracer, SeenMerged, NEW i \in Content,
         PathSeen("all_path", program.pathAll[i])
  PROVE  Duplicate(i)
<1>1. NoCollision(program)
  BY CollisionAssumption DEF TypeTracer
<1>2. program.pathAll[i] \in Path
  BY ProgramTyped DEF TypeTracer
<1>3. PICK j \in Content : /\ program.pathAll[j] = program.pathAll[i]
                           /\ Merged(j)
                           /\ PathSeen("main_path", program.pathMain[j])
  BY <1>2 DEF SeenMerged
<1>4. /\ program.main[i] = program.main[j] /\ program.all[i] = program.all[j]
      /\ program.pathMain[i] = program.pathMain[j]
  BY <1>1, <1>3 DEF NoCollision
<1>5. program.main[i] \subseteq bitmap.main /\ program.all[i] \subseteq bitmap.all
  BY <1>3, <1>4 DEF Merged
<1>6. QED BY <1>3, <1>4, <1>5, NoNewEdges DEF Duplicate

LEMMA SeenMainIsMerged ==
  ASSUME TypeTracer, SeenMerged, NEW i \in Content,
         PathSeen("main_path", program.pathMain[i])
  PROVE  program.main[i] \subseteq bitmap.main
<1>1. program.pathMain[i] \in Path
  BY ProgramTyped DEF TypeTracer
<1>2. PICK j \in Content : program.pathMain[j] = program.pathMain[i]
                           /\ program.main[j] \subseteq bitmap.main
  BY <1>1 DEF SeenMerged
<1>3. program.main[i] = program.main[j]
  BY <1>2, CollisionAssumption DEF TypeTracer, NoCollision
<1>4. QED BY <1>2, <1>3

LEMMA TraceFileQueueInv == TypeOK /\ QueueInv /\ TraceFile => QueueInv'
<1> SUFFICES ASSUME TypeOK, QueueInv, TraceFile PROVE QueueInv'
  OBVIOUS
<1> DEFINE file == Head(todo)
           input == IF ContentOf(file) = NoInput THEN tracerInput ELSE ContentOf(file)
<1>1. /\ pc = "add" /\ todo # <<>> /\ tracerInput' = input
      /\ UNCHANGED <<program, ids, count, testcaseIds, queueDir, ran>>
  BY DEF TraceFile, queues
<1>2. TypeTracer /\ TypeFiles /\ input \in Content
  BY <1>1, HeadTyped DEF TypeOK, TypeTracer
<1>3. \/ /\ input \in program.crashes
         /\ bitmap' \in {bitmap, Merge(input)}
         /\ pc' = "add"
      \/ /\ Duplicate(input) /\ bitmap' = Merge(input) /\ pc' = "add"
      \/ /\ ~Duplicate(input) /\ bitmap' = Merge(input) /\ pc' = "keep"
         /\ report' = [input |-> input,
                       main |-> NewEdges(program.main[input], bitmap.main),
                       all |-> NewEdges(program.all[input], bitmap.all)]
  BY <1>1 DEF TraceFile
<1>4. bitmap' \in {bitmap, Merge(input)}
  BY <1>3
<1>5. bitmap.main \subseteq bitmap'.main /\ bitmap.all \subseteq bitmap'.all
  BY <1>4 DEF Merge
<1>6. Testcase' = Testcase /\ Ran' = Ran
  BY <1>1 DEF Testcase, Ran
<1>7. \A q, h : PathSeen(q, h)' = PathSeen(q, h)
  BY <1>1 DEF PathSeen
<1>8. \A j \in Content : Merged(j) => Merged(j)'
  BY <1>1, <1>5 DEF Merged
<1>9. SeenMerged'
  BY <1>1, <1>5, <1>7, <1>8 DEF QueueInv, SeenMerged, PathSeen
<1>10. MembersSeen' /\ KeptSeen' /\ RanDone' /\ NoTestcaseLost' /\ KeptDistinct'
  BY <1>1, <1>6, <1>7 DEF QueueInv, MembersSeen, KeptSeen, RanDone, NoTestcaseLost, KeptDistinct,
                          PathSeen
<1>11. pc' = "keep" => ~PathSeen("all_path", program.pathAll[input])
  BY <1>2, <1>3, SeenIsDuplicate DEF QueueInv
<1>12. ReportNew'
  BY <1>1, <1>3, <1>7, <1>11 DEF ReportNew, Merged, Merge, PathSeen
<1>13. LastTraced'
  <2>1. CASE input \in program.crashes
    BY <2>1, <1>1 DEF LastTraced
  <2>2. CASE Duplicate(input) /\ bitmap' = Merge(input)
    <3>1. PICK i \in Content : i = input /\ tracerInput' = i
      BY <1>1, <1>2
    <3>2. program.main[i] \subseteq bitmap'.main /\ program.all[i] \subseteq bitmap'.all
      BY <2>2, <3>1 DEF Merge
    <3>3. Duplicate(i)'
      <4>1. /\ PathSeen("main_path", program.pathMain[i])'
            /\ PathSeen("all_path", program.pathAll[i])'
        BY <2>2, <3>1, <1>1 DEF Duplicate, PathSeen
      <4>2. /\ NewEdges(program.main[i], bitmap.main)' = {}
            /\ NewEdges(program.all[i], bitmap.all)' = {}
        BY <3>2, <1>1 DEF NewEdges
      <4>3. QED BY <4>1, <4>2 DEF Duplicate
    <3>4. QED BY <3>1, <3>3 DEF LastTraced, Duplicate, NewEdges, PathSeen
  <2>3. CASE pc' = "keep"
    BY <2>3 DEF LastTraced
  <2>4. QED BY <1>3, <2>1, <2>2, <2>3
<1>14. DebugQueueAssertions'
  <2>1. CASE pc' # "keep"
    BY <2>1 DEF DebugQueueAssertions
  <2>2. CASE pc' = "keep"
    <3>1. /\ report'.main # {} => ~PathSeen("main_path", program.pathMain[input])
          /\ ~PathSeen("all_path", program.pathAll[input])
          /\ report'.input = input
      BY <1>2, <1>3, <1>11, <2>2, SeenMainIsMerged, NoNewEdges DEF QueueInv
    <3>2. QED BY <3>1, <1>1, <1>7 DEF DebugQueueAssertions, PathSeen
  <2>3. QED BY <2>1, <2>2
<1>15. TracedCoverBitmap'
  <2>1. TracedInputs \subseteq TracedInputs'
    BY <1>1, <1>6 DEF TracedInputs, InHand
  <2>2. (bitmap'.main = bitmap.main /\ bitmap'.all = bitmap.all) \/ input \in TracedInputs' \cup program.crashes
    <3>1. CASE input \in program.crashes
      BY <3>1, <1>1 DEF TracedInputs, InHand
    <3>2. CASE Duplicate(input) /\ bitmap' = Merge(input)
      BY <3>2, <1>2, NoNewEdges DEF Duplicate, Merge, TypeTracer
    <3>3. CASE pc' = "keep" /\ report'.input = input
      BY <3>3 DEF TracedInputs, InHand
    <3>4. QED BY <1>3, <3>1, <3>2, <3>3
  <2>3. /\ bitmap'.main \subseteq UNION {program.main[i] : i \in TracedInputs' \cup program.crashes}
        /\ bitmap'.all \subseteq UNION {program.all[i] : i \in TracedInputs' \cup program.crashes}
    BY <1>4, <2>1, <2>2 DEF QueueInv, TracedCoverBitmap, Merge
  <2>4. QED BY <2>3, <1>1 DEF TracedCoverBitmap
<1>16. QED BY <1>9, <1>10, <1>12, <1>13, <1>14, <1>15 DEF QueueInv

LEMMA KeepTestcaseQueueInv == TypeOK /\ QueueInv /\ KeepTestcase => QueueInv'
<1> SUFFICES ASSUME TypeOK, QueueInv, KeepTestcase PROVE QueueInv'
  OBVIOUS
<1> DEFINE tc == Len(queueDir)
           imported == IF Head(todo).name = "afl" THEN 1 ELSE 0
<1>1. /\ pc = "keep" /\ pc' = "add"
      /\ UNCHANGED <<program, bitmap, tracerInput, ran>>
      /\ queueDir' = Append(queueDir, Entry)
  BY DEF KeepTestcase, tracer, Entry
<1>2. TypeTracer /\ TypeQueues /\ TypeFiles
  BY DEF TypeOK
<1>3. PICK i \in Content : i = report.input
  BY <1>2 DEF TypeTracer
<1>hashes. PICK hMain, hAll : hMain = program.pathMain[i] /\ hAll = program.pathAll[i]
  OBVIOUS
<1>4. /\ tc \in Nat /\ Testcase = 0 .. tc - 1 /\ Testcase' = Testcase \cup {tc}
      /\ tc \notin Testcase /\ Ran' = Ran /\ Ran \subseteq Testcase
  BY <1>1, <1>2 DEF TypeFiles, Testcase, Ran
<1>5. /\ \A t \in Testcase : queueDir'[t + 1] = queueDir[t + 1]
      /\ queueDir'[tc + 1].traced = i
  BY <1>1, <1>2, <1>3, <1>4 DEF TypeFiles, Entry
<1>6. ASSUME NEW q \in QueueName
      PROVE  ids'[q] = ids[q] \cup
                ((IF OnlyUniqueIds(q) THEN Fresh(q) ELSE Reported(q)) \X {tc})
  BY DEF KeepTestcase
<1>7. ASSUME NEW q \in QueueName, NEW h
      PROVE  PathSeen(q, h)' <=> PathSeen(q, h) \/ h \in Reported(q)
  <2>1. \A id \in Reported(q) : id \in Fresh(q) \/ PathSeen(q, id)
    BY DEF Fresh
  <2>2. Fresh(q) \subseteq Reported(q)
    BY DEF Fresh
  <2>3. PathSeen(q, h)' <=> \E p \in ids'[q] : p[1] = h
    BY DEF PathSeen
  <2>4. CASE h \in Fresh(q)
    <3>1. <<h, tc>> \in ids'[q]
      BY <2>2, <2>4, <1>6
    <3>2. QED BY <2>2, <2>3, <2>4, <3>1
  <2>5. CASE PathSeen(q, h)
    BY <2>3, <2>5, <1>6 DEF PathSeen
  <2>6. CASE h \notin Fresh(q) /\ ~PathSeen(q, h)
    BY <2>1, <2>2, <2>3, <2>6, <1>6 DEF PathSeen
  <2>7. QED BY <2>1, <2>4, <2>5, <2>6
<1>8. /\ Reported("main_path") = {hMain} /\ Reported("all_path") = {hAll}
  BY <1>3, <1>hashes DEF Reported
<1>9. /\ \A h : PathSeen("main_path", h)' <=> PathSeen("main_path", h) \/ h = hMain
      /\ \A h : PathSeen("all_path", h)' <=> PathSeen("all_path", h) \/ h = hAll
  BY <1>7, <1>8 DEF QueueName
<1>10. Merged(i) /\ ~PathSeen("all_path", hAll)
  BY <1>1, <1>3, <1>hashes DEF QueueInv, ReportNew
<1>11. SeenMerged'
  <2>1. ASSUME NEW h \in Path, PathSeen("all_path", h)'
        PROVE  \E j \in Content : /\ program.pathAll[j] = h
                                  /\ Merged(j)
                                  /\ \E p \in ids'["main_path"] : p[1] = program.pathMain[j]
    <3>1. CASE h = hAll
      <4>1. \E p \in ids'["main_path"] : p[1] = hMain
        BY <1>9 DEF PathSeen
      <4>2. QED BY <3>1, <4>1, <1>3, <1>10, <1>hashes
    <3>2. CASE PathSeen("all_path", h)
      <4>1. PICK j \in Content : /\ program.pathAll[j] = h
                                /\ Merged(j)
                                /\ PathSeen("main_path", program.pathMain[j])
        BY <3>2 DEF QueueInv, SeenMerged
      <4>2. \E p \in ids'["main_path"] : p[1] = program.pathMain[j]
        BY <4>1, <1>6 DEF PathSeen, QueueName
      <4>3. QED BY <4>1, <4>2
    <3>3. QED BY <2>1, <3>1, <3>2, <1>9
  <2>2. ASSUME NEW h \in Path, PathSeen("main_path", h)'
        PROVE  \E j \in Content : program.pathMain[j] = h /\ program.main[j] \subseteq bitmap.main
    BY <2>2, <1>3, <1>9, <1>10, <1>hashes DEF QueueInv, SeenMerged, Merged
  <2>3. \A j : Merged(j)' = Merged(j)
    BY <1>1 DEF Merged
  <2>4. QED BY <2>1, <2>2, <2>3, <1>1 DEF SeenMerged, PathSeen
<1>12. ASSUME NEW q \in QueueName
       PROVE  \/ /\ count'[q] = count[q] /\ testcaseIds'[q] = testcaseIds[q]
                 /\ Fresh(q) = {}
              \/ /\ DOMAIN count'[q] = DOMAIN count[q] \cup {tc}
                 /\ \A t \in DOMAIN count[q] : /\ count'[q][t] = count[q][t]
                                               /\ testcaseIds'[q][t] = testcaseIds[q][t]
                 /\ count'[q][tc] > 0
                 /\ testcaseIds'[q][tc] = Reported(q)
  <2>1. CASE Fresh(q) = {}
    BY <2>1 DEF KeepTestcase
  <2>2. CASE Fresh(q) # {}
    <3>1. /\ count'[q] = Extend(count[q], tc, Cardinality(Reported(q)) + imported)
          /\ testcaseIds'[q] = Extend(testcaseIds[q], tc, Reported(q))
      BY <2>2 DEF KeepTestcase
    <3>2. Cardinality(Reported(q)) + imported > 0
      BY <2>2, <1>2, ReportedCount
    <3>3. tc \notin DOMAIN count[q] /\ DOMAIN testcaseIds[q] = DOMAIN count[q]
      BY <1>2, <1>4 DEF TypeQueues
    <3>4. QED BY <3>1, <3>2, <3>3 DEF Extend
  <2>3. QED BY <2>1, <2>2
<1>13. MembersSeen'
  <2>1. ASSUME NEW q \in QueueName, NEW t \in DOMAIN count'[q], NEW id \in testcaseIds'[q][t]
        PROVE  PathSeen(q, id)'
    <3>1. CASE t \in DOMAIN count[q]
      BY <3>1, <1>7, <1>12, <2>1 DEF QueueInv, MembersSeen
    <3>2. CASE t \notin DOMAIN count[q]
      BY <3>2, <1>7, <1>12, <2>1
    <3>3. QED BY <3>1, <3>2
  <2>2. QED BY <2>1 DEF MembersSeen, PathSeen
<1>14. KeptSeen'
  <2>1. ASSUME NEW t \in Testcase'
        PROVE  \E p \in ids'["all_path"] : p[1] = program.pathAll[queueDir'[t + 1].traced]
    <3>1. CASE t = tc
      <4>1. program.pathAll[queueDir'[t + 1].traced] = hAll
        BY <3>1, <1>hashes, <1>5
      <4>2. \E p \in ids'["all_path"] : p[1] = hAll
        BY <1>9 DEF PathSeen
      <4>3. QED BY <4>1, <4>2
    <3>2. CASE t \in Testcase
      <4>1. \E p \in ids["all_path"] : p[1] = program.pathAll[queueDir[t + 1].traced]
        BY <3>2 DEF QueueInv, KeptSeen, PathSeen
      <4>2. QED BY <3>2, <4>1, <1>5, <1>6 DEF QueueName
    <3>3. QED BY <3>1, <3>2, <1>4
  <2>2. QED BY <2>1, <1>1 DEF KeptSeen, PathSeen
<1>15. RanDone'
  <2>1. ASSUME NEW q \in QueueName, NEW t \in DOMAIN count'[q], t \in Ran
        PROVE  count'[q][t] = 0
    <3>1. t # tc
      BY <2>1, <1>4
    <3>2. QED BY <2>1, <3>1, <1>12 DEF QueueInv, RanDone
  <2>2. QED BY <2>1, <1>4 DEF RanDone
<1>16. NoTestcaseLost'
  <2>1. ASSUME NEW t \in Testcase', t \notin Ran
        PROVE  \E q \in QueueName : t \in DOMAIN count'[q] /\ count'[q][t] > 0
    <3>1. CASE t = tc
      <4>1. "all_path" \in QueueName /\ hAll \in Fresh("all_path")
        BY <1>8, <1>10 DEF QueueName, Fresh
      <4>2. tc \in DOMAIN count'["all_path"] /\ count'["all_path"][tc] > 0
        BY <4>1, <1>12
      <4>3. QED BY <3>1, <4>1, <4>2
    <3>2. CASE t \in Testcase
      <4>1. PICK q \in QueueName : t \in DOMAIN count[q] /\ count[q][t] > 0
        BY <2>1, <3>2 DEF QueueInv, NoTestcaseLost
      <4>2. t \in DOMAIN count'[q] /\ count'[q][t] > 0
        BY <4>1, <1>12
      <4>3. QED BY <4>2
    <3>3. QED BY <3>1, <3>2, <1>4
  <2>2. QED BY <2>1, <1>4 DEF NoTestcaseLost
<1>17. KeptDistinct'
  <2>1. ASSUME NEW t \in Testcase
        PROVE  program.pathAll[queueDir[t + 1].traced] # hAll
    BY <1>10 DEF QueueInv, KeptSeen
  <2>2. ASSUME NEW s \in Testcase', NEW t \in Testcase',
               program.pathAll[queueDir'[s + 1].traced] = program.pathAll[queueDir'[t + 1].traced]
        PROVE  s = t
    <3>1. CASE s \in Testcase /\ t \in Testcase
      BY <2>2, <3>1, <1>5 DEF QueueInv, KeptDistinct
    <3>2. CASE s = tc \/ t = tc
      BY <2>1, <2>2, <3>2, <1>4, <1>5, <1>hashes
    <3>3. QED BY <3>1, <3>2, <1>4
  <2>3. QED BY <2>2, <1>1 DEF KeptDistinct
<1>18. LastTraced'
  <2>1. tracerInput' = i
    BY <1>1, <1>3 DEF QueueInv, ReportNew
  <2>2. /\ NewEdges(program.main[i], bitmap.main) = {}
        /\ NewEdges(program.all[i], bitmap.all) = {}
    BY <1>10 DEF Merged, NewEdges
  <2>3. /\ \E p \in ids'["main_path"] : p[1] = program.pathMain[i]
        /\ \E p \in ids'["all_path"] : p[1] = program.pathAll[i]
    BY <1>9, <1>hashes DEF PathSeen
  <2>4. QED BY <2>1, <2>2, <2>3, <1>1 DEF LastTraced, Duplicate, NewEdges, PathSeen
<1>19. DebugQueueAssertions' /\ ReportNew'
  BY <1>1 DEF DebugQueueAssertions, ReportNew
<1>20. TracedCoverBitmap'
  <2>1. TracedInputs \subseteq TracedInputs'
    <3>1. \A t \in Testcase : t \in Testcase' /\ queueDir'[t + 1].traced = queueDir[t + 1].traced
      BY <1>4, <1>5
    <3>2. tc \in Testcase' /\ queueDir'[tc + 1].traced = report.input
      BY <1>3, <1>4, <1>5
    <3>3. QED BY <3>1, <3>2, <1>1 DEF TracedInputs, InHand
  <2>2. QED BY <2>1, <1>1 DEF QueueInv, TracedCoverBitmap
<1>21. QED BY <1>11, <1>13, <1>14, <1>15, <1>16, <1>17, <1>18, <1>19, <1>20 DEF QueueInv

LEMMA SelectTestcaseQueueInv ==
  ASSUME TypeOK, QueueInv, NEW t \in Testcase, SelectTestcase(t)
  PROVE  QueueInv'
<1>1. /\ pc = "select" /\ pc' = "run"
      /\ MarkProcessed(t)
      /\ ran' = Append(ran, t)
      /\ UNCHANGED <<program, bitmap, tracerInput, queueDir, report>>
  BY DEF SelectTestcase, tracer
<1>2. TypeTracer /\ TypeQueues /\ TypeFiles
  BY DEF TypeOK
<1>3. Testcase' = Testcase /\ Ran' = Ran \cup {t}
  <2>1. /\ Len(ran) \in Nat /\ DOMAIN ran = 1 .. Len(ran) /\ DOMAIN ran' = 1 .. Len(ran) + 1
        /\ ran'[Len(ran) + 1] = t
        /\ \A k \in DOMAIN ran : ran'[k] = ran[k]
    BY <1>1, <1>2 DEF TypeFiles
  <2>2. DOMAIN ran' = DOMAIN ran \cup {Len(ran) + 1}
    BY <2>1
  <2>3. QED BY <1>1, <2>1, <2>2 DEF Ran, Testcase
<1>4. ASSUME NEW q \in QueueName
      PROVE  /\ DOMAIN count'[q] = DOMAIN count[q]
             /\ testcaseIds'[q] = testcaseIds[q]
             /\ \A u \in DOMAIN count[q] : count'[q][u] = IF u = t THEN 0 ELSE count[q][u]
             /\ t \notin DOMAIN count[q] => ids'[q] = ids[q]
             /\ t \in DOMAIN count[q] => ids'[q] = ids[q] \cup (testcaseIds[q][t] \X {t})
  BY <1>1 DEF MarkProcessed
<1>5. ASSUME NEW q \in QueueName, NEW h
      PROVE  PathSeen(q, h)' <=> PathSeen(q, h)
  <2>1. PathSeen(q, h)' <=> \E p \in ids'[q] : p[1] = h
    BY DEF PathSeen
  <2>2. CASE t \notin DOMAIN count[q]
    BY <2>1, <2>2, <1>4 DEF PathSeen
  <2>3. CASE t \in DOMAIN count[q]
    <3>1. \A p \in testcaseIds[q][t] \X {t} : PathSeen(q, p[1])
      BY <2>3 DEF QueueInv, MembersSeen
    <3>2. QED BY <2>1, <2>3, <3>1, <1>4 DEF PathSeen
  <2>4. QED BY <2>2, <2>3
<1>6. /\ \A h : (\E p \in ids'["main_path"] : p[1] = h) <=> PathSeen("main_path", h)
      /\ \A h : (\E p \in ids'["all_path"] : p[1] = h) <=> PathSeen("all_path", h)
  BY <1>5 DEF PathSeen, QueueName
<1>7. SeenMerged'
  <2>1. ASSUME NEW h \in Path, PathSeen("all_path", h)'
        PROVE  \E j \in Content : /\ program.pathAll[j] = h
                                  /\ Merged(j)
                                  /\ \E p \in ids'["main_path"] : p[1] = program.pathMain[j]
    <3>1. PathSeen("all_path", h)
      BY <2>1, <1>6 DEF PathSeen
    <3>2. PICK j \in Content : /\ program.pathAll[j] = h
                              /\ Merged(j)
                              /\ PathSeen("main_path", program.pathMain[j])
      BY <3>1 DEF QueueInv, SeenMerged
    <3>3. \E p \in ids'["main_path"] : p[1] = program.pathMain[j]
      BY <3>2, <1>6
    <3>4. QED BY <3>2, <3>3
  <2>2. ASSUME NEW h \in Path, PathSeen("main_path", h)'
        PROVE  \E j \in Content : program.pathMain[j] = h /\ program.main[j] \subseteq bitmap.main
    <3>1. PathSeen("main_path", h)
      BY <2>2, <1>6 DEF PathSeen
    <3>2. QED BY <3>1 DEF QueueInv, SeenMerged
  <2>3. \A j : Merged(j)' = Merged(j)
    BY <1>1 DEF Merged
  <2>4. QED BY <2>1, <2>2, <2>3, <1>1 DEF SeenMerged, PathSeen
<1>8. KeptSeen' /\ KeptDistinct'
  BY <1>1, <1>3, <1>6 DEF QueueInv, KeptSeen, KeptDistinct, PathSeen
<1>9. MembersSeen'
  <2>1. ASSUME NEW q \in QueueName, NEW u \in DOMAIN count'[q], NEW id \in testcaseIds'[q][u]
        PROVE  PathSeen(q, id)'
    BY <2>1, <1>4, <1>5 DEF QueueInv, MembersSeen
  <2>2. QED BY <2>1 DEF MembersSeen, PathSeen
<1>10. RanDone' /\ NoTestcaseLost'
  <2>1. RanDone'
    BY <1>3, <1>4 DEF QueueInv, RanDone
  <2>2. ASSUME NEW u \in Testcase, u \notin Ran \cup {t}
        PROVE  \E q \in QueueName : u \in DOMAIN count'[q] /\ count'[q][u] > 0
    <3>1. PICK q \in QueueName : u \in DOMAIN count[q] /\ count[q][u] > 0
      BY <2>2 DEF QueueInv, NoTestcaseLost
    <3>2. QED BY <2>2, <3>1, <1>4
  <2>3. QED BY <2>1, <2>2, <1>3 DEF NoTestcaseLost
<1>11. LastTraced'
  <2>1. tracerInput = NoInput \/ tracerInput \in program.crashes \/ Duplicate(tracerInput)
    BY <1>1 DEF QueueInv, LastTraced
  <2>2. QED BY <2>1, <1>1, <1>6 DEF LastTraced, Duplicate, NewEdges, PathSeen
<1>12. ReportNew' /\ DebugQueueAssertions'
  BY <1>1 DEF ReportNew, DebugQueueAssertions
<1>13. TracedCoverBitmap'
  BY <1>1, <1>3 DEF QueueInv, TracedCoverBitmap, TracedInputs, InHand
<1>14. QED BY <1>7, <1>8, <1>9, <1>10, <1>11, <1>12, <1>13 DEF QueueInv

LEMMA NextQueueInv == TypeOK /\ QueueInv /\ [Next]_vars => QueueInv'
<1> SUFFICES ASSUME TypeOK, QueueInv, [Next]_vars PROVE QueueInv'
  OBVIOUS
<1>1. CASE SkipFile \/ EndAdd \/ ImportFromAfl \/ SelectNone \/ RunTarget
  BY <1>1, FrameQueueInv
     DEF SkipFile, EndAdd, ImportFromAfl, SelectNone, RunTarget, tracer, queues
<1>2. CASE Afl
  BY <1>2, FrameQueueInv DEF Afl, AflAdd, AflUnlink, AflRewrite, tracer, queues
<1>3. CASE UNCHANGED vars
  BY <1>3, FrameQueueInv DEF vars, tracer, queues
<1>4. CASE \E t \in Testcase : SelectTestcase(t)
  BY <1>4, SelectTestcaseQueueInv
<1>5. QED BY <1>1, <1>2, <1>3, <1>4, TraceFileQueueInv, KeepTestcaseQueueInv
             DEF Next, Runner, Done

\* The four queues, the tracer's bitmaps and the files of queue/ stay consistent with one
\* another, for every program without path collisions and whatever AFL does.
THEOREM QueueInvariant == Spec => []QueueInv
  BY TypeCorrect, InitQueueInv, NextQueueInv, PTL DEF Spec

\* No testcase of queue/ is ever in none of the four queues before it was run.
THEOREM TestcaseNeverLost == Spec => []NoTestcaseLost
<1>1. QueueInv => NoTestcaseLost
  BY DEF QueueInv
<1>2. QED BY <1>1, QueueInvariant, PTL

\* No whole path is ever kept twice.
THEOREM PathsKeptOnce == Spec => []KeptDistinct
<1>1. QueueInv => KeptDistinct
  BY DEF QueueInv
<1>2. QED BY <1>1, QueueInvariant, PTL

\* The path assertions of the queue's debug mode never fail when no path hash collides.
THEOREM DebugAssertionsHold == Spec => []DebugQueueAssertions
<1>1. QueueInv => DebugQueueAssertions
  BY DEF QueueInv
<1>2. QED BY <1>1, QueueInvariant, PTL

-------------------------------------------------------------------------------
(* Stale traces, and the abstract work list.                                   *)

\* However AFL unlinks and rewrites its entries under the runner, a testcase is never kept
\* for what another file did.
THEOREM StaleTraceTheorem == Spec => StaleTraceNeverKept
<1>1. ASSUME TypeOK, QueueInv, Next, pc = "add", pc' = "keep"
      PROVE  report'.input = ContentOf(Head(todo))
  <2>1. TraceFile
    BY <1>1 DEF Next, Runner, Afl, Done, SkipFile, KeepTestcase, EndAdd, ImportFromAfl,
                SelectTestcase, SelectNone, RunTarget, AflAdd, AflUnlink, AflRewrite, vars
  <2> DEFINE input == IF ContentOf(Head(todo)) = NoInput THEN tracerInput
                      ELSE ContentOf(Head(todo))
  <2>2. input \notin program.crashes /\ ~Duplicate(input) /\ report'.input = input
    BY <1>1, <2>1 DEF TraceFile
  <2>3. tracerInput = NoInput \/ tracerInput \in program.crashes \/ Duplicate(tracerInput)
    BY <1>1 DEF QueueInv, LastTraced
  <2>4. CASE ContentOf(Head(todo)) = NoInput
    BY <2>2, <2>3, <2>4
  <2>5. CASE ContentOf(Head(todo)) # NoInput
    BY <2>2, <2>5
  <2>6. QED BY <2>4, <2>5
<1>2. TypeOK /\ QueueInv /\ [Next]_vars =>
        [pc = "add" /\ pc' = "keep" => report'.input = ContentOf(Head(todo))]_vars
  BY <1>1
<1>3. QED BY <1>2, TypeCorrect, QueueInvariant, PTL DEF Spec, StaleTraceNeverKept

\* A saved testcase is put in the work list.
LEMMA KeepTestcasePuts == TypeOK /\ KeepTestcase => List!Put
<1> SUFFICES ASSUME TypeOK, KeepTestcase PROVE List!Put
  OBVIOUS
<1> DEFINE tc == Len(queueDir)
<1>1. /\ pc = "keep" /\ pc' = "add" /\ ran' = ran
      /\ queueDir' = Append(queueDir, Entry)
  BY DEF KeepTestcase, Entry
<1>2. /\ Testcase' = Testcase \cup {tc} /\ tc \notin Testcase
      /\ Ran' = Ran /\ Ran \subseteq Testcase /\ List!Taken = Ran
  BY <1>1 DEF TypeOK, TypeFiles, Testcase, Ran, List!Taken
<1>3. (Testcase \ Ran)' = (Testcase \ Ran) \cup {tc}
  BY <1>2
<1>4. tc \notin (Testcase \ Ran) \cup List!Taken
  BY <1>2
<1>5. QED BY <1>1, <1>3, <1>4 DEF List!Put

\* The testcase picked was waiting: its count is positive in some queue.
LEMMA SelectTestcaseTakes ==
  ASSUME TypeOK, QueueInv, NEW t \in Testcase, SelectTestcase(t)
  PROVE  List!Take
<1>1. /\ pc = "select" /\ pc' = "run" /\ ran' = Append(ran, t) /\ queueDir' = queueDir
  BY DEF SelectTestcase
<1>2. t \notin Ran
  <2>1. \E q \in QueueName : t \in DOMAIN count[q] /\ count[q][t] > 0
    BY DEF SelectTestcase, HasHighestCount, PickOrder, QueueName
  <2>2. QED BY <2>1 DEF QueueInv, RanDone
<1>3. Testcase' = Testcase /\ Ran' = Ran \cup {t}
  <2>1. /\ Len(ran) \in Nat /\ DOMAIN ran = 1 .. Len(ran) /\ DOMAIN ran' = 1 .. Len(ran) + 1
        /\ ran'[Len(ran) + 1] = t
        /\ \A k \in DOMAIN ran : ran'[k] = ran[k]
    BY <1>1 DEF TypeOK, TypeFiles
  <2>2. DOMAIN ran' = DOMAIN ran \cup {Len(ran) + 1}
    BY <2>1
  <2>3. QED BY <1>1, <2>1, <2>2 DEF Ran, Testcase
<1>4. (Testcase \ Ran)' = (Testcase \ Ran) \ {t}
  BY <1>3
<1>5. QED BY <1>1, <1>2, <1>4 DEF List!Take

\* The exploration ends only when no testcase waits.
LEMMA SelectNoneCloses ==
  ASSUME QueueInv, SelectNone
  PROVE  List!Close \/ UNCHANGED List!wlVars
<1>1. /\ pc = "select" /\ pc' \in {"pick", "done"}
      /\ UNCHANGED <<queueDir, ran>>
      /\ \A q \in QueueName : \A t \in DOMAIN count[q] : count[q][t] = 0
  BY DEF SelectNone, NothingWaiting
<1>2. Testcase \ Ran = {} /\ (Testcase \ Ran)' = Testcase \ Ran
  BY <1>1 DEF QueueInv, NoTestcaseLost, Testcase, Ran
<1>3. QED BY <1>1, <1>2 DEF List!Close, List!wlVars

LEMMA OtherStepsStutter ==
  ASSUME SkipFile \/ TraceFile \/ EndAdd \/ ImportFromAfl \/ RunTarget \/ Afl \/ UNCHANGED vars
  PROVE  UNCHANGED List!wlVars
<1>1. UNCHANGED <<queueDir, ran>> /\ (pc = "done" <=> pc' = "done")
  BY DEF SkipFile, TraceFile, EndAdd, ImportFromAfl, RunTarget, Afl, AflAdd, AflUnlink,
         AflRewrite, vars
<1>2. (Testcase \ Ran)' = Testcase \ Ran
  BY <1>1 DEF Testcase, Ran
<1>3. QED BY <1>1, <1>2 DEF List!wlVars

\* The queue manager of SYMFUSION_MODE implements the work list: no testcase is dropped or
\* handed out twice, and the exploration ends only when none waits.
THEOREM RefinesWorklist == Spec => ImplementsWorklist
<1>1. Init => List!WLInit
  <2> SUFFICES ASSUME Init PROVE List!WLInit
    OBVIOUS
  <2>1. Testcase = {} /\ ran = <<>> /\ pc = "add"
    BY DEF Init, Testcase
  <2>2. QED BY <2>1 DEF List!WLInit
<1>2. TypeOK /\ QueueInv /\ [Next]_vars => [List!WLNext]_(List!wlVars)
  BY KeepTestcasePuts, SelectTestcaseTakes, SelectNoneCloses, OtherStepsStutter
     DEF Next, Runner, Done, List!WLNext
<1>3. QED BY <1>1, <1>2, TypeCorrect, QueueInvariant, PTL
             DEF Spec, ImplementsWorklist, List!WLSpec

-------------------------------------------------------------------------------
(* The entries of AFL.                                                         *)

\* An entry is missing only when AFL has unlinked it.
MissingRewritten == \A n \in 0 .. Len(afl) - 1 : afl[n + 1] = NoInput => n \in rewritten

\* The runner will not pass an entry: those before one it still has to look at are up to
\* afl_min_id, were rewritten, or come first.
ListedInOrder ==
  \A k \in DOMAIN todo :
    todo[k].name = "afl" =>
      \A n \in Nat : n < todo[k].id =>
        \/ n <= aflMin \/ n \in rewritten
        \/ \E j \in 1 .. k - 1 : todo[j].name = "afl" /\ todo[j].id = n

\* A whole path of the path queue is that of a testcase of queue/.
SeenKept ==
  \A h : PathSeen("all_path", h) =>
           \E t \in Testcase : program.pathAll[queueDir[t + 1].traced] = h

\* The entry about to be kept was passed already.
KeptPassed == pc = "keep" /\ Head(todo).name = "afl" => Head(todo).id <= aflMin

\* The path of input i was traced for a testcase that was kept, or i crashes the tracer.
TracedRepresented(i) ==
  program.pathAll[i] \in {program.pathAll[j] : j \in TracedInputs} \/ i \in program.crashes

ImportedTraced == \A n \in 0 .. aflMin : n \notin rewritten => TracedRepresented(afl[n + 1])

\* Together with TypeOK and QueueInv they are inductive.
ImportInv == MissingRewritten /\ ListedInOrder /\ KeptPassed /\ SeenKept /\ ImportedTraced

LEMMA InitImportInv == Init => ImportInv
<1> SUFFICES ASSUME Init PROVE ImportInv
  OBVIOUS
<1>1. /\ todo = program.seeds /\ program \in Programs /\ pc = "add" /\ afl = <<>> /\ aflMin = -1
      /\ \A q \in QueueName : ids[q] = {}
  BY DEF Init
<1>2. MissingRewritten /\ KeptPassed /\ ImportedTraced
  BY <1>1 DEF MissingRewritten, KeptPassed, ImportedTraced
<1>3. ListedInOrder
  BY <1>1, ProgramTyped DEF ListedInOrder
<1>4. SeenKept
  BY <1>1 DEF SeenKept, PathSeen, QueueName
<1>5. QED BY <1>2, <1>3, <1>4 DEF ImportInv

\* The listing loses its head only when that is not an entry of AFL or was passed.
LEMMA TailListed ==
  ASSUME TypeFiles, ListedInOrder, todo # <<>>, todo' = Tail(todo),
         aflMin' \in Int, aflMin <= aflMin', rewritten' = rewritten,
         Head(todo).name = "afl" => Head(todo).id <= aflMin'
  PROVE  ListedInOrder'
<1>1. /\ todo \in Seq(File) /\ Len(todo) \in Nat /\ Len(todo') = Len(todo) - 1
      /\ todo' \in Seq(File) /\ Head(todo) = todo[1]
      /\ aflMin \in Int
  BY DEF TypeFiles
<1>2. \A k \in DOMAIN todo' : k \in Nat /\ k >= 1 /\ k + 1 \in DOMAIN todo /\ todo'[k] = todo[k + 1]
  BY <1>1
<1> SUFFICES ASSUME NEW k \in DOMAIN todo', todo'[k].name = "afl", NEW n \in Nat, n < todo'[k].id
             PROVE  \/ n <= aflMin' \/ n \in rewritten'
                    \/ \E j \in 1 .. k - 1 : todo'[j].name = "afl" /\ todo'[j].id = n
  BY DEF ListedInOrder
<1>3. \/ n <= aflMin \/ n \in rewritten
      \/ \E j \in 1 .. k : todo[j].name = "afl" /\ todo[j].id = n
  <2>1. (k + 1) - 1 = k
    BY <1>2
  <2>2. QED BY <1>2, <2>1 DEF ListedInOrder
<1>4. ASSUME NEW j \in 1 .. k, todo[j].name = "afl", todo[j].id = n
      PROVE  n <= aflMin' \/ \E m \in 1 .. k - 1 : todo'[m].name = "afl" /\ todo'[m].id = n
  <2>1. CASE j = 1
    BY <1>1, <1>4, <2>1
  <2>2. CASE j # 1
    <3>1. j - 1 \in 1 .. k - 1 /\ j - 1 \in DOMAIN todo' /\ (j - 1) + 1 = j
      BY <1>1, <1>2, <2>2
    <3>2. todo'[j - 1] = todo[j]
      BY <1>2, <3>1
    <3>3. QED BY <1>4, <3>1, <3>2
  <2>3. QED BY <2>1, <2>2
<1>5. CASE n <= aflMin
  BY <1>1, <1>5
<1>6. QED BY <1>3, <1>4, <1>5

\* Nothing that was represented ceases to be.
LEMMA StillTraced ==
  ASSUME program' = program, TracedInputs \subseteq TracedInputs', NEW i, TracedRepresented(i)
  PROVE  TracedRepresented(i)'
  BY DEF TracedRepresented

\* Steps of the runner that neither trace nor keep a file.
LEMMA FrameImportInv ==
  ASSUME TypeOK, ImportInv, pc # "keep", pc' # "keep", ListedInOrder',
         \A h : PathSeen("all_path", h)' => PathSeen("all_path", h),
         UNCHANGED <<program, queueDir, afl, rewritten, aflMin>>
  PROVE  ImportInv'
<1>1. Testcase' = Testcase /\ TracedInputs' = TracedInputs
  BY DEF Testcase, TracedInputs, InHand
<1>2. MissingRewritten' /\ KeptPassed'
  BY DEF ImportInv, MissingRewritten, KeptPassed
<1>3. SeenKept'
  <2> SUFFICES ASSUME NEW h, PathSeen("all_path", h)'
               PROVE  \E t \in Testcase : program.pathAll[queueDir[t + 1].traced] = h
    BY <1>1 DEF SeenKept, PathSeen
  <2>1. PathSeen("all_path", h)
    OBVIOUS
  <2>2. QED BY <2>1 DEF ImportInv, SeenKept
<1>4. ImportedTraced'
  BY <1>1 DEF ImportInv, ImportedTraced, TracedRepresented
<1>5. QED BY <1>2, <1>3, <1>4 DEF ImportInv

LEMMA QuietImportInv ==
  ASSUME TypeOK, QueueInv, ImportInv,
         \/ SkipFile \/ EndAdd \/ ImportFromAfl \/ SelectNone \/ RunTarget
         \/ \E t \in Testcase : SelectTestcase(t)
  PROVE  ImportInv'
<1>1. /\ pc # "keep" /\ pc' # "keep"
      /\ UNCHANGED <<program, queueDir, afl, rewritten, aflMin>>
  BY DEF SkipFile, EndAdd, ImportFromAfl, SelectNone, RunTarget, SelectTestcase, env
<1>2. TypeFiles /\ ListedInOrder
  BY DEF TypeOK, ImportInv
<1>3. \A h : PathSeen("all_path", h)' => PathSeen("all_path", h)
  <2>1. CASE SkipFile \/ EndAdd \/ ImportFromAfl \/ SelectNone \/ RunTarget
    BY <2>1 DEF SkipFile, EndAdd, ImportFromAfl, SelectNone, RunTarget, queues, PathSeen
  <2>2. ASSUME NEW t \in Testcase, SelectTestcase(t)
        PROVE  \A h : PathSeen("all_path", h)' => PathSeen("all_path", h)
    <3>1. \/ ids'["all_path"] = ids["all_path"]
          \/ /\ t \in DOMAIN count["all_path"]
             /\ ids'["all_path"] = ids["all_path"] \cup (testcaseIds["all_path"][t] \X {t})
      BY <2>2 DEF SelectTestcase, MarkProcessed, QueueName
    <3>2. CASE ids'["all_path"] = ids["all_path"]
      BY <3>2 DEF PathSeen
    <3>3. CASE /\ t \in DOMAIN count["all_path"]
               /\ ids'["all_path"] = ids["all_path"] \cup (testcaseIds["all_path"][t] \X {t})
      <4>1. \A p \in testcaseIds["all_path"][t] \X {t} : PathSeen("all_path", p[1])
        BY <3>3 DEF QueueInv, MembersSeen, QueueName
      <4>2. QED BY <3>3, <4>1 DEF PathSeen
    <3>4. QED BY <3>1, <3>2, <3>3
  <2>3. QED BY <2>1, <2>2
<1>4. ListedInOrder'
  <2>1. CASE SkipFile
    <3>1. /\ todo # <<>> /\ todo' = Tail(todo)
          /\ Head(todo).name = "afl" => Head(todo).id <= aflMin
      BY <2>1 DEF SkipFile, Skipped
    <3>2. aflMin' \in Int /\ aflMin <= aflMin'
      BY <1>1, <1>2 DEF TypeFiles
    <3>3. QED BY <1>1, <1>2, <3>1, <3>2, TailListed
  <2>2. CASE EndAdd \/ SelectNone \/ \E t \in Testcase : SelectTestcase(t)
    BY <1>1, <1>2, <2>2 DEF EndAdd, SelectNone, SelectTestcase, ListedInOrder
  <2>3. CASE ImportFromAfl
    <3>1. CASE todo' = <<>>
      BY <3>1 DEF ListedInOrder
    <3>2. CASE todo' = AflListing
      <4>1. /\ Len(afl) \in Nat /\ DOMAIN todo' = 1 .. Len(afl)
            /\ \A k \in 1 .. Len(afl) :
                 /\ todo'[k].id = k - 1
                 /\ todo'[k].name = IF afl[k] = NoInput THEN "gone" ELSE "afl"
        BY <1>2, <3>2 DEF AflListing, TypeFiles
      <4>2. ASSUME NEW k \in DOMAIN todo', NEW n \in Nat, n < todo'[k].id
            PROVE  \/ n \in rewritten
                   \/ \E j \in 1 .. k - 1 : todo'[j].name = "afl" /\ todo'[j].id = n
        <5>1. n + 1 \in 1 .. k - 1 /\ n + 1 \in 1 .. Len(afl) /\ n \in 0 .. Len(afl) - 1
              /\ todo'[n + 1].id = n
          BY <4>1, <4>2
        <5>2. CASE afl[n + 1] = NoInput
          BY <5>1, <5>2 DEF ImportInv, MissingRewritten
        <5>3. CASE afl[n + 1] # NoInput
          <6>1. todo'[n + 1].name = "afl"
            BY <4>1, <5>1, <5>3
          <6>2. QED BY <5>1, <6>1
        <5>4. QED BY <5>2, <5>3
      <4>3. QED BY <1>1, <4>2 DEF ListedInOrder
    <3>3. QED BY <2>3, <3>1, <3>2 DEF ImportFromAfl
  <2>4. CASE RunTarget
    <3>1. \A k \in DOMAIN todo' : todo'[k].name # "afl"
      BY <2>4, RunTargetLists
    <3>2. QED BY <3>1 DEF ListedInOrder
  <2>5. QED BY <2>1, <2>2, <2>3, <2>4
<1>5. QED BY <1>1, <1>3, <1>4, FrameImportInv

LEMMA TraceFileImportInv ==
  ASSUME TypeOK, QueueInv, ImportInv, TraceFile
  PROVE  ImportInv'
<1> DEFINE file == Head(todo)
           input == IF ContentOf(file) = NoInput THEN tracerInput ELSE ContentOf(file)
<1>1. /\ pc = "add" /\ todo # <<>> /\ aflMin' = MinId(file)
      /\ file.name = "afl" => ~(file.id <= aflMin)
      /\ UNCHANGED <<program, ids, queueDir, afl, rewritten>>
  BY DEF TraceFile, Skipped, queues, env
<1>2. TypeFiles /\ TypeTracer
  BY DEF TypeOK
<1>3. \/ input \in program.crashes /\ pc' = "add" /\ todo' = Tail(todo)
      \/ Duplicate(input) /\ pc' = "add" /\ todo' = Tail(todo)
      \/ pc' = "keep" /\ todo' = todo /\ report'.input = input
  BY <1>1 DEF TraceFile
<1>4. /\ aflMin \in Int /\ aflMin' \in Int /\ aflMin <= aflMin'
      /\ file.name = "afl" => aflMin' = file.id /\ file.id \in 0 .. Len(afl) - 1
      /\ file.name # "afl" => aflMin' = aflMin
  <2>1. aflMin \in Int /\ Len(afl) \in Nat
    BY <1>2 DEF TypeFiles
  <2>2. file.name = "afl" => file.id \in 0 .. Len(afl) - 1
    BY <1>1, <1>2, HeadTyped
  <2>3. QED BY <1>1, <2>1, <2>2 DEF MinId
<1>5. Testcase' = Testcase /\ TracedInputs \subseteq TracedInputs'
  BY <1>1 DEF Testcase, TracedInputs, InHand
<1>6. \A h : PathSeen("all_path", h)' = PathSeen("all_path", h)
  BY <1>1 DEF PathSeen
<1>7. MissingRewritten'
  BY <1>1 DEF ImportInv, MissingRewritten
<1>8. SeenKept'
  BY <1>1, <1>5, <1>6 DEF ImportInv, SeenKept, PathSeen
<1>9. ListedInOrder'
  <2>1. CASE todo' = Tail(todo)
    <3>1. file.name = "afl" => file.id <= aflMin'
      BY <1>4
    <3>2. ListedInOrder
      BY DEF ImportInv
    <3>3. QED BY <1>1, <1>2, <1>4, <2>1, <3>1, <3>2, TailListed
  <2>2. CASE todo' = todo
    BY <1>1, <1>4, <2>2 DEF ImportInv, ListedInOrder
  <2>3. QED BY <1>3, <2>1, <2>2
<1>10. KeptPassed'
  <2>1. CASE pc' # "keep"
    BY <2>1 DEF KeptPassed
  <2>2. CASE pc' = "keep"
    BY <1>1, <1>3, <1>4, <2>2 DEF KeptPassed
  <2>3. QED BY <2>1, <2>2
<1>11. \/ program.pathAll[input] \in {program.pathAll[j] : j \in TracedInputs'}
       \/ input \in program.crashes
  <2>1. CASE input \in program.crashes
    BY <2>1
  <2>2. CASE Duplicate(input)
    <3>1. PICK t \in Testcase : program.pathAll[queueDir[t + 1].traced] = program.pathAll[input]
      BY <2>2 DEF Duplicate, ImportInv, SeenKept
    <3>2. queueDir[t + 1].traced \in TracedInputs'
      BY <1>5 DEF TracedInputs, InHand
    <3>3. QED BY <3>1, <3>2
  <2>3. CASE pc' = "keep" /\ report'.input = input
    <3>1. input \in TracedInputs'
      BY <2>3 DEF TracedInputs, InHand
    <3>2. QED BY <3>1
  <2>4. QED BY <1>3, <2>1, <2>2, <2>3
<1>12. ImportedTraced'
  <2> SUFFICES ASSUME NEW n \in 0 .. aflMin', n \notin rewritten
               PROVE  TracedRepresented(afl[n + 1])'
    BY <1>1 DEF ImportedTraced, TracedRepresented
  <2>1. CASE n <= aflMin
    <3>1. n \in 0 .. aflMin
      BY <1>4, <2>1
    <3>2. TracedRepresented(afl[n + 1])
      BY <3>1 DEF ImportInv, ImportedTraced
    <3>3. PICK i : i = afl[n + 1]
      OBVIOUS
    <3>4. TracedRepresented(i)'
      BY <1>1, <1>5, <3>2, <3>3, StillTraced
    <3>5. QED BY <1>1, <3>3, <3>4 DEF TracedRepresented
  <2>2. CASE ~(n <= aflMin)
    <3>1. file.name = "afl" /\ aflMin' = file.id
      BY <1>4, <2>2
    <3>2. n = file.id
      <4>1. 1 \in DOMAIN todo /\ file = todo[1]
        BY <1>1, <1>2 DEF TypeFiles
      <4>2. n \in Nat /\ (n < file.id => n <= aflMin \/ n \in rewritten)
        BY <3>1, <4>1 DEF ImportInv, ListedInOrder
      <4>3. QED BY <1>4, <2>2, <3>1, <4>2
    <3>3. ContentOf(file) = afl[n + 1] /\ afl[n + 1] # NoInput
      BY <1>4, <3>1, <3>2 DEF ContentOf, ImportInv, MissingRewritten
    <3>4. PICK i : i = afl[n + 1]
      OBVIOUS
    <3>5. input = i
      BY <3>3, <3>4
    <3>6. program.pathAll[i] \in {program.pathAll[j] : j \in TracedInputs'} \/ i \in program.crashes
      BY <1>11, <3>5
    <3>7. QED BY <1>1, <3>4, <3>6 DEF TracedRepresented
  <2>3. QED BY <2>1, <2>2
<1>13. QED BY <1>7, <1>8, <1>9, <1>10, <1>12 DEF ImportInv

LEMMA KeepTestcaseImportInv ==
  ASSUME TypeOK, QueueInv, ImportInv, KeepTestcase
  PROVE  ImportInv'
<1> DEFINE tc == Len(queueDir)
<1>1. /\ pc = "keep" /\ pc' = "add" /\ todo' = Tail(todo)
      /\ queueDir' = Append(queueDir, Entry)
      /\ UNCHANGED <<program, afl, rewritten, aflMin>>
  BY DEF KeepTestcase, env, Entry
<1>2. TypeTracer /\ TypeFiles /\ todo # <<>>
  BY <1>1 DEF TypeOK, TypeControl
<1>3. tc \in Testcase' /\ Testcase' = Testcase \cup {tc} /\ tc \notin Testcase
  BY <1>1, <1>2 DEF TypeFiles, Testcase
<1>4. /\ \A t \in Testcase : queueDir'[t + 1] = queueDir[t + 1]
      /\ queueDir'[tc + 1].traced = report.input
  BY <1>1, <1>2 DEF TypeFiles, Testcase, Entry
<1>5. TracedInputs \subseteq TracedInputs'
  BY <1>1, <1>3, <1>4 DEF TracedInputs, InHand
<1>6. MissingRewritten'
  BY <1>1 DEF ImportInv, MissingRewritten
<1>7. ListedInOrder'
  <2>1. aflMin' \in Int /\ aflMin <= aflMin'
    BY <1>1, <1>2 DEF TypeFiles
  <2>2. ListedInOrder /\ (Head(todo).name = "afl" => Head(todo).id <= aflMin')
    BY <1>1 DEF ImportInv, KeptPassed
  <2>3. QED BY <1>1, <1>2, <2>1, <2>2, TailListed
<1>8. KeptPassed'
  BY <1>1 DEF KeptPassed
<1>9. SeenKept'
  <2> SUFFICES ASSUME NEW h, \E p \in ids'["all_path"] : p[1] = h
               PROVE  \E t \in Testcase' : program.pathAll[queueDir'[t + 1].traced] = h
    BY <1>1 DEF SeenKept, PathSeen
  <2>1. PathSeen("all_path", h) \/ h = program.pathAll[report.input]
    <3>1. ids'["all_path"] \subseteq ids["all_path"] \cup (Reported("all_path") \X {tc})
      BY DEF KeepTestcase, QueueName, Fresh, OnlyUniqueIds
    <3>2. Reported("all_path") = {program.pathAll[report.input]}
      BY DEF Reported
    <3>3. QED BY <3>1, <3>2 DEF PathSeen
  <2>2. CASE h = program.pathAll[report.input]
    BY <1>3, <1>4, <2>2
  <2>3. CASE PathSeen("all_path", h)
    <3>1. PICK t \in Testcase : program.pathAll[queueDir[t + 1].traced] = h
      BY <2>3 DEF ImportInv, SeenKept
    <3>2. QED BY <1>3, <1>4, <3>1
  <2>4. QED BY <2>1, <2>2, <2>3
<1>10. ImportedTraced'
  <2>1. \A n \in 0 .. aflMin : n \notin rewritten => TracedRepresented(afl[n + 1])
    BY DEF ImportInv, ImportedTraced
  <2>2. \A i : TracedRepresented(i) => TracedRepresented(i)'
    BY <1>1, <1>5, StillTraced
  <2>3. QED BY <1>1, <2>1, <2>2 DEF ImportedTraced, TracedRepresented
<1>11. QED BY <1>6, <1>7, <1>8, <1>9, <1>10 DEF ImportInv

\* AFL adds entries behind afl_min_id, or touches entries that then count as rewritten.
LEMMA AflImportInv ==
  ASSUME TypeOK, ImportInv, Afl
  PROVE  ImportInv'
<1>1. UNCHANGED <<program, ids, queueDir, report, pc, todo, aflMin>>
  BY DEF Afl, AflAdd, AflUnlink, AflRewrite, tracer, queues
<1>2. TypeFiles
  BY DEF TypeOK
<1>3. afl \in Seq(Content) /\ Len(afl) \in Nat /\ aflMin \in -1 .. Len(afl) - 1
  BY <1>2 DEF TypeFiles
<1>4. MissingRewritten /\ rewritten \subseteq 0 .. Len(afl) - 1
  BY <1>2 DEF ImportInv, TypeFiles
<1>5. \A i \in Input : i # NoInput
  BY NoInputAssumption
<1>6. /\ rewritten \subseteq rewritten' /\ Len(afl) <= Len(afl') /\ Len(afl') \in Nat
      /\ \A n \in 0 .. Len(afl) - 1 : n \notin rewritten' => afl'[n + 1] = afl[n + 1]
      /\ MissingRewritten'
  <2>1. CASE AflAdd
    <3>1. PICK i \in Input : afl' = Append(afl, i)
      BY <2>1 DEF AflAdd
    <3>2. rewritten' = rewritten
      BY <2>1 DEF AflAdd
    <3>3. /\ Len(afl') = Len(afl) + 1
          /\ \A n \in 0 .. Len(afl) - 1 : afl'[n + 1] = afl[n + 1]
          /\ afl'[Len(afl) + 1] = i
      BY <1>3, <3>1
    <3>4. MissingRewritten'
      <4> SUFFICES ASSUME NEW n \in 0 .. Len(afl') - 1, afl'[n + 1] = NoInput
                   PROVE  n \in rewritten
        BY <3>2 DEF MissingRewritten
      <4>1. n \in 0 .. Len(afl) - 1 \/ n = Len(afl)
        BY <1>3, <3>3
      <4>2. QED BY <1>4, <1>5, <3>3, <4>1 DEF MissingRewritten
    <3>5. QED BY <1>3, <3>2, <3>3, <3>4
  <2>2. ASSUME NEW n \in 0 .. Len(afl) - 1, NEW i, n \in rewritten', rewritten \subseteq rewritten',
               afl' = [afl EXCEPT ![n + 1] = i]
        PROVE  /\ Len(afl') = Len(afl)
               /\ \A m \in 0 .. Len(afl) - 1 : m # n => afl'[m + 1] = afl[m + 1]
               /\ \A m \in 0 .. Len(afl) - 1 : m \notin rewritten' => afl'[m + 1] = afl[m + 1]
               /\ MissingRewritten'
    <3>1. Len(afl') = Len(afl) /\ \A k \in 1 .. Len(afl) : k # n + 1 => afl'[k] = afl[k]
      BY <1>3, <2>2
    <3>2. \A m \in 0 .. Len(afl) - 1 : m + 1 \in 1 .. Len(afl) /\ (m # n => m + 1 # n + 1)
      BY <1>3
    <3>3. \A m \in 0 .. Len(afl) - 1 : m # n => afl'[m + 1] = afl[m + 1]
      BY <3>1, <3>2
    <3>4. MissingRewritten'
      BY <1>4, <2>2, <3>1, <3>3 DEF MissingRewritten
    <3>5. QED BY <2>2, <3>1, <3>3, <3>4
  <2>3. ASSUME NEW n \in 0 .. Len(afl) - 1, AflUnlink(n) \/ AflRewrite(n)
        PROVE  /\ rewritten \subseteq rewritten' /\ n \in rewritten'
               /\ \E i : afl' = [afl EXCEPT ![n + 1] = i]
    BY <1>4, <2>3 DEF AflUnlink, AflRewrite, MissingRewritten
  <2>4. CASE \E n \in 0 .. Len(afl) - 1 : AflUnlink(n) \/ AflRewrite(n)
    <3>1. PICK n \in 0 .. Len(afl) - 1 : AflUnlink(n) \/ AflRewrite(n)
      BY <2>4
    <3>2. /\ rewritten \subseteq rewritten' /\ n \in rewritten'
          /\ \E i : afl' = [afl EXCEPT ![n + 1] = i]
      BY <2>3, <3>1
    <3>3. PICK i : afl' = [afl EXCEPT ![n + 1] = i]
      BY <3>2
    <3>4. /\ Len(afl') = Len(afl)
          /\ \A m \in 0 .. Len(afl) - 1 : m \notin rewritten' => afl'[m + 1] = afl[m + 1]
          /\ MissingRewritten'
      BY <2>2, <3>2, <3>3
    <3>5. QED BY <1>3, <3>2, <3>4
  <2>5. QED BY <2>1, <2>4 DEF Afl
<1>7. Testcase' = Testcase /\ TracedInputs' = TracedInputs
  BY <1>1 DEF Testcase, TracedInputs, InHand
<1>8. ListedInOrder'
  BY <1>1, <1>6 DEF ImportInv, ListedInOrder
<1>9. KeptPassed' /\ SeenKept'
  BY <1>1, <1>7 DEF ImportInv, KeptPassed, SeenKept, PathSeen
<1>10. ImportedTraced'
  <2>1. \A n \in 0 .. aflMin : n \in 0 .. Len(afl) - 1
    BY <1>3
  <2>2. \A n \in 0 .. aflMin : n \notin rewritten => TracedRepresented(afl[n + 1])
    BY DEF ImportInv, ImportedTraced
  <2>3. QED BY <1>1, <1>6, <1>7, <2>1, <2>2 DEF ImportedTraced, TracedRepresented
<1>11. QED BY <1>6, <1>8, <1>9, <1>10 DEF ImportInv

LEMMA NextImportInv == TypeOK /\ QueueInv /\ ImportInv /\ [Next]_vars => ImportInv'
<1>1. TypeOK /\ QueueInv /\ ImportInv /\ UNCHANGED vars => ImportInv'
  BY DEF vars, queues, tracer, env, ImportInv, MissingRewritten, ListedInOrder, KeptPassed,
         SeenKept, ImportedTraced, TracedRepresented, TracedInputs, InHand, PathSeen, Testcase
<1>2. QED BY <1>1, QuietImportInv, TraceFileImportInv, KeepTestcaseImportInv, AflImportInv
             DEF Next, Runner, Done

THEOREM ImportInvariant == Spec => []ImportInv
  BY TypeCorrect, QueueInvariant, InitImportInv, NextImportInv, PTL DEF Spec

-------------------------------------------------------------------------------
(* The copies in queue/.                                                       *)

\* The file about to be kept still is what the tracer ran, unless it is an entry that AFL
\* has touched.
HeadAsTraced ==
  pc = "keep" =>
    \/ report.input = ContentOf(Head(todo)) /\ report.input # NoInput
    \/ Head(todo).name = "afl" /\ Head(todo).id \in rewritten

\* Testcases are copied from entries up to afl_min_id, and the entry about to be kept is a
\* new one.
SourcesPassed ==
  \A t \in Testcase :
    /\ queueDir[t + 1].source <= aflMin
    /\ pc = "keep" /\ Head(todo).name = "afl" => queueDir[t + 1].source < Head(todo).id

SourcesDistinct ==
  \A s, t \in Testcase :
    queueDir[s + 1].source >= 0 /\ queueDir[s + 1].source = queueDir[t + 1].source => s = t

LostRewritten == \A t \in LostCopies : queueDir[t + 1].source \in rewritten

\* Together with TypeOK, QueueInv and ImportInv they are inductive.
CopiesInv == HeadAsTraced /\ SourcesPassed /\ SourcesDistinct /\ LostRewritten

LEMMA SourceTyped ==
  ASSUME TypeFiles, NEW t \in Testcase
  PROVE  queueDir[t + 1].source \in Int
<1>1. queueDir \in Seq([content : Content, traced : Content, source : Int])
  BY DEF TypeFiles
<1>2. Len(queueDir) \in Nat /\ t + 1 \in 1 .. Len(queueDir)
  BY <1>1 DEF Testcase
<1>3. queueDir[t + 1] \in [content : Content, traced : Content, source : Int]
  BY <1>1, <1>2, ElementOfSeq
<1>4. QED BY <1>3

LEMMA InitCopiesInv == Init => CopiesInv
<1> SUFFICES ASSUME Init PROVE CopiesInv
  OBVIOUS
<1>1. Testcase = {} /\ pc = "add"
  BY DEF Init, Testcase
<1>2. QED BY <1>1 DEF CopiesInv, HeadAsTraced, SourcesPassed, SourcesDistinct, LostRewritten,
                      LostCopies

\* Steps that neither trace nor keep a file, and leave the entries of AFL alone.
LEMMA QuietCopiesInv ==
  ASSUME CopiesInv, pc # "keep", pc' # "keep", UNCHANGED <<queueDir, rewritten, aflMin>>
  PROVE  CopiesInv'
<1>1. Testcase' = Testcase /\ LostCopies' = LostCopies
  BY DEF Testcase, LostCopies
<1>2. QED BY <1>1 DEF CopiesInv, HeadAsTraced, SourcesPassed, SourcesDistinct, LostRewritten

LEMMA TraceFileCopiesInv ==
  ASSUME TypeOK, QueueInv, ImportInv, CopiesInv, TraceFile
  PROVE  CopiesInv'
<1> DEFINE file == Head(todo)
           input == IF ContentOf(file) = NoInput THEN tracerInput ELSE ContentOf(file)
<1>1. /\ pc = "add" /\ todo # <<>> /\ aflMin' = MinId(file)
      /\ ~Skipped(file)
      /\ UNCHANGED <<program, queueDir, afl, rewritten>>
  BY DEF TraceFile, env
<1>2. TypeFiles /\ TypeTracer
  BY DEF TypeOK
<1>3. pc' = "keep" => /\ todo' = todo /\ report'.input = input
                      /\ input \notin program.crashes /\ ~Duplicate(input)
  BY <1>1 DEF TraceFile
<1>4. Testcase' = Testcase /\ LostCopies' = LostCopies
  BY <1>1 DEF Testcase, LostCopies
<1>5. file.name = "afl" => aflMin < file.id /\ file.id \in 0 .. Len(afl) - 1 /\ aflMin' = file.id
  <2>1. aflMin \in Int /\ Len(afl) \in Nat
    BY <1>2 DEF TypeFiles
  <2>2. file.name = "afl" => file.id \in 0 .. Len(afl) - 1
    BY <1>1, <1>2, HeadTyped
  <2>3. QED BY <1>1, <2>1, <2>2 DEF MinId, Skipped
<1>6. HeadAsTraced'
  <2> SUFFICES ASSUME pc' = "keep"
               PROVE  \/ input = ContentOf(file) /\ input # NoInput
                      \/ file.name = "afl" /\ file.id \in rewritten
    BY <1>1, <1>3 DEF HeadAsTraced, ContentOf
  <2>1. CASE ContentOf(file) # NoInput
    BY <2>1
  <2>2. CASE ContentOf(file) = NoInput
    <3>1. file.name \in {"testcase", "seed", "afl"}
      BY <1>1, <1>2, HeadTyped DEF File, FileName, Skipped
    <3>2. file.name = "afl"
      BY <1>1, <1>2, <2>2, <3>1, HeadTyped, NoInputAssumption DEF ContentOf
    <3>3. afl[file.id + 1] = NoInput
      BY <2>2, <3>2 DEF ContentOf
    <3>4. QED BY <1>5, <3>2, <3>3 DEF ImportInv, MissingRewritten
  <2>3. QED BY <2>1, <2>2
<1>7. SourcesPassed'
  <2> SUFFICES ASSUME NEW t \in Testcase
               PROVE  /\ queueDir[t + 1].source <= aflMin'
                      /\ pc' = "keep" /\ file.name = "afl" => queueDir[t + 1].source < file.id
    BY <1>1, <1>3, <1>4 DEF SourcesPassed
  <2>1. queueDir[t + 1].source <= aflMin
    BY DEF CopiesInv, SourcesPassed
  <2>2. queueDir[t + 1].source \in Int /\ aflMin \in Int
    BY <1>2, SourceTyped DEF TypeFiles
  <2>3. file.name # "afl" => aflMin' = aflMin
    BY <1>1 DEF MinId
  <2>4. QED BY <1>5, <2>1, <2>2, <2>3
<1>8. QED BY <1>1, <1>4, <1>6, <1>7 DEF CopiesInv, SourcesDistinct, LostRewritten

LEMMA KeepTestcaseCopiesInv ==
  ASSUME TypeOK, QueueInv, ImportInv, CopiesInv, KeepTestcase
  PROVE  CopiesInv'
<1> DEFINE tc == Len(queueDir)
           file == Head(todo)
<1>1. /\ pc = "keep" /\ pc' = "add"
      /\ queueDir' = Append(queueDir, Entry)
      /\ UNCHANGED <<rewritten, aflMin>>
  BY DEF KeepTestcase, env, Entry
<1>2. TypeTracer /\ TypeFiles /\ todo # <<>>
  BY <1>1 DEF TypeOK, TypeControl
<1>3. tc \in Testcase' /\ Testcase' = Testcase \cup {tc} /\ tc \notin Testcase
  BY <1>1, <1>2 DEF TypeFiles, Testcase
<1>4. (\A t \in Testcase : queueDir'[t + 1] = queueDir[t + 1]) /\ queueDir'[tc + 1] = Entry
  BY <1>1, <1>2 DEF TypeFiles, Testcase
<1>5. /\ aflMin \in Int /\ aflMin >= -1
      /\ \A t \in Testcase : queueDir[t + 1].source \in Int
      /\ file.name = "afl" => file.id \in Nat /\ file.id <= aflMin
  <2>1. aflMin \in Int /\ aflMin >= -1 /\ \A t \in Testcase : queueDir[t + 1].source \in Int
    <3>1. Len(afl) \in Nat
      BY <1>2 DEF TypeFiles
    <3>2. aflMin \in -1 .. Len(afl) - 1
      BY <1>2 DEF TypeFiles
    <3>3. QED BY <1>2, <3>1, <3>2, SourceTyped
  <2>2. file.name = "afl" => file.id <= aflMin
    BY <1>1 DEF ImportInv, KeptPassed
  <2>3. file.name = "afl" => file.id \in Nat
    BY <1>2, HeadTyped
  <2>4. QED BY <2>1, <2>2, <2>3
<1>6. PICK src : src = Entry.source
  OBVIOUS
<1>7. src = IF file.name = "afl" THEN file.id ELSE -1
  BY <1>6 DEF Entry
<1>8. SourcesPassed'
  <2>1. src <= aflMin
    BY <1>5, <1>7
  <2>2. QED BY <1>1, <1>3, <1>4, <1>6, <2>1 DEF CopiesInv, SourcesPassed
<1>9. SourcesDistinct'
  <2>1. ASSUME NEW t \in Testcase, src >= 0 \/ queueDir[t + 1].source >= 0
        PROVE  queueDir[t + 1].source # src
    <3>1. CASE file.name = "afl"
      <4>1. queueDir[t + 1].source < file.id
        BY <1>1, <3>1 DEF CopiesInv, SourcesPassed
      <4>2. QED BY <1>5, <1>7, <3>1, <4>1
    <3>2. CASE file.name # "afl"
      BY <1>5, <1>7, <2>1, <3>2
    <3>3. QED BY <3>1, <3>2
  <2>2. ASSUME NEW s \in Testcase', NEW t \in Testcase', queueDir'[s + 1].source >= 0,
               queueDir'[s + 1].source = queueDir'[t + 1].source
        PROVE  s = t
    <3>1. CASE s \in Testcase /\ t \in Testcase
      BY <1>4, <2>2, <3>1 DEF CopiesInv, SourcesDistinct
    <3>2. CASE s = tc /\ t \in Testcase
      BY <1>4, <1>6, <2>1, <2>2, <3>2
    <3>3. CASE t = tc /\ s \in Testcase
      BY <1>4, <1>6, <2>1, <2>2, <3>3
    <3>4. QED BY <1>3, <3>1, <3>2, <3>3
  <2>3. QED BY <2>2 DEF SourcesDistinct
<1>10. LostRewritten'
  <2> SUFFICES ASSUME NEW t \in LostCopies'
               PROVE  queueDir'[t + 1].source \in rewritten
    BY <1>1 DEF LostRewritten
  <2>1. CASE t \in Testcase
    <3>1. t \in LostCopies
      BY <1>4, <2>1 DEF LostCopies
    <3>2. QED BY <1>4, <2>1, <3>1 DEF CopiesInv, LostRewritten
  <2>2. CASE t = tc
    <3>1. Entry.content = NoInput \/ Entry.content # Entry.traced
      BY <1>4, <2>2 DEF LostCopies
    <3>2. ContentOf(file) = NoInput \/ ContentOf(file) # report.input
      BY <3>1 DEF Entry
    <3>3. file.name = "afl" /\ file.id \in rewritten
      BY <1>1, <3>2 DEF CopiesInv, HeadAsTraced
    <3>4. src \in rewritten
      BY <1>7, <3>3
    <3>5. QED BY <1>4, <1>6, <2>2, <3>4
  <2>3. t \in Testcase'
    BY DEF LostCopies
  <2>4. QED BY <1>3, <2>1, <2>2, <2>3
<1>11. HeadAsTraced'
  BY <1>1 DEF HeadAsTraced
<1>12. QED BY <1>8, <1>9, <1>10, <1>11 DEF CopiesInv

\* An entry that AFL touches under the runner counts as rewritten.
LEMMA AflCopiesInv ==
  ASSUME TypeOK, ImportInv, CopiesInv, Afl
  PROVE  CopiesInv'
<1>1. UNCHANGED <<queueDir, report, pc, todo, aflMin>> /\ TypeFiles
  BY DEF Afl, AflAdd, AflUnlink, AflRewrite, TypeOK
<1>2. afl \in Seq(Content) /\ Len(afl) \in Nat
  BY <1>1 DEF TypeFiles
<1>3. /\ rewritten \subseteq rewritten'
      /\ \A n \in 0 .. Len(afl) - 1 : n \notin rewritten' => afl'[n + 1] = afl[n + 1]
  <2>1. CASE AflAdd
    <3>1. PICK i \in Input : afl' = Append(afl, i)
      BY <2>1 DEF AflAdd
    <3>2. QED BY <1>2, <2>1, <3>1 DEF AflAdd
  <2>2. ASSUME NEW n \in 0 .. Len(afl) - 1, AflUnlink(n) \/ AflRewrite(n)
        PROVE  /\ rewritten \subseteq rewritten' /\ n \in rewritten'
               /\ \E i : afl' = [afl EXCEPT ![n + 1] = i]
    BY <2>2 DEF AflUnlink, AflRewrite, ImportInv, MissingRewritten
  <2>3. ASSUME NEW n \in 0 .. Len(afl) - 1, AflUnlink(n) \/ AflRewrite(n)
        PROVE  /\ rewritten \subseteq rewritten'
               /\ \A m \in 0 .. Len(afl) - 1 : m \notin rewritten' => afl'[m + 1] = afl[m + 1]
    <3>1. PICK i : afl' = [afl EXCEPT ![n + 1] = i]
      BY <2>2, <2>3
    <3>2. \A m \in 0 .. Len(afl) - 1 : m # n => m + 1 # n + 1 /\ m + 1 \in DOMAIN afl
      BY <1>2
    <3>3. \A m \in 0 .. Len(afl) - 1 : m # n => afl'[m + 1] = afl[m + 1]
      BY <3>1, <3>2
    <3>4. QED BY <2>2, <2>3, <3>3
  <2>4. QED BY <2>1, <2>3 DEF Afl
<1>4. Testcase' = Testcase /\ LostCopies' = LostCopies
  BY <1>1 DEF Testcase, LostCopies
<1>5. HeadAsTraced'
  <2> SUFFICES ASSUME pc = "keep", Head(todo).name = "afl" => Head(todo).id \notin rewritten'
               PROVE  report.input = ContentOf(Head(todo))' /\ report.input # NoInput
    BY <1>1 DEF HeadAsTraced, ContentOf
  <2>1. report.input = ContentOf(Head(todo)) /\ report.input # NoInput
    BY <1>3 DEF CopiesInv, HeadAsTraced
  <2>2. CASE Head(todo).name # "afl"
    BY <1>1, <2>1, <2>2 DEF ContentOf
  <2>3. CASE Head(todo).name = "afl"
    <3>1. Head(todo).id \in 0 .. Len(afl) - 1
      BY <1>1, <2>3, HeadTyped DEF TypeOK, TypeControl
    <3>2. QED BY <1>1, <1>3, <2>1, <2>3, <3>1 DEF ContentOf
  <2>4. QED BY <2>2, <2>3
<1>6. QED BY <1>1, <1>3, <1>4, <1>5
             DEF CopiesInv, SourcesPassed, SourcesDistinct, LostRewritten

LEMMA NextCopiesInv == TypeOK /\ QueueInv /\ ImportInv /\ CopiesInv /\ [Next]_vars => CopiesInv'
<1> SUFFICES ASSUME TypeOK, QueueInv, ImportInv, CopiesInv, [Next]_vars PROVE CopiesInv'
  OBVIOUS
<1>1. CASE SkipFile \/ EndAdd \/ ImportFromAfl \/ SelectNone \/ RunTarget
  BY <1>1, QuietCopiesInv DEF SkipFile, EndAdd, ImportFromAfl, SelectNone, RunTarget, env
<1>2. CASE \E t \in Testcase : SelectTestcase(t)
  BY <1>2, QuietCopiesInv DEF SelectTestcase, env
<1>3. CASE UNCHANGED vars
  BY <1>3 DEF vars, env, CopiesInv, HeadAsTraced, SourcesPassed, SourcesDistinct,
              LostRewritten, LostCopies, Testcase, ContentOf
<1>4. QED BY <1>1, <1>2, <1>3, TraceFileCopiesInv, KeepTestcaseCopiesInv, AflCopiesInv
             DEF Next, Runner, Done

\* A copy that failed belongs to an entry AFL unlinked, and no two of them to the same one.
LEMMA LostAttributed ==
  ASSUME TypeOK, CopiesInv
  PROVE  LostOnlyByAfl
<1>1. \A t \in LostCopies : t \in Testcase /\ queueDir[t + 1].source \in rewritten
  BY DEF CopiesInv, LostRewritten, LostCopies
<1>2. \A n \in rewritten : n >= 0
  BY DEF TypeOK, TypeFiles
<1>3. \A t \in LostCopies : t \in Testcase /\ queueDir[t + 1].source >= 0
  BY <1>1, <1>2
<1>4. \A s, t \in LostCopies : queueDir[s + 1].source = queueDir[t + 1].source => s = t
  BY <1>3 DEF CopiesInv, SourcesDistinct
<1>5. QED BY <1>1, <1>4 DEF LostOnlyByAfl

\* What was traced for a kept testcase is in its file, or lost.
LEMMA TracedAtHand ==
  ASSUME TypeOK
  PROVE  TracedInputs \subseteq Saved \cup Lost \cup InHand
<1>1. ASSUME NEW t \in Testcase
      PROVE  queueDir[t + 1].traced \in Saved \cup Lost
  <2>1. CASE t \in LostCopies
    BY <2>1 DEF Lost
  <2>2. CASE t \notin LostCopies
    BY <2>2 DEF LostCopies, Saved
  <2>3. QED BY <2>1, <2>2
<1>2. QED BY <1>1 DEF TracedInputs

THEOREM CopiesInvariant == Spec => []CopiesInv
  BY TypeCorrect, QueueInvariant, ImportInvariant, InitCopiesInv, NextCopiesInv, PTL DEF Spec

\* Every hit the tracer will not report again is shown by a file of queue/, was made by a
\* crashing input, or went with a copy that failed because AFL had unlinked its source; there
\* is at most one such copy for an entry.
THEOREM BitmapCovered == Spec => []CorpusCoversBitmap
<1>1. TypeOK /\ QueueInv /\ CopiesInv => CorpusCoversBitmap
  <2> SUFFICES ASSUME TypeOK, QueueInv, CopiesInv PROVE CorpusCoversBitmap
    OBVIOUS
  <2>1. TracedInputs \cup program.crashes \subseteq Saved \cup Lost \cup InHand \cup program.crashes
    BY TracedAtHand
  <2>2. QED BY <2>1, LostAttributed DEF QueueInv, TracedCoverBitmap, CorpusCoversBitmap
<1>2. QED BY <1>1, TypeCorrect, QueueInvariant, CopiesInvariant, PTL

\* The bound up to which the runner considers the queue of AFL imported skips nothing that
\* AFL left alone: each such entry crashes the tracer, has its whole path in queue/, or had
\* it in a copy that failed because AFL had unlinked the source.
THEOREM ImportsRepresented == Spec => []ImportedRepresented
<1>1. TypeOK /\ ImportInv /\ CopiesInv => ImportedRepresented
  <2> SUFFICES ASSUME TypeOK, ImportInv, CopiesInv PROVE ImportedRepresented
    OBVIOUS
  <2>1. \A i : TracedRepresented(i) => Represented(i)
    BY TracedAtHand DEF TracedRepresented, Represented
  <2>2. QED BY <2>1, LostAttributed DEF ImportInv, ImportedTraced, ImportedRepresented
<1>2. QED BY <1>1, TypeCorrect, ImportInvariant, CopiesInvariant, PTL

-------------------------------------------------------------------------------
(* The order in which testcases are run.                                       *)

\* The count of a testcase that waits is the one it entered the queue with.
CountsAsEntered ==
  \A q \in QueueName : /\ DOMAIN testcaseIds[q] = DOMAIN count[q]
                       /\ \A t \in DOMAIN count[q] : t \notin Ran => count[q][t] = Score(q, t)

EnteredPositive ==
  \A q \in QueueName : \A t \in DOMAIN count[q] : t \notin Ran => count[q][t] > 0

\* Together with TypeOK and QueueInv they are inductive.
OrderInv == CountsAsEntered /\ EnteredPositive /\ OvertakenOnlyByBetter

\* What ranks two testcases does not change once they are in queue/.
LEMMA SameRank ==
  ASSUME NEW u, NEW t, Outranks(u, t),
         \A q \in QueueName : \A x \in {t, u} :
           /\ x \in DOMAIN testcaseIds'[q] <=> x \in DOMAIN testcaseIds[q]
           /\ x \in DOMAIN testcaseIds[q] => Score(q, x)' = Score(q, x)
  PROVE  Outranks(u, t)'
<1>1. \A n \in DOMAIN PickOrder : PickOrder[n] \in QueueName
  BY DEF PickOrder, QueueName
<1>2. PICK n \in DOMAIN PickOrder :
        /\ \A m \in 1 .. n - 1 : {t, u} \cap DOMAIN testcaseIds[PickOrder[m]] = {}
        /\ u \in DOMAIN testcaseIds[PickOrder[n]]
        /\ t \in DOMAIN testcaseIds[PickOrder[n]] =>
             Score(PickOrder[n], u) > Score(PickOrder[n], t)
  BY DEF Outranks
<1>3. \A m \in 1 .. n - 1 : m \in DOMAIN PickOrder
  BY DEF PickOrder
<1>4. \A m \in 1 .. n - 1 : {t, u} \cap DOMAIN testcaseIds'[PickOrder[m]] = {}
  BY <1>1, <1>2, <1>3
<1>5. u \in DOMAIN testcaseIds'[PickOrder[n]]
  BY <1>1, <1>2
<1>6. t \in DOMAIN testcaseIds'[PickOrder[n]] => Score(PickOrder[n], u)' > Score(PickOrder[n], t)'
  BY <1>1, <1>2
<1>7. QED BY <1>4, <1>5, <1>6 DEF Outranks, Score

LEMMA FrameOrderInv ==
  ASSUME OrderInv, UNCHANGED <<count, testcaseIds, queueDir, ran>>
  PROVE  OrderInv'
<1>1. Ran' = Ran /\ Testcase' = Testcase /\ \A q, t : Score(q, t)' = Score(q, t)
  BY DEF Ran, Testcase, Score
<1>2. CountsAsEntered' /\ EnteredPositive'
  BY <1>1 DEF OrderInv, CountsAsEntered, EnteredPositive
<1>3. ASSUME NEW u \in Ran, NEW t \in Testcase \ Ran, t < u
      PROVE  Outranks(u, t)'
  BY <1>1, <1>3, SameRank DEF OrderInv, OvertakenOnlyByBetter
<1>4. QED BY <1>1, <1>2, <1>3 DEF OrderInv, OvertakenOnlyByBetter

LEMMA KeepTestcaseOrderInv ==
  ASSUME TypeOK, OrderInv, KeepTestcase
  PROVE  OrderInv'
<1> DEFINE tc == Len(queueDir)
           imported == IF Head(todo).name = "afl" THEN 1 ELSE 0
<1>1. pc = "keep" /\ queueDir' = Append(queueDir, Entry) /\ ran' = ran
  BY DEF KeepTestcase, Entry
<1>2. TypeTracer /\ TypeQueues /\ TypeFiles /\ todo # <<>>
  BY <1>1 DEF TypeOK, TypeControl
<1>3. /\ tc \in Nat /\ Testcase = 0 .. tc - 1 /\ Testcase' = Testcase \cup {tc}
      /\ tc \notin Testcase /\ Ran' = Ran /\ Ran \subseteq Testcase
  BY <1>1, <1>2 DEF TypeFiles, Testcase, Ran
<1>4. (\A t \in Testcase : queueDir'[t + 1] = queueDir[t + 1]) /\ queueDir'[tc + 1] = Entry
  BY <1>1, <1>2 DEF TypeFiles, Testcase
<1>5. (IF Entry.source >= 0 THEN 1 ELSE 0) = imported
  BY <1>2, HeadTyped DEF Entry
<1>6. ASSUME NEW q \in QueueName
      PROVE  /\ DOMAIN testcaseIds[q] = DOMAIN count[q]
             /\ DOMAIN count[q] \subseteq Testcase
  BY <1>2 DEF TypeQueues
<1>7. ASSUME NEW q \in QueueName
      PROVE  \/ count'[q] = count[q] /\ testcaseIds'[q] = testcaseIds[q]
             \/ /\ DOMAIN count'[q] = DOMAIN count[q] \cup {tc}
                /\ DOMAIN testcaseIds'[q] = DOMAIN count[q] \cup {tc}
                /\ \A t \in DOMAIN count[q] : /\ count'[q][t] = count[q][t]
                                              /\ testcaseIds'[q][t] = testcaseIds[q][t]
                /\ count'[q][tc] = Cardinality(Reported(q)) + imported
                /\ count'[q][tc] > 0
                /\ testcaseIds'[q][tc] = Reported(q)
  <2>1. CASE Fresh(q) = {}
    BY <2>1 DEF KeepTestcase
  <2>2. CASE Fresh(q) # {}
    <3>1. /\ count'[q] = Extend(count[q], tc, Cardinality(Reported(q)) + imported)
          /\ testcaseIds'[q] = Extend(testcaseIds[q], tc, Reported(q))
      BY <2>2 DEF KeepTestcase
    <3>2. tc \notin DOMAIN count[q] /\ Cardinality(Reported(q)) + imported > 0
      BY <1>2, <1>3, <1>6, <2>2, ReportedCount
    <3>3. QED BY <3>1, <3>2, <1>6 DEF Extend
  <2>3. QED BY <2>1, <2>2
<1>8. ASSUME NEW q \in QueueName, NEW t \in DOMAIN count[q]
      PROVE  Score(q, t)' = Score(q, t)
  <2>1. t \in Testcase /\ testcaseIds'[q][t] = testcaseIds[q][t]
    BY <1>6, <1>7
  <2>2. QED BY <1>4, <2>1 DEF Score
<1>9. CountsAsEntered'
  <2> SUFFICES ASSUME NEW q \in QueueName
               PROVE  /\ DOMAIN testcaseIds'[q] = DOMAIN count'[q]
                      /\ \A t \in DOMAIN count'[q] : t \notin Ran => count'[q][t] = Score(q, t)'
    BY <1>3 DEF CountsAsEntered
  <2>1. DOMAIN testcaseIds'[q] = DOMAIN count'[q]
    BY <1>6, <1>7
  <2>2. ASSUME NEW t \in DOMAIN count'[q], t \notin Ran
        PROVE  count'[q][t] = Score(q, t)'
    <3>1. CASE t \in DOMAIN count[q]
      <4>1. count'[q][t] = count[q][t]
        BY <1>7, <3>1
      <4>2. QED BY <1>8, <2>2, <3>1, <4>1 DEF OrderInv, CountsAsEntered
    <3>2. CASE t \notin DOMAIN count[q]
      <4>1. /\ t = tc /\ count'[q][tc] = Cardinality(Reported(q)) + imported
            /\ testcaseIds'[q][tc] = Reported(q)
        BY <1>7, <2>2, <3>2
      <4>2. Score(q, t)' = Cardinality(Reported(q)) + imported
        <5>1. Score(q, t)' = Cardinality(testcaseIds'[q][t])
                               + (IF queueDir'[t + 1].source >= 0 THEN 1 ELSE 0)
          BY DEF Score
        <5>2. (IF queueDir'[t + 1].source >= 0 THEN 1 ELSE 0) = imported
          BY <1>4, <1>5, <4>1
        <5>3. QED BY <4>1, <5>1, <5>2
      <4>3. QED BY <4>1, <4>2
    <3>3. QED BY <3>1, <3>2
  <2>3. QED BY <2>1, <2>2
<1>positive. EnteredPositive'
  <2> SUFFICES ASSUME NEW q \in QueueName, NEW t \in DOMAIN count'[q], t \notin Ran
               PROVE  count'[q][t] > 0
    BY <1>3 DEF EnteredPositive
  <2>1. CASE t \in DOMAIN count[q]
    BY <1>7, <2>1 DEF OrderInv, EnteredPositive
  <2>2. CASE t \notin DOMAIN count[q]
    BY <1>7, <2>2
  <2>3. QED BY <2>1, <2>2
<1>10. ASSUME NEW u \in Ran, NEW t \in Testcase' \ Ran, t < u
       PROVE  Outranks(u, t)'
  <2>1. t \in Testcase /\ u \in Testcase
    BY <1>3, <1>10
  <2>2. Outranks(u, t)
    BY <1>10, <2>1 DEF OrderInv, OvertakenOnlyByBetter
  <2>3. ASSUME NEW q \in QueueName, NEW x \in {t, u}
        PROVE  /\ x \in DOMAIN testcaseIds'[q] <=> x \in DOMAIN testcaseIds[q]
               /\ x \in DOMAIN testcaseIds[q] => Score(q, x)' = Score(q, x)
    <3>1. x # tc
      BY <1>3, <2>1
    <3>2. QED BY <1>6, <1>7, <1>8, <3>1
  <2>4. QED BY <2>2, <2>3, SameRank
<1>11. QED BY <1>3, <1>9, <1>positive, <1>10 DEF OrderInv, OvertakenOnlyByBetter

\* The testcase picked outranks every one that is older and still waits.
LEMMA PickedOutranks ==
  ASSUME TypeOK, QueueInv, OrderInv, NEW u \in Testcase, SelectTestcase(u),
         NEW t \in Testcase, t \notin Ran, t < u
  PROVE  Outranks(u, t)
<1>1. PICK n \in DOMAIN PickOrder : /\ \A m \in 1 .. n - 1 : NothingWaiting(PickOrder[m])
                                    /\ HasHighestCount(PickOrder[n], u)
  BY DEF SelectTestcase
<1>2. PickOrder[n] \in QueueName /\ \A m \in 1 .. n - 1 : PickOrder[m] \in QueueName
  BY DEF PickOrder, QueueName
<1>3. \A q \in QueueName : DOMAIN testcaseIds[q] = DOMAIN count[q]
  BY DEF OrderInv, CountsAsEntered
<1>4. u \in DOMAIN count[PickOrder[n]] /\ count[PickOrder[n]][u] > 0 /\ u \notin Ran
  BY <1>1, <1>2 DEF HasHighestCount, QueueInv, RanDone
<1>5. ASSUME NEW q \in QueueName, NEW x \in DOMAIN count[q], x \notin Ran
      PROVE  count[q][x] = Score(q, x) /\ count[q][x] > 0 /\ count[q][x] \in Nat
  <2>1. count[q][x] = Score(q, x) /\ count[q][x] \in Nat
    BY <1>5 DEF OrderInv, CountsAsEntered, TypeOK, TypeQueues
  <2>2. count[q][x] > 0
    BY <1>5 DEF OrderInv, EnteredPositive
  <2>3. QED BY <2>1, <2>2
<1>6. ASSUME NEW m \in 1 .. n - 1
      PROVE  {t, u} \cap DOMAIN testcaseIds[PickOrder[m]] = {}
  <2>1. \A x \in DOMAIN count[PickOrder[m]] : count[PickOrder[m]][x] = 0
    BY <1>1 DEF NothingWaiting
  <2>2. \A x \in {t, u} : x \notin DOMAIN count[PickOrder[m]]
    BY <1>2, <1>4, <1>5, <2>1
  <2>3. QED BY <1>2, <1>3, <2>2
<1>7. ASSUME t \in DOMAIN testcaseIds[PickOrder[n]]
      PROVE  Score(PickOrder[n], u) > Score(PickOrder[n], t)
  <2>1. t \in DOMAIN count[PickOrder[n]]
    BY <1>2, <1>3, <1>7
  <2>2. count[PickOrder[n]][t] < count[PickOrder[n]][u]
    <3>1. ~(u <= t)
      BY DEF Testcase
    <3>2. QED BY <1>1, <2>1, <3>1 DEF HasHighestCount
  <2>3. QED BY <1>2, <1>4, <1>5, <2>1, <2>2
<1>8. QED BY <1>2, <1>3, <1>4, <1>6, <1>7 DEF Outranks

LEMMA SelectTestcaseOrderInv ==
  ASSUME TypeOK, QueueInv, OrderInv, NEW u \in Testcase, SelectTestcase(u)
  PROVE  OrderInv'
<1>1. /\ MarkProcessed(u) /\ ran' = Append(ran, u) /\ queueDir' = queueDir
      /\ testcaseIds' = testcaseIds
  BY DEF SelectTestcase, MarkProcessed
<1>2. TypeFiles
  BY DEF TypeOK
<1>3. Testcase' = Testcase /\ Ran' = Ran \cup {u}
  <2>1. /\ Len(ran) \in Nat /\ DOMAIN ran = 1 .. Len(ran) /\ DOMAIN ran' = 1 .. Len(ran) + 1
        /\ ran'[Len(ran) + 1] = u
        /\ \A k \in DOMAIN ran : ran'[k] = ran[k]
    BY <1>1, <1>2 DEF TypeFiles
  <2>2. DOMAIN ran' = DOMAIN ran \cup {Len(ran) + 1}
    BY <2>1
  <2>3. QED BY <1>1, <2>1, <2>2 DEF Ran, Testcase
<1>4. \A q, t : Score(q, t)' = Score(q, t)
  BY <1>1 DEF Score
<1>5. ASSUME NEW q \in QueueName
      PROVE  /\ DOMAIN count'[q] = DOMAIN count[q]
             /\ \A t \in DOMAIN count[q] : t # u => count'[q][t] = count[q][t]
  BY <1>1 DEF MarkProcessed
<1>6. CountsAsEntered' /\ EnteredPositive'
  BY <1>1, <1>3, <1>4, <1>5 DEF OrderInv, CountsAsEntered, EnteredPositive
<1>7. ASSUME NEW v \in Ran', NEW t \in Testcase \ Ran', t < v
      PROVE  Outranks(v, t)'
  <2>1. t \in Testcase /\ t \notin Ran
    BY <1>3, <1>7
  <2>2. Outranks(v, t)
    <3>1. CASE v = u
      BY <1>7, <2>1, <3>1, PickedOutranks
    <3>2. CASE v \in Ran
      BY <1>7, <2>1, <3>2 DEF OrderInv, OvertakenOnlyByBetter
    <3>3. QED BY <1>3, <3>1, <3>2
  <2>3. QED BY <1>1, <1>4, <2>2, SameRank
<1>8. QED BY <1>3, <1>6, <1>7 DEF OrderInv, OvertakenOnlyByBetter

LEMMA NextOrderInv == TypeOK /\ QueueInv /\ OrderInv /\ [Next]_vars => OrderInv'
<1> SUFFICES ASSUME TypeOK, QueueInv, OrderInv, [Next]_vars PROVE OrderInv'
  OBVIOUS
<1>1. CASE SkipFile \/ TraceFile \/ EndAdd \/ ImportFromAfl \/ SelectNone \/ RunTarget
  BY <1>1, FrameOrderInv
     DEF SkipFile, TraceFile, EndAdd, ImportFromAfl, SelectNone, RunTarget, queues
<1>2. CASE Afl
  BY <1>2, FrameOrderInv DEF Afl, AflAdd, AflUnlink, AflRewrite, queues
<1>3. CASE UNCHANGED vars
  BY <1>3, FrameOrderInv DEF vars, queues
<1>4. CASE \E t \in Testcase : SelectTestcase(t)
  BY <1>4, SelectTestcaseOrderInv
<1>5. QED BY <1>1, <1>2, <1>3, <1>4, KeepTestcaseOrderInv DEF Next, Runner, Done

\* A testcase that waits is overtaken only by those that outrank it, whatever AFL adds.
THEOREM OvertakingOrdered == Spec => []OvertakenOnlyByBetter
<1>1. Init => OrderInv
  BY DEF Init, OrderInv, CountsAsEntered, EnteredPositive, OvertakenOnlyByBetter, Ran, QueueName
<1>2. OrderInv => OvertakenOnlyByBetter
  BY DEF OrderInv
<1>3. QED BY <1>1, <1>2, TypeCorrect, QueueInvariant, NextOrderInv, PTL DEF Spec
===============================================================================
