---------------------------- MODULE SymfusionQueue ----------------------------
(***************************************************************************)
(* The exploration loop of the runner in SYMFUSION_MODE: the queue manager *)
(* (src/runner/queue_manager.py) with its four queues, the path tracer it  *)
(* asks about every candidate (src/runner/path_tracer.py), the import of   *)
(* testcases from a running AFL, and the loop of Executor.run that picks a *)
(* testcase, runs the target on it and feeds what it generated back.       *)
(*                                                                         *)
(* AFL is another process: it adds to its own queue directory, and trims   *)
(* an entry in place, while the runner is between any two steps.  The      *)
(* tracer child and the target are external: a program is what they report *)
(* and generate for each input.                                            *)
(***************************************************************************)
EXTENDS Integers, Sequences, FiniteSets

CONSTANTS
  Input,        \* contents of testcase files
  NoInput,      \* "there is no file": a missing testcase
  Edge,         \* indices of the edge bitmaps
  Bucket,       \* hit-count classes of an edge
  Path,         \* path hashes
  Programs,     \* the programs under test (ProgramType)
  MaxAfl,       \* bound: entries AFL creates
  MaxRewrites,  \* bound: entries AFL trims in place
  MaxOutputs    \* bound: testcases one run generates

Content == Input \cup {NoInput}
Hits == SUBSET (Edge \X Bucket)
Id == Edge \cup Path

\* The names that add_from_dir tells apart: a generated testcase or a seed, a seed
\* called "seed", a log, the copy of the input being run, an entry of the AFL queue,
\* and an AFL entry that glob does not see because AFL has just unlinked it.
FileName == {"testcase", "seed", "log", "input_file", "afl", "gone"}
File == [name : FileName, id : Int, content : Content]

ProgramType ==
  [main : [Content -> Hits],          \* edges of the application, with their hit counts
   all : [Content -> Hits],           \* edges of all code
   pathMain : [Content -> Path],      \* hash of the application's path
   pathAll : [Content -> Path],       \* hash of the whole path
   crashes : SUBSET Content,          \* inputs for which the tracer writes no hash
   generates : [Content -> SUBSET Input],
   seeds : Seq(File),
   afl : BOOLEAN]                     \* is it explored together with AFL (-a)?

\* No path hash collides: equal hashes of the whole path mean the same run, and equal
\* hashes of the application's path mean the same application edges.
NoCollision(p) ==
  \A i, j \in Content :
    /\ p.pathAll[i] = p.pathAll[j] =>
         /\ p.all[i] = p.all[j]
         /\ p.main[i] = p.main[j]
         /\ p.pathMain[i] = p.pathMain[j]
    /\ p.pathMain[i] = p.pathMain[j] => p.main[i] = p.main[j]

ASSUME NoInputAssumption == NoInput \notin Input
ASSUME FiniteAssumption == IsFiniteSet(Edge) /\ IsFiniteSet(Path)
ASSUME QueueBoundsAssumption == MaxAfl \in Nat /\ MaxOutputs \in Nat
ASSUME ProgramsAssumption == Programs \subseteq ProgramType
ASSUME SeedsAssumption ==
  \A p \in Programs : \A k \in DOMAIN p.seeds :
    p.seeds[k].name \notin {"afl", "gone"} /\ p.seeds[k].content \in Input
ASSUME CollisionAssumption == \A p \in Programs : NoCollision(p)

QueueName == {"main_edges", "all_edges", "main_path", "all_path"}

PickOrder == <<"main_edges", "all_edges", "main_path", "all_path">>
OnlyUniqueIds(q) == q \in {"main_path", "all_path"}

VARIABLES
  program,      \* the program under test: never changes
  bitmap,       \* [main, all]: the cumulative edge bitmaps of the tracer
  tracerInput,  \* tracer/input, the file the tracer child reads
  ids,          \* per queue, Queue.ids: pairs <<id, testcase>>
  processed,    \* per queue, the pairs of Queue.ids marked True
  count,        \* per queue, Queue.count_ids: a testcase |-> number partial function
  testcaseIds,  \* per queue, Queue.testcase_ids
  queueDir,     \* the files of queue/, in tick order: what the file holds, what the tracer
                \* was run on for it, and the AFL entry it was copied from (-1: none), which
                \* its name tells (src:, sync:afl)
  ran,          \* testcases handed to fuzz_one so far, in order (history; "runs > 0")
  current,      \* the testcase being run, or -1
  afl,          \* the AFL queue directory: entry id |-> content
  aflMin,       \* afl_min_id
  rewritten,    \* AFL entries that were trimmed in place
  pc, phase,    \* control point of the runner, and who called add_from_dir
  todo,         \* files add_from_dir has still to look at
  report        \* what the tracer reported for Head(todo)

tracer == <<bitmap, tracerInput>>
queues == <<ids, processed, count, testcaseIds>>
env == <<afl, rewritten>>
vars == <<program, tracer, queues, queueDir, ran, current, env, aflMin, pc, phase,
          todo, report>>

NoReport == [input |-> NoInput, main |-> {}, all |-> {}]

Testcase == 0 .. Len(queueDir) - 1

Ran == {ran[k] : k \in DOMAIN ran}

Init ==
  /\ program \in Programs
  /\ bitmap = [main |-> {}, all |-> {}]
  /\ tracerInput = NoInput
  /\ ids = [q \in QueueName |-> {}]
  /\ processed = [q \in QueueName |-> {}]
  /\ count = [q \in QueueName |-> [t \in {} |-> 0]]
  /\ testcaseIds = [q \in QueueName |-> [t \in {} |-> {}]]
  /\ queueDir = <<>>
  /\ ran = <<>>
  /\ current = -1
  /\ afl = <<>>
  /\ aflMin = -1
  /\ rewritten = {}
  /\ pc = "add"
  /\ phase = "seed"
  /\ todo = program.seeds
  /\ report = NoReport

-------------------------------------------------------------------------------
(* add_from_dir: the files of the directory, one by one.                       *)

ContentOf(file) ==
  IF file.name = "afl" THEN afl[file.id + 1] ELSE file.content

Skipped(file) ==
  \/ file.name \in {"log", "input_file", "gone"}
  \/ phase = "seed" /\ file.name = "seed"     \* same basename as the source testcase
  \/ file.name = "afl" /\ file.id <= aflMin

SkipFile ==
  /\ pc = "add" /\ todo # <<>>
  /\ Skipped(Head(todo))
  /\ todo' = Tail(todo)
  /\ UNCHANGED <<program, tracer, queues, queueDir, ran, current, env, aflMin, pc, phase,
                 report>>

Merge(input) ==
  [main |-> bitmap.main \cup program.main[input], all |-> bitmap.all \cup program.all[input]]

\* The tracer reports an edge when its hit-count class was never seen before.
NewEdges(hits, seen) == {h[1] : h \in hits \ seen}

PathSeen(q, hash) == \E p \in ids[q] : p[1] = hash

\* Mutant of Duplicate: looks at the application only.
DuplicateAppOnly(input) ==
  /\ NewEdges(program.main[input], bitmap.main) = {}
  /\ PathSeen("main_path", program.pathMain[input])

\* Mutant of Duplicate: each hash is looked up in the other path queue.
DuplicateSwapped(input) ==
  /\ NewEdges(program.main[input], bitmap.main) = {}
  /\ NewEdges(program.all[input], bitmap.all) = {}
  /\ PathSeen("main_path", program.pathAll[input])
  /\ PathSeen("all_path", program.pathMain[input])

Duplicate(input) ==
  /\ NewEdges(program.main[input], bitmap.main) = {}
  /\ NewEdges(program.all[input], bitmap.all) = {}
  /\ PathSeen("main_path", program.pathMain[input])
  /\ PathSeen("all_path", program.pathAll[input])

\* Mutant of MinId: the newest entry of the directory instead of the one looked at.
MinIdNewest(file) == IF file.name = "afl" THEN Len(afl) - 1 ELSE aflMin

MinId(file) == IF file.name = "afl" THEN file.id ELSE aflMin

\* add, up to the verdict: copy the file for the tracer and run it.  The copy is not
\* checked: when AFL has unlinked the file the tracer runs on the input of the last run.
\* A crash leaves no path hash and counts as a duplicate; whether the dying child had
\* already updated the bitmap is not known.
TraceFile ==
  /\ pc = "add" /\ todo # <<>>
  /\ ~Skipped(Head(todo))
  /\ LET file == Head(todo)
         input == IF ContentOf(file) = NoInput THEN tracerInput ELSE ContentOf(file)
     IN /\ tracerInput' = input
        /\ aflMin' = MinId(file)
        /\ \/ /\ input \in program.crashes
              /\ bitmap' \in {bitmap, Merge(input)}
              /\ todo' = Tail(todo)
              /\ UNCHANGED <<pc, report>>
           \/ /\ input \notin program.crashes
              /\ Duplicate(input)
              /\ bitmap' = Merge(input)
              /\ todo' = Tail(todo)
              /\ UNCHANGED <<pc, report>>
           \/ /\ input \notin program.crashes
              /\ ~Duplicate(input)
              /\ bitmap' = Merge(input)
              /\ report' = [input |-> input,
                            main |-> NewEdges(program.main[input], bitmap.main),
                            all |-> NewEdges(program.all[input], bitmap.all)]
              /\ pc' = "keep"
              /\ UNCHANGED todo
  /\ UNCHANGED <<program, queues, queueDir, ran, current, env, phase>>

-------------------------------------------------------------------------------
(* add, after the verdict: copy the file to queue/ and enter it in the queues.  *)
(* This second copy is not checked either: when AFL has unlinked or rewritten   *)
(* the entry since it was traced, the queues get a testcase whose file is       *)
(* missing, or is another input.                                                *)

\* Mutant of Reported: a testcase with new edges does not enter the path queue.
ReportedElse(q) ==
  CASE q = "main_edges" -> report.main
    [] q = "all_edges" -> report.all
    [] q = "main_path" -> IF report.main = {} THEN {program.pathMain[report.input]} ELSE {}
    [] q = "all_path" -> {program.pathAll[report.input]}

Reported(q) ==
  CASE q = "main_edges" -> report.main
    [] q = "all_edges" -> report.all
    [] q = "main_path" -> {program.pathMain[report.input]}
    [] q = "all_path" -> {program.pathAll[report.input]}

Fresh(q) == {id \in Reported(q) : ~PathSeen(q, id)}

Extend(f, t, v) == [x \in DOMAIN f \cup {t} |-> IF x = t THEN v ELSE f[x]]

KeepTestcase ==
  /\ pc = "keep"
  /\ LET file == Head(todo)
         tc == Len(queueDir)
         imported == IF file.name = "afl" THEN 1 ELSE 0
     IN /\ queueDir' = Append(queueDir,
             [content |-> ContentOf(file), traced |-> report.input,
              source |-> IF file.name = "afl" THEN file.id ELSE -1])
        /\ ids' = [q \in QueueName |-> ids[q] \cup
                     ((IF OnlyUniqueIds(q) THEN Fresh(q) ELSE Reported(q)) \X {tc})]
        /\ count' = [q \in QueueName |->
                       IF Fresh(q) = {} THEN count[q]
                       ELSE Extend(count[q], tc, Cardinality(Reported(q)) + imported)]
        /\ testcaseIds' = [q \in QueueName |->
                             IF Fresh(q) = {} THEN testcaseIds[q]
                             ELSE Extend(testcaseIds[q], tc, Reported(q))]
  /\ todo' = Tail(todo)
  /\ report' = NoReport
  /\ pc' = "add"
  /\ UNCHANGED <<program, tracer, processed, ran, current, env, aflMin, phase>>

EndAdd ==
  /\ pc = "add" /\ todo = <<>>
  /\ pc' = IF phase = "import" THEN "select" ELSE "pick"
  /\ UNCHANGED <<program, tracer, queues, queueDir, ran, current, env, aflMin, phase,
                 todo, report>>

-------------------------------------------------------------------------------
(* pick_testcase and the loop of Executor.run.                                 *)

\* Mutant of AflListing: ids counted from 1.
AflListingFromOne ==
  [n \in 1 .. Len(afl) |->
     [name |-> IF afl[n] = NoInput THEN "gone" ELSE "afl", id |-> n, content |-> NoInput]]

AflListing ==
  [n \in 1 .. Len(afl) |->
     [name |-> IF afl[n] = NoInput THEN "gone" ELSE "afl", id |-> n - 1, content |-> NoInput]]

ImportFromAfl ==
  /\ pc = "pick"
  /\ todo' = IF program.afl THEN AflListing ELSE <<>>
  /\ phase' = "import"
  /\ pc' = "add"
  /\ UNCHANGED <<program, tracer, queues, queueDir, ran, current, env, aflMin, report>>

NothingWaiting(q) == \A t \in DOMAIN count[q] : count[q][t] = 0

\* Mutant of HasHighestCount: among equals the one saved last.
HasHighestCountNewest(q, t) ==
  /\ t \in DOMAIN count[q]
  /\ count[q][t] > 0
  /\ \A u \in DOMAIN count[q] :
       count[q][u] < count[q][t] \/ (count[q][u] = count[q][t] /\ u <= t)

\* max over a dict: the first key, in order of insertion, with the highest count.
HasHighestCount(q, t) ==
  /\ t \in DOMAIN count[q]
  /\ count[q][t] > 0
  /\ \A u \in DOMAIN count[q] :
       count[q][u] < count[q][t] \/ (count[q][u] = count[q][t] /\ t <= u)

\* Mutant of MarkProcessed: the path queues are forgotten.
MarkProcessedEdges(t) ==
  /\ count' = [q \in QueueName |->
                 IF t \in DOMAIN count[q] /\ ~OnlyUniqueIds(q)
                   THEN [count[q] EXCEPT ![t] = 0] ELSE count[q]]
  /\ UNCHANGED <<ids, processed, testcaseIds>>

\* mark_testcase_as_processed, in all the queues.
MarkProcessed(t) ==
  LET member == {q \in QueueName : t \in DOMAIN count[q]}
  IN /\ ids' = [q \in QueueName |->
                  IF q \in member THEN ids[q] \cup (testcaseIds[q][t] \X {t}) ELSE ids[q]]
     /\ processed' = [q \in QueueName |->
                        IF q \in member THEN processed[q] \cup (testcaseIds[q][t] \X {t})
                        ELSE processed[q]]
     /\ count' = [q \in QueueName |->
                    IF q \in member THEN [count[q] EXCEPT ![t] = 0] ELSE count[q]]
     /\ UNCHANGED testcaseIds

SelectTestcase(t) ==
  /\ pc = "select"
  /\ \E n \in DOMAIN PickOrder :
       /\ \A m \in 1 .. n - 1 : NothingWaiting(PickOrder[m])
       /\ HasHighestCount(PickOrder[n], t)
  /\ MarkProcessed(t)
  /\ ran' = Append(ran, t)
  /\ current' = t
  /\ pc' = "run"
  /\ UNCHANGED <<program, tracer, queueDir, env, aflMin, phase, todo, report>>

\* Mutant of SelectNone: polls again whether or not there is an AFL.
SelectNonePolls ==
  /\ pc = "select"
  /\ \A q \in QueueName : NothingWaiting(q)
  /\ pc' = IF ran # <<>> THEN "pick" ELSE "done"
  /\ UNCHANGED <<program, tracer, queues, queueDir, ran, current, env, aflMin, phase,
                 todo, report>>

\* Mutant of SelectNone: ends the exploration although AFL is running.
SelectNoneEnds ==
  /\ pc = "select"
  /\ \A q \in QueueName : NothingWaiting(q)
  /\ pc' = "done"
  /\ UNCHANGED <<program, tracer, queues, queueDir, ran, current, env, aflMin, phase,
                 todo, report>>

\* No testcase: after the first run the loop polls AFL again, and ends without AFL; the
\* very first pick ends the exploration in both cases.
SelectNone ==
  /\ pc = "select"
  /\ \A q \in QueueName : NothingWaiting(q)
  /\ pc' = IF program.afl /\ ran # <<>> THEN "pick" ELSE "done"
  /\ UNCHANGED <<program, tracer, queues, queueDir, ran, current, env, aflMin, phase,
                 todo, report>>

Outputs(input) ==
  UNION {[1 .. n -> [name : {"testcase"}, id : {-1}, content : program.generates[input]]] :
           n \in 0 .. MaxOutputs}

\* fuzz_one: the target may be stopped by the timeout, so it generates any part of what
\* it could.  Its working directory holds the input too.
RunTarget ==
  /\ pc = "run"
  /\ LET input == queueDir[current + 1].content
     IN \E out \in Outputs(input) :
          todo' = <<[name |-> "input_file", id |-> -1, content |-> input]>> \o out
  /\ current' = -1
  /\ phase' = "run"
  /\ pc' = "add"
  /\ UNCHANGED <<program, tracer, queues, queueDir, ran, env, aflMin, report>>

-------------------------------------------------------------------------------
(* AFL: entries appear in id order, and an entry may be unlinked and rewritten. *)

AflAdd ==
  /\ program.afl /\ Len(afl) < MaxAfl
  /\ \E i \in Input : afl' = Append(afl, i)
  /\ UNCHANGED <<program, tracer, queues, queueDir, ran, current, rewritten, aflMin, pc,
                 phase, todo, report>>

AflUnlink(n) ==
  /\ program.afl /\ Cardinality(rewritten) < MaxRewrites
  /\ n \notin rewritten
  /\ afl' = [afl EXCEPT ![n + 1] = NoInput]
  /\ rewritten' = rewritten \cup {n}
  /\ UNCHANGED <<program, tracer, queues, queueDir, ran, current, aflMin, pc, phase, todo,
                 report>>

AflRewrite(n) ==
  /\ afl[n + 1] = NoInput
  /\ \E i \in Input : afl' = [afl EXCEPT ![n + 1] = i]
  /\ UNCHANGED <<program, tracer, queues, queueDir, ran, current, rewritten, aflMin, pc,
                 phase, todo, report>>

-------------------------------------------------------------------------------
Runner ==
  \/ SkipFile \/ TraceFile \/ KeepTestcase \/ EndAdd
  \/ ImportFromAfl
  \/ \E t \in Testcase : SelectTestcase(t)
  \/ SelectNone
  \/ RunTarget

Afl ==
  \/ AflAdd
  \/ \E n \in 0 .. Len(afl) - 1 : AflUnlink(n) \/ AflRewrite(n)

Done == pc = "done" /\ UNCHANGED vars

Next == Runner \/ Afl \/ Done

Spec == Init /\ [][Next]_vars

\* The runner is a single thread that always has a next step; the tracer and the target
\* end every run (see README for what happens when they do not).
FairSpec == Spec /\ WF_vars(Runner)
-------------------------------------------------------------------------------
(* Properties.                                                                 *)

TypeTracer ==
  /\ program \in Programs
  /\ bitmap \in [main : Hits, all : Hits]
  /\ tracerInput \in Content
  /\ report \in [input : Content, main : SUBSET Edge, all : SUBSET Edge]

TypeQueues ==
  /\ ids \in [QueueName -> SUBSET (Id \X Testcase)]
  /\ processed \in [QueueName -> SUBSET (Id \X Testcase)]
  /\ DOMAIN count = QueueName /\ DOMAIN testcaseIds = QueueName
  /\ \A q \in QueueName :
       /\ DOMAIN count[q] \subseteq Testcase
       /\ count[q] \in [DOMAIN count[q] -> Nat]
       /\ testcaseIds[q] \in [DOMAIN count[q] -> SUBSET Id]

TypeFiles ==
  /\ queueDir \in Seq([content : Content, traced : Content, source : Int])
  /\ ran \in Seq(Testcase)
  /\ afl \in Seq(Content)
  /\ rewritten \subseteq 0 .. Len(afl) - 1
  /\ aflMin \in -1 .. Len(afl) - 1
  /\ todo \in Seq(File)
  /\ \A k \in DOMAIN todo :
       /\ todo[k].name = "afl" => todo[k].id \in 0 .. Len(afl) - 1
       /\ todo[k].name \in {"testcase", "seed"} => todo[k].content \in Input

TypeControl ==
  /\ pc \in {"add", "keep", "pick", "select", "run", "done"}
  /\ phase \in {"seed", "run", "import"}
  /\ pc = "keep" => todo # <<>>
  /\ current \in Testcase \cup {-1}
  /\ pc = "run" => current \in Testcase

\* Every variable holds what the code's variable can hold: in particular an entry that
\* add_from_dir still has to copy names a file AFL has created, and a testcase of a queue
\* is a file of queue/.
TypeOK == TypeTracer /\ TypeQueues /\ TypeFiles /\ TypeControl

\* A testcase saved in queue/ has been run or waits with a positive count in one of the
\* four queues, so pick_testcase will find it: an edge that was reported before (with
\* another hit count) does not enter the testcase in the edge queues, and a path already
\* seen does not enter it in a path queue, but never all four at once.
NoTestcaseLost ==
  \A t \in Testcase :
    t \in Ran \/ \E q \in QueueName : t \in DOMAIN count[q] /\ count[q][t] > 0

\* No two testcases saved in queue/ were traced on the same whole path, whichever of seed,
\* generated testcase and AFL entry they come from.
KeptDistinct ==
  \A s, t \in Testcase :
    program.pathAll[queueDir[s + 1].traced] = program.pathAll[queueDir[t + 1].traced] => s = t

\* The inputs that a reader of queue/ finds there.
Saved == {queueDir[t + 1].content : t \in Testcase} \ {NoInput}

\* The testcases whose copy to queue/ failed, or copied another input than was traced.
LostCopies ==
  {t \in Testcase : \/ queueDir[t + 1].content = NoInput
                   \/ queueDir[t + 1].content # queueDir[t + 1].traced}
Lost == {queueDir[t + 1].traced : t \in LostCopies}

InHand == IF pc = "keep" THEN {report.input} ELSE {}

\* A copy is lost only through AFL, which unlinked the entry after it was traced, and an
\* entry loses at most one.
LostOnlyByAfl ==
  /\ \A t \in LostCopies : queueDir[t + 1].source \in rewritten
  /\ \A s, t \in LostCopies : queueDir[s + 1].source = queueDir[t + 1].source => s = t

\* The tracer's bitmaps forget which testcase an edge came from.  Every hit they have
\* recorded, and will never report again, is shown by a file of queue/, was made by an input
\* that crashes the tracer, or was lost with the copy of an entry AFL unlinked: one copy
\* for one such entry, so without AFL, or with an AFL that trims nothing, none.
CorpusCoversBitmap ==
  /\ LostOnlyByAfl
  /\ bitmap.main \subseteq UNION {program.main[i] : i \in Saved \cup Lost \cup InHand \cup program.crashes}
  /\ bitmap.all \subseteq UNION {program.all[i] : i \in Saved \cup Lost \cup InHand \cup program.crashes}

\* Input i crashes the tracer, or a file of queue/ takes its path, or did before AFL
\* unlinked that file's source (a lost copy leaves the path known to the tracer).
Represented(i) ==
  \/ i \in program.crashes
  \/ program.pathAll[i] \in {program.pathAll[j] : j \in Saved \cup Lost \cup InHand}

\* afl_min_id never passes an entry of AFL that was not looked at: an entry up to it, unless
\* AFL rewrote it meanwhile, crashes the tracer, has its path in queue/, or had it in one of
\* the copies that AFL itself made fail.
ImportedRepresented ==
  /\ LostOnlyByAfl
  /\ \A n \in 0 .. aflMin : n \notin rewritten => Represented(afl[n + 1])

\* The assertions of the queue's debug mode about paths (queue_manager.py:371-380).
DebugQueueAssertions ==
  pc = "keep" =>
    LET uniqueMain == ~PathSeen("main_path", program.pathMain[report.input])
        uniqueAll == ~PathSeen("all_path", program.pathAll[report.input])
    IN /\ report.main # {} => uniqueMain /\ uniqueAll
       /\ report.all # {} => uniqueAll
       /\ uniqueMain => uniqueAll

\* When AFL unlinks an entry under the runner the tracer silently runs on the previous
\* input; a testcase is nevertheless never kept for what another file did, because the
\* previous input was traced before and cannot be new.
StaleTraceNeverKept ==
  [][pc = "add" /\ pc' = "keep" => report'.input = ContentOf(Head(todo))]_vars

\* The queues implement the abstract work list: a testcase in queue/ waits until it is
\* handed to fuzz_one, once, and the exploration ends only when none waits.
List == INSTANCE Worklist WITH
  waiting <- Testcase \ Ran, taken <- ran, closed <- (pc = "done")
ImplementsWorklist == List!WLSpec

\* The count that testcase t got when it entered queue q.
Score(q, t) ==
  Cardinality(testcaseIds[q][t]) + (IF queueDir[t + 1].source >= 0 THEN 1 ELSE 0)

\* In the first queue that holds either of them, u has the higher count or t is not there.
Outranks(u, t) ==
  \E n \in DOMAIN PickOrder :
    /\ \A m \in 1 .. n - 1 : {t, u} \cap DOMAIN testcaseIds[PickOrder[m]] = {}
    /\ u \in DOMAIN testcaseIds[PickOrder[n]]
    /\ t \in DOMAIN testcaseIds[PickOrder[n]] =>
         Score(PickOrder[n], u) > Score(PickOrder[n], t)

\* The order of the queues is fixed and nothing ages in them, so a testcase may be overtaken
\* for as long as better ones arrive; it is overtaken by those only.  A testcase that waits
\* while a later one was run is outranked by it, over all imports and markings in between;
\* among equals the oldest is run first.
OvertakenOnlyByBetter ==
  \A u \in Ran, t \in Testcase \ Ran : t < u => Outranks(u, t)

\* Without AFL the exploration halts (docs/usage.md:13).
Halts == program.afl \/ <>(pc = "done")

\* Every entry of AFL that is not rewritten is imported sooner or later, unless the
\* runner gave up at its very first pick.
AflPolled ==
  \A n \in 0 .. MaxAfl - 1 :
    (n < Len(afl)) ~> (n \in rewritten \/ aflMin >= n \/ (pc = "done" /\ ran = <<>>))

-------------------------------------------------------------------------------
(* The inductive invariant behind NoTestcaseLost, KeptDistinct,               *)
(* DebugQueueAssertions, CorpusCoversBitmap, ImplementsWorklist and           *)
(* StaleTraceNeverKept.                                                        *)

Merged(i) == program.main[i] \subseteq bitmap.main /\ program.all[i] \subseteq bitmap.all

\* A path hash of a path queue comes from a run whose hits are in the bitmaps.
SeenMerged ==
  \A h \in Path :
    /\ PathSeen("all_path", h) =>
         \E j \in Content : /\ program.pathAll[j] = h
                            /\ Merged(j)
                            /\ PathSeen("main_path", program.pathMain[j])
    /\ PathSeen("main_path", h) =>
         \E j \in Content : program.pathMain[j] = h /\ program.main[j] \subseteq bitmap.main

\* What is about to be kept is what the tracer ran last; it has its hits in the bitmaps and
\* a whole path not seen yet.
ReportNew ==
  pc = "keep" =>
    /\ tracerInput = report.input
    /\ Merged(report.input)
    /\ ~PathSeen("all_path", program.pathAll[report.input])

\* Marking a testcase as processed creates no id.
MembersSeen ==
  \A q \in QueueName : \A t \in DOMAIN count[q] : \A id \in testcaseIds[q][t] : PathSeen(q, id)

KeptSeen ==
  \A t \in Testcase : PathSeen("all_path", program.pathAll[queueDir[t + 1].traced])

\* A testcase that was run has no queue left in which its count is positive.
RanDone ==
  \A q \in QueueName : \A t \in DOMAIN count[q] : t \in Ran => count[q][t] = 0

\* Whatever the tracer ran last would be judged a duplicate if it ran again.
LastTraced ==
  pc # "keep" =>
    tracerInput = NoInput \/ tracerInput \in program.crashes \/ Duplicate(tracerInput)

\* What the tracer was run on for the testcases that were kept, or are about to be.
TracedInputs == {queueDir[t + 1].traced : t \in Testcase} \cup InHand

\* Every hit of the bitmaps was made by an input that was traced and kept, or crashed.
TracedCoverBitmap ==
  /\ bitmap.main \subseteq UNION {program.main[i] : i \in TracedInputs \cup program.crashes}
  /\ bitmap.all \subseteq UNION {program.all[i] : i \in TracedInputs \cup program.crashes}

\* Together they are inductive: each names what a step of add or of pick_testcase relies on.
QueueInv ==
  /\ SeenMerged /\ ReportNew /\ MembersSeen /\ KeptSeen /\ RanDone /\ LastTraced
  /\ NoTestcaseLost /\ KeptDistinct /\ DebugQueueAssertions /\ TracedCoverBitmap

===============================================================================
