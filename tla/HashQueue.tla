------------------------------- MODULE HashQueue -------------------------------
(***************************************************************************)
(* The exploration loop of the runner in HASH_MODE (-q hash): the queue     *)
(* manager keeps every input with a hash it has not seen, in generations   *)
(* (src/runner/queue_manager.py).                                          *)
(*                                                                         *)
(* A new file is read three times, by three commands: sha256sum, the copy  *)
(* into the next generation and the copy into queue/.  AFL can unlink and  *)
(* rewrite an entry of its queue between any two of them.                  *)
(***************************************************************************)
EXTENDS Integers, Sequences, FiniteSets

CONSTANTS
  Input,        \* contents of testcase files; a content is also its own hash
  NoInput,      \* "there is no file"; also the empty hash sha256sum then leaves
  Generates,    \* what the target generates from a content
  SeedDirs,     \* the seed directories: sequences of files
  AflModes,     \* was -a given?
  MaxAfl,       \* bound: entries AFL creates
  MaxRewrites,  \* bound: entries AFL trims in place
  MaxOutputs    \* bound: testcases one run generates

Content == Input \cup {NoInput}

ASSUME HashInputAssumption == NoInput \notin Input
ASSUME HashGeneratesAssumption == Generates \in [Content -> SUBSET Input]
ASSUME HashBoundsAssumption == AflModes \subseteq BOOLEAN /\ MaxAfl \in Nat /\ MaxOutputs \in Nat

FileName == {"testcase", "seed", "log", "input_file", "afl", "gone"}
File == [name : FileName, id : Int, content : Content]

ASSUME HashSeedsAssumption ==
  SeedDirs \subseteq Seq([name : FileName \ {"afl"}, id : Int, content : Input])

VARIABLES
  generated,    \* hash_generated_inputs
  processed,    \* hash_processed_inputs
  curr, next,   \* the files of the two generation directories: [name, content]
  queueDir,     \* the files of queue/, in tick order (NoInput: the copy failed)
  ran,          \* hashes handed to fuzz_one so far, in order (history)
  depth,        \* generated hash |-> runs it took to derive it (history)
  current,      \* current_gen_input.dat
  aflMode,      \* was -a given: never changes
  afl, aflMin, rewritten,   \* the AFL queue, afl_min_id, entries trimmed in place
  pc, phase,    \* control point, and who called add_from_dir
  todo,         \* files add_from_dir has still to look at
  hash          \* the hash of Head(todo)

queues == <<generated, processed, curr, next>>
env == <<aflMode, afl, rewritten>>
vars == <<queues, queueDir, ran, depth, current, env, aflMin, pc, phase, todo, hash>>

Ran == {ran[k] : k \in DOMAIN ran}
Waiting == {e.name : e \in curr \cup next}

Init ==
  /\ generated = {} /\ processed = {}
  /\ curr = {} /\ next = {}
  /\ queueDir = <<>>
  /\ ran = <<>>
  /\ depth = [h \in {} |-> 0]
  /\ current = NoInput
  /\ aflMode \in AflModes
  /\ afl = <<>> /\ aflMin = -1 /\ rewritten = {}
  /\ pc = "add" /\ phase = "seed"
  /\ todo \in SeedDirs
  /\ hash = NoInput

-------------------------------------------------------------------------------
(* add_from_dir and add: the files of the directory, one by one.               *)

ContentOf(file) ==
  IF file.name = "afl" THEN afl[file.id + 1] ELSE file.content

Skipped(file) ==
  \/ file.name \in {"log", "input_file", "gone"}
  \/ phase = "seed" /\ file.name = "seed"     \* same basename as the source testcase
  \/ file.name = "afl" /\ file.id <= aflMin

SkipFile ==
  /\ pc = "add" /\ todo # <<>>
  /\ Skipped(Head(todo))
  /\ todo' = Tail(todo)
  /\ UNCHANGED <<queues, queueDir, ran, depth, current, env, aflMin, pc, phase, hash>>

\* Mutant of Known: only what was run is remembered.
KnownRan(h) == h \in processed

Known(h) == h \in generated

\* Runs from a seed or from AFL to this hash.
Depth == IF phase = "run" THEN depth[ran[Len(ran)]] + 1 ELSE 0

\* sha256sum fails on a missing file, but the pipe through cut hides it: the hash is "".
HashFile ==
  /\ pc = "add" /\ todo # <<>>
  /\ ~Skipped(Head(todo))
  /\ LET file == Head(todo)
         h == ContentOf(file)
     IN /\ aflMin' = IF file.name = "afl" THEN file.id ELSE aflMin
        /\ \/ /\ Known(h)
              /\ todo' = Tail(todo)
              /\ UNCHANGED <<generated, depth, pc, hash>>
           \/ /\ ~Known(h)
              /\ generated' = generated \cup {h}
              /\ depth' = [x \in DOMAIN depth \cup {h} |-> IF x = h THEN Depth ELSE depth[x]]
              /\ hash' = h
              /\ pc' = "next"
              /\ UNCHANGED todo
  /\ UNCHANGED <<processed, curr, next, queueDir, ran, current, env, phase>>

\* Mutant of CopyToNext: into the generation being run.
CopyToNextCurr ==
  /\ pc = "next"
  /\ curr' = IF ContentOf(Head(todo)) = NoInput THEN curr
             ELSE curr \cup {[name |-> hash, content |-> ContentOf(Head(todo))]}
  /\ pc' = "queue"
  /\ UNCHANGED <<generated, processed, next, queueDir, ran, depth, current, env, aflMin, phase,
                 todo, hash>>

\* Nothing is copied when the file is gone.  With the empty hash the copy keeps the name it
\* has in AFL's queue; this happens at most once, so NoInput stands for that name.
CopyToNext ==
  /\ pc = "next"
  /\ next' = IF ContentOf(Head(todo)) = NoInput THEN next
             ELSE next \cup {[name |-> hash, content |-> ContentOf(Head(todo))]}
  /\ pc' = "queue"
  /\ UNCHANGED <<generated, processed, curr, queueDir, ran, depth, current, env, aflMin, phase,
                 todo, hash>>

CopyToQueue ==
  /\ pc = "queue"
  /\ queueDir' = Append(queueDir, ContentOf(Head(todo)))
  /\ todo' = Tail(todo)
  /\ hash' = NoInput
  /\ pc' = "add"
  /\ UNCHANGED <<queues, ran, depth, current, env, aflMin, phase>>

EndAdd ==
  /\ pc = "add" /\ todo = <<>>
  /\ pc' = IF phase = "import" THEN "select" ELSE "pick"
  /\ UNCHANGED <<queues, queueDir, ran, depth, current, env, aflMin, phase, todo, hash>>

-------------------------------------------------------------------------------
(* pick_testcase and the loop of Executor.run.                                 *)

AflListing ==
  [n \in 1 .. Len(afl) |->
     [name |-> IF afl[n] = NoInput THEN "gone" ELSE "afl", id |-> n - 1, content |-> NoInput]]

ImportFromAfl ==
  /\ pc = "pick"
  /\ todo' = IF aflMode THEN AflListing ELSE <<>>
  /\ phase' = "import"
  /\ pc' = "add"
  /\ UNCHANGED <<queues, queueDir, ran, depth, current, env, aflMin, hash>>

\* Mutant of Generation: the newest generation first.
GenerationNext == IF next = {} THEN curr ELSE next

\* When the current generation is used up its directory is replaced by the next one.
Generation == IF curr = {} THEN next ELSE curr

\* The first file in the order of the hashes, which is as good as any.
SelectTestcase(e) ==
  /\ pc = "select"
  /\ e \in Generation
  /\ curr' = Generation \ {e}
  /\ next' = IF curr = {} THEN {} ELSE next
  /\ processed' = processed \cup {e.name}
  /\ ran' = Append(ran, e.name)
  /\ current' = e.content
  /\ pc' = "run"
  /\ UNCHANGED <<generated, queueDir, depth, env, aflMin, phase, todo, hash>>

\* Mutant of SelectNone: the exploration ends when the current generation is used up.
SelectNoneCurr ==
  /\ pc = "select"
  /\ curr = {}
  /\ pc' = IF aflMode /\ ran # <<>> THEN "pick" ELSE "done"
  /\ UNCHANGED <<queues, queueDir, ran, depth, current, env, aflMin, phase, todo, hash>>

SelectNone ==
  /\ pc = "select"
  /\ Generation = {}
  /\ pc' = IF aflMode /\ ran # <<>> THEN "pick" ELSE "done"
  /\ UNCHANGED <<queues, queueDir, ran, depth, current, env, aflMin, phase, todo, hash>>

Outputs(input) ==
  UNION {[1 .. n -> [name : {"testcase"}, id : {-1}, content : Generates[input]]] :
           n \in 0 .. MaxOutputs}

RunTarget ==
  /\ pc = "run"
  /\ \E out \in Outputs(current) :
       todo' = <<[name |-> "input_file", id |-> -1, content |-> current]>> \o out
  /\ phase' = "run"
  /\ pc' = "add"
  /\ UNCHANGED <<queues, queueDir, ran, depth, current, env, aflMin, hash>>

-------------------------------------------------------------------------------
(* AFL.                                                                        *)

runner == <<queues, queueDir, ran, depth, current, aflMin, pc, phase, todo, hash>>

AflAdd ==
  /\ aflMode /\ Len(afl) < MaxAfl
  /\ \E i \in Input : afl' = Append(afl, i)
  /\ UNCHANGED <<runner, aflMode, rewritten>>

AflUnlink(n) ==
  /\ Cardinality(rewritten) < MaxRewrites
  /\ n \notin rewritten
  /\ afl' = [afl EXCEPT ![n + 1] = NoInput]
  /\ rewritten' = rewritten \cup {n}
  /\ UNCHANGED <<runner, aflMode>>

AflRewrite(n) ==
  /\ afl[n + 1] = NoInput
  /\ \E i \in Input : afl' = [afl EXCEPT ![n + 1] = i]
  /\ UNCHANGED <<runner, aflMode, rewritten>>

-------------------------------------------------------------------------------
Runner ==
  \/ SkipFile \/ HashFile \/ CopyToNext \/ CopyToQueue \/ EndAdd
  \/ ImportFromAfl
  \/ \E e \in Generation : SelectTestcase(e)
  \/ SelectNone
  \/ RunTarget

Afl ==
  \/ AflAdd
  \/ \E n \in 0 .. Len(afl) - 1 : AflUnlink(n) \/ AflRewrite(n)

Done == pc = "done" /\ UNCHANGED vars

Next == Runner \/ Afl \/ Done

Spec == Init /\ [][Next]_vars

\* A single thread that always has a next step; the target ends every run.
FairSpec == Spec /\ WF_vars(Runner)
-------------------------------------------------------------------------------
(* Properties.                                                                 *)

\* Hashes that will be judged duplicates from now on although their file is in neither of
\* the two generations and was not handed to fuzz_one.
Lost == generated \ (Waiting \cup Ran \cup (IF pc = "next" THEN {hash} ELSE {}))

\* A hash is lost only through AFL, which unlinked the file before it was copied, and an
\* entry loses at most one.
HashLostOnlyByAfl == Cardinality(Lost) <= Cardinality(rewritten)

\* The queue keeps inputs that have a different hash (docs/usage.md:17), unless AFL rewrote a
\* file between its hash and its copy.
QueueContentsDistinct ==
  rewritten = {} => \A s, t \in DOMAIN queueDir : queueDir[s] = queueDir[t] => s = t

\* Generations: an input is run after every input that took fewer runs to derive.
BreadthFirst ==
  ~aflMode => \A k, m \in DOMAIN ran : k < m => depth[ran[k]] <= depth[ran[m]]

\* The two generations implement the abstract work list.
List == INSTANCE Worklist WITH
  waiting <- Waiting, taken <- ran, closed <- (pc = "done")
ImplementsWorklist == List!WLSpec

\* Every input of a generation is eventually run.
WaitingEventuallyRun == \A i \in Input : i \in Waiting ~> i \in Ran

===============================================================================
