------------------------------- MODULE QsymQueue -------------------------------
(***************************************************************************)
(* The exploration loop of the runner in QSYM_MODE (-q qsym): the queue     *)
(* manager hands directories of testcases to a persistent afl-showmap and  *)
(* keeps those that changed its cumulative map.                            *)
(*                                                                         *)
(* Three processes: the runner, afl-showmap (module Showmap) and AFL.      *)
(***************************************************************************)
EXTENDS Showmap

CONSTANTS
  AflModes,     \* was -a given?
  SeedNamed,    \* entries of AFL with "seed" in their name (orig:seed...)
  MaxAfl,       \* bound: entries AFL creates
  MaxRewrites,  \* bound: entries AFL trims in place
  MaxOutputs    \* bound: testcases one run generates

ASSUME QsymBoundsAssumption == AflModes \subseteq BOOLEAN /\ MaxAfl \in Nat /\ MaxOutputs \in Nat

VARIABLES
  opened,       \* FIFOs both sides have opened
  queueDir,     \* the files of queue/, in tick order: [content, new]
  inputs,       \* self.inputs: testcase |-> order of its score
  ran,          \* testcases handed to fuzz_one so far, in order (history)
  current,      \* the testcase being run, or -1
  aflMode,      \* was -a given: never changes
  afl, aflMin, rewritten,   \* the AFL queue, afl_min_id, entries trimmed in place
  pc, phase,    \* control point of the runner, and who called add_from_dir
  todo,         \* files to copy for the tracer; id -1: min_id is None
  results       \* files of tracer/out still to be looked at

shared == <<inDir, outDir, toShowmap, toRunner>>
queue == <<queueDir, inputs, ran, current>>
env == <<aflMode, afl, rewritten>>
runner == <<opened, queue, aflMin, pc, phase, todo, results>>
vars == <<program, showmapVars, shared, runner, env>>

Testcase == 0 .. Len(queueDir) - 1
Ran == {ran[k] : k \in DOMAIN ran}

Init ==
  /\ ShowmapInit
  /\ opened = 0
  /\ queueDir = <<>>
  /\ inputs = [t \in {} |-> 0]
  /\ ran = <<>>
  /\ current = -1
  /\ aflMode \in AflModes
  /\ afl = <<>> /\ aflMin = -1 /\ rewritten = {}
  /\ pc = "open" /\ phase = "seed"
  /\ todo = <<>>
  /\ results = <<>>

-------------------------------------------------------------------------------
(* start_afl_tracer.                                                           *)

\* The order in which the runner opens the two FIFOs.
RunnerOpens == <<"afl_pipe_write", "afl_pipe_read">>

\* Opening a FIFO blocks until the other end is opened.
OpenPipe ==
  /\ pc = "open" /\ spc = "open"
  /\ RunnerOpens[opened + 1] = ShowmapOpens[opened + 1]
  /\ opened' = opened + 1
  /\ IF opened' = 2 THEN pc' = "boot" /\ spc' = "write" ELSE UNCHANGED <<pc, spc>>
  /\ UNCHANGED <<program, cumulative, scan, shared, queue, env, aflMin, phase, todo, results>>

\* The first read(4), then the import of the seeds.
Boot ==
  /\ pc = "boot"
  /\ toRunner > 0
  /\ toRunner' = toRunner - 1
  /\ todo' = program.seeds
  /\ pc' = "copy"
  /\ UNCHANGED <<program, showmapVars, inDir, outDir, toShowmap, opened, queue, env, aflMin,
                 phase, results>>

-------------------------------------------------------------------------------
(* add_from_dir: tracer/in was emptied (rm -rf, mkdir) by the step that called it. *)

ContentOf(file) == IF file.id >= 0 THEN afl[file.id + 1] ELSE file.content

\* Mutant of MinId: the newest entry of the directory instead of the one looked at.
MinIdNewest(file) == IF file.id >= 0 THEN Len(afl) - 1 ELSE aflMin

MinId(file) == IF file.id >= 0 THEN file.id ELSE aflMin

\* The files before min_id are skipped; min_id itself is imported again every time.  The
\* copy of a file AFL has unlinked fails silently.
CopyFile ==
  /\ pc = "copy" /\ todo # <<>>
  /\ LET file == Head(todo)
     IN IF file.id >= 0 /\ file.id < aflMin THEN UNCHANGED <<inDir, aflMin>>
        ELSE /\ aflMin' = MinId(file)
             /\ inDir' = IF ContentOf(file) = NoInput THEN inDir
                         ELSE Append(inDir, [rank |-> file.rank, content |-> ContentOf(file)])
  /\ todo' = Tail(todo)
  /\ UNCHANGED <<program, showmapVars, outDir, toShowmap, toRunner, opened, queue, env, pc,
                 phase, results>>

\* Empties tracer/out and writes the request; the write fails when the reader is dead.
Request ==
  /\ pc = "copy" /\ todo = <<>>
  /\ outDir' = <<>>
  /\ IF spc = "dead" THEN pc' = "broken" /\ UNCHANGED toShowmap
     ELSE pc' = "await" /\ toShowmap' = toShowmap + 1
  /\ UNCHANGED <<program, showmapVars, inDir, toRunner, opened, queue, env, aflMin, phase, todo,
                 results>>

\* read(4) returns a word, or nothing when the writer is dead: the result is not looked at.
Await ==
  /\ pc = "await"
  /\ toRunner > 0 \/ spc = "dead"
  /\ toRunner' = IF toRunner > 0 THEN toRunner - 1 ELSE toRunner
  /\ results' = outDir
  /\ pc' = "verdict"
  /\ UNCHANGED <<program, showmapVars, inDir, outDir, toShowmap, opened, queue, env, aflMin,
                 phase, todo>>

\* Mutant of Interesting: only new entries of the map count.
InterestingNew(result) == result.new > 0

Interesting(result) == result.count > 0

Extend(f, t, v) == [x \in DOMAIN f \cup {t} |-> IF x = t THEN v ELSE f[x]]

\* The copy comes from tracer/in; the score is that of the file of tracer/out.
Verdict ==
  /\ pc = "verdict" /\ results # <<>>
  /\ LET result == Head(results)
     IN IF Interesting(result)
          THEN /\ queueDir' = Append(queueDir, [content |-> result.content,
                                                new |-> result.new > 0])
               /\ inputs' = Extend(inputs, Len(queueDir), result.rank)
          ELSE UNCHANGED <<queueDir, inputs>>
  /\ results' = Tail(results)
  /\ UNCHANGED <<program, showmapVars, shared, opened, ran, current, env, aflMin, pc, phase,
                 todo>>

EndAdd ==
  /\ pc = "verdict" /\ results = <<>>
  /\ pc' = IF phase = "import" THEN "select" ELSE "pick"
  /\ UNCHANGED <<program, showmapVars, shared, opened, queue, env, aflMin, phase, todo, results>>

-------------------------------------------------------------------------------
(* pick_testcase and the loop of Executor.run.                                 *)

\* Ranks in the order of get_score for files of tracer/out, which are all of one size: generated
\* files ("000000"), entries of AFL ("id:..."), the copy of the input being run ("input_file"),
\* and before all of them what has "seed" in its name.
RankOfInput == MaxOutputs + MaxAfl
RankOfAfl(n) == IF n \in SeedNamed THEN RankOfInput + 1 + n ELSE MaxOutputs + n

\* The listing of the queue of AFL; an entry that is not there is nothing to copy.
Listed(n) ==
  [rank |-> RankOfAfl(n - 1), id |-> IF afl[n] = NoInput THEN -1 ELSE n - 1, content |-> NoInput]

ImportFromAfl ==
  /\ pc = "pick"
  /\ phase' = "import"
  /\ IF aflMode
       THEN /\ todo' = [n \in 1 .. Len(afl) |-> Listed(n)]
            /\ inDir' = <<>>
            /\ pc' = "copy"
       ELSE pc' = "select" /\ UNCHANGED <<todo, inDir>>
  /\ UNCHANGED <<program, showmapVars, outDir, toShowmap, toRunner, opened, queue, env, aflMin,
                 results>>

\* keywithmaxval: the highest score, the oldest of equals.
Best(t) ==
  /\ t \in DOMAIN inputs
  /\ \A u \in DOMAIN inputs : inputs[u] < inputs[t] \/ (inputs[u] = inputs[t] /\ t <= u)

\* Mutant of Drop: the testcase stays in the dictionary.
DropNothing(t) == inputs

Drop(t) == [u \in DOMAIN inputs \ {t} |-> inputs[u]]

SelectTestcase(t) ==
  /\ pc = "select"
  /\ Best(t)
  /\ inputs' = Drop(t)
  /\ ran' = Append(ran, t)
  /\ current' = t
  /\ pc' = "run"
  /\ UNCHANGED <<program, showmapVars, shared, opened, queueDir, env, aflMin, phase, todo,
                 results>>

\* Mutant of SelectNone: polls again whether or not there is an AFL.
SelectNonePolls ==
  /\ pc = "select"
  /\ DOMAIN inputs = {}
  /\ pc' = IF ran # <<>> THEN "pick" ELSE "done"
  /\ UNCHANGED <<program, showmapVars, shared, opened, queue, env, aflMin, phase, todo, results>>

SelectNone ==
  /\ pc = "select"
  /\ DOMAIN inputs = {}
  /\ pc' = IF aflMode /\ ran # <<>> THEN "pick" ELSE "done"
  /\ UNCHANGED <<program, showmapVars, shared, opened, queue, env, aflMin, phase, todo, results>>

Outputs(input) == UNION {[1 .. n -> program.generates[input]] : n \in 0 .. MaxOutputs}

RunTarget ==
  /\ pc = "run"
  /\ LET input == queueDir[current + 1].content
     IN \E out \in Outputs(input) :
          todo' = Append([n \in DOMAIN out |-> [rank |-> n - 1, id |-> -1, content |-> out[n]]],
                         [rank |-> RankOfInput, id |-> -1, content |-> input])
  /\ current' = -1
  /\ inDir' = <<>>
  /\ phase' = "run"
  /\ pc' = "copy"
  /\ UNCHANGED <<program, showmapVars, outDir, toShowmap, toRunner, opened, queueDir, inputs,
                 ran, env, aflMin, results>>

-------------------------------------------------------------------------------
(* AFL.                                                                        *)

AflAdd ==
  /\ aflMode /\ Len(afl) < MaxAfl
  /\ \E i \in Input : afl' = Append(afl, i)
  /\ UNCHANGED <<program, showmapVars, shared, runner, aflMode, rewritten>>

AflUnlink(n) ==
  /\ Cardinality(rewritten) < MaxRewrites
  /\ n \notin rewritten
  /\ afl' = [afl EXCEPT ![n + 1] = NoInput]
  /\ rewritten' = rewritten \cup {n}
  /\ UNCHANGED <<program, showmapVars, shared, runner, aflMode>>

AflRewrite(n) ==
  /\ afl[n + 1] = NoInput
  /\ \E i \in Input : afl' = [afl EXCEPT ![n + 1] = i]
  /\ UNCHANGED <<program, showmapVars, shared, runner, aflMode, rewritten>>

-------------------------------------------------------------------------------
Runner ==
  \/ OpenPipe \/ Boot
  \/ CopyFile \/ Request \/ Await \/ Verdict \/ EndAdd
  \/ ImportFromAfl
  \/ \E t \in Testcase : SelectTestcase(t)
  \/ SelectNone
  \/ RunTarget

Tracer == ShowmapStep /\ UNCHANGED <<runner, env>>

Afl ==
  \/ AflAdd
  \/ \E n \in 0 .. Len(afl) - 1 : AflUnlink(n) \/ AflRewrite(n)

\* The runner has ended: normally, or with a broken pipe.
Done == pc \in {"done", "broken"} /\ UNCHANGED vars

Next == Runner \/ Tracer \/ Afl \/ Done

Spec == Init /\ [][Next]_vars

\* Both processes are single threads; the tracer stops a run that takes more than 3 s (-t).
FairSpec == Spec /\ WF_vars(Runner) /\ WF_vars(Tracer)
-------------------------------------------------------------------------------
(* Properties.                                                                 *)

\* Every file of the last directory handed to the tracer has its answer.
Answered ==
  \A k \in DOMAIN inDir :
    inDir[k].content # Empty => \E m \in DOMAIN outDir : outDir[m].rank = inDir[k].rank

\* The two processes strictly alternate: while the runner changes the directories the
\* tracer waits for a word, and no word is left over in either FIFO.  When the runner looks
\* at the answers they are complete, as long as the tracer lives.
Alternation ==
  /\ pc \in {"copy", "verdict", "pick", "select", "run"} =>
       spc \in {"read", "dead"} /\ toShowmap = 0 /\ toRunner = 0
  /\ pc = "verdict" /\ spc # "dead" => Answered

\* Contents that can still show a hit: saved in queue/, or in the results to be looked at.
Shown ==
  {queueDir[t + 1].content : t \in Testcase}
    \cup {r.content : r \in {results[k] : k \in DOMAIN results} \cup
                            (IF pc = "await" THEN {outDir[k] : k \in DOMAIN outDir} ELSE {})}

\* Every bit of the cumulative map that malloc did not leave there, and that will never be
\* interesting again, comes from a testcase of queue/ or is about to.
CorpusCoversCumulative ==
  cumulative \subseteq program.garbage \cup UNION {program.hits[i] : i \in Shown}

\* Nothing is kept for nothing, whether from a seed, a run or AFL, whose entry min_id is
\* imported again by every poll: each testcase has a hit that no older one has.
KeptInteresting ==
  \A t \in Testcase :
    ~ (program.hits[queueDir[t + 1].content] \subseteq
         UNION {program.hits[queueDir[s + 1].content] : s \in 0 .. t - 1})

\* When the runner picks, every entry of AFL up to afl_min_id that was not rewritten has been
\* through the tracer.
ImportedJudged ==
  pc = "select" /\ spc # "dead" =>
    \A n \in 0 .. aflMin :
      n \in rewritten \/ afl[n + 1] = Empty \/ program.hits[afl[n + 1]] \subseteq cumulative

\* src/runner/queue_manager.py:479, "New coverage is the best": no testcase with new coverage
\* waits while one without is run.
NewCoverageFirst ==
  pc = "run" /\ (\E u \in DOMAIN inputs : queueDir[u + 1].new) => queueDir[current + 1].new

\* The dictionary implements the abstract work list.
List == INSTANCE Worklist WITH
  waiting <- DOMAIN inputs, taken <- ran, closed <- (pc = "done")
ImplementsWorklist == List!WLSpec

\* The handshake never hangs: the exploration ends, or breaks when the tracer has died; and
\* its death is noticed with AFL, too, although the answer of the dead tracer is not looked
\* at: the next request breaks.
Halts ==
  /\ aflMode \/ <>(pc \in {"done", "broken"})
  /\ spc = "dead" ~> pc \in {"done", "broken"}

===============================================================================
