-------------------------------- MODULE FuzzOne --------------------------------
(***************************************************************************)
(* The runner between two fork servers, in SYMFUSION_MODE with option -f:   *)
(* Executor.fuzz_one runs one testcase in the target (src/runner/          *)
(* executor.py), then PathTracer.run traces every testcase the target has  *)
(* generated (src/runner/path_tracer.py), until the work directory is      *)
(* removed and the next testcase is run.                                   *)
(*                                                                         *)
(* Module SymfusionQueue takes from here that a run and a trace are one    *)
(* step each and that a verdict is about the testcase it was asked for.    *)
(***************************************************************************)
EXTENDS ForkServer, Runner

CONSTANT
  MaxTraces     \* bound: testcases traced after each run

ASSUME FuzzOneAssumption ==
  /\ {"target", "tracer"} \subseteq Server
  /\ Timeouts \subseteq BOOLEAN /\ MaxRuns \in Nat /\ MaxTraces \in Nat

VARIABLES
  traces,       \* calls of PathTracer.run, in all and since the last run
  p_pid,        \* the pid read from the target's pid file
  status,       \* the run whose status was read (0: none)
  verdict       \* the testcase the last reports read are about (0: no reports)

runnerVars == <<timeout, pc, runs, traces, p_pid, status, verdict>>
vars == <<forkServerVars, runnerVars>>

Init ==
  /\ ForkServerInit
  /\ timeout \in Timeouts
  /\ pc = "idle"
  /\ runs = 0 /\ traces = [total |-> 0, batch |-> 0]
  /\ p_pid = 0 /\ status = 0 /\ verdict = 0

\* Writing to a FIFO whose reader is dead raises BrokenPipeError, which nobody catches.
Send(s, next) ==
  IF state[s] = "dead" THEN pc' = "broken" /\ UNCHANGED toServer
  ELSE pc' = next /\ toServer' = [toServer EXCEPT ![s] = @ + 1]

\* read(1) returns a byte, or nothing when the server is dead.
Receive(s) ==
  /\ toRunner[s] > 0 \/ state[s] = "dead"
  /\ toRunner' = [toRunner EXCEPT ![s] = IF @ > 0 THEN @ - 1 ELSE @]

-------------------------------------------------------------------------------
(* fuzz_one.                                                                   *)

\* Mutant of StartRun: the pid file of the last run is left there.
StartRunKeepsPid ==
  /\ pc = "idle" /\ runs < MaxRuns
  /\ runs' = runs + 1
  /\ input' = [input EXCEPT !["target"] = runs']
  /\ doneFile' = [doneFile EXCEPT !["target"] = No]
  /\ p_pid' = 0 /\ status' = 0
  /\ Send("target", "pid")
  /\ UNCHANGED <<state, run, child, saw, toRunner, owes, pidFile, output, timeout, traces, verdict>>

\* The testcase is copied, the two files of the last run are unlinked, and 23 is written.
StartRun ==
  /\ pc = "idle" /\ runs < MaxRuns
  /\ runs' = runs + 1
  /\ input' = [input EXCEPT !["target"] = runs']
  /\ doneFile' = [doneFile EXCEPT !["target"] = No]
  /\ pidFile' = [pidFile EXCEPT !["target"] = No]
  /\ p_pid' = 0 /\ status' = 0
  /\ Send("target", "pid")
  /\ UNCHANGED <<state, run, child, saw, toRunner, owes, output, timeout, traces,
                 verdict>>

\* Waits for the pid file, whatever -t says, and reads it until it is complete.
ReadPid ==
  /\ pc = "pid"
  /\ pidFile["target"] \notin {No, Partial}
  /\ p_pid' = pidFile["target"]
  /\ pc' = "wait"
  /\ UNCHANGED <<forkServerVars, timeout, runs, traces, status, verdict>>

DoneExists ==
  /\ pc = "wait"
  /\ doneFile["target"] # No
  /\ pc' = "answer"
  /\ UNCHANGED <<forkServerVars, timeout, runs, traces, p_pid, status, verdict>>

Kill(pid) ==
  IF pid = run["target"] /\ Running("target")
    THEN child' = [child EXCEPT !["target"] = "killed"] ELSE UNCHANGED child

\* Mutant of TimedOut: a run that takes too long is abandoned.
TimedOutAbandons ==
  /\ pc = "wait" /\ timeout
  /\ doneFile["target"] = No
  /\ status' = p_pid
  /\ traces' = [traces EXCEPT !.batch = 0]
  /\ pc' = "import"
  /\ UNCHANGED <<forkServerVars, timeout, runs, p_pid, verdict>>

\* Mutant of TimedOut: the child is not killed.
TimedOutNoKill ==
  /\ pc = "wait" /\ timeout
  /\ doneFile["target"] = No
  /\ pc' = "answer"
  /\ UNCHANGED <<forkServerVars, timeout, runs, traces, p_pid, status, verdict>>

\* Every time the runner has seen no status file, the time may be up: kill -9.
TimedOut ==
  /\ pc = "wait" /\ timeout
  /\ doneFile["target"] = No
  /\ Kill(p_pid)
  /\ pc' = "answer"
  /\ UNCHANGED <<state, run, saw, toServer, toRunner, owes, pidFile, doneFile, input, output,
                 timeout, runs, traces, p_pid, status, verdict>>

ReadAnswer ==
  /\ pc = "answer"
  /\ Receive("target")
  /\ pc' = "status"
  /\ UNCHANGED <<state, run, child, saw, toServer, owes, pidFile, doneFile, input, output,
                 timeout, runs, traces, p_pid, status, verdict>>

\* Reads the status file until it is there and complete.
ReadStatus ==
  /\ pc = "status"
  /\ doneFile["target"] \notin {No, Partial}
  /\ status' = doneFile["target"]
  /\ traces' = [traces EXCEPT !.batch = 0]
  /\ pc' = "import"
  /\ UNCHANGED <<forkServerVars, timeout, runs, p_pid, verdict>>

-------------------------------------------------------------------------------
(* PathTracer.run, called by add_from_dir for the testcases of the run.        *)

\* Mutant of StartTrace: the reports of the last trace are left there.
StartTraceKeepsReports ==
  /\ pc = "import" /\ output["target"] # {} /\ traces.batch < MaxTraces
  /\ traces' = [total |-> traces.total + 1, batch |-> traces.batch + 1]
  /\ input' = [input EXCEPT !["tracer"] = traces'.total]
  /\ doneFile' = [doneFile EXCEPT !["tracer"] = No]
  /\ Send("tracer", "trace")
  /\ UNCHANGED <<state, run, child, saw, toRunner, owes, pidFile, output, timeout, runs, p_pid,
                 status, verdict>>

\* The reports and the status file of the last trace are unlinked, the testcase is copied.
StartTrace ==
  /\ pc = "import" /\ output["target"] # {} /\ traces.batch < MaxTraces
  /\ traces' = [total |-> traces.total + 1, batch |-> traces.batch + 1]
  /\ input' = [input EXCEPT !["tracer"] = traces'.total]
  /\ output' = [output EXCEPT !["tracer"] = {}]
  /\ doneFile' = [doneFile EXCEPT !["tracer"] = No]
  /\ Send("tracer", "trace")
  /\ UNCHANGED <<state, run, child, saw, toRunner, owes, pidFile, timeout, runs, p_pid, status, verdict>>

\* The testcase the reports are about; a mixture of several would be about the oldest.
Reported == IF output["tracer"] = {} THEN 0
            ELSE CHOOSE t \in output["tracer"] : \A u \in output["tracer"] : t <= u

\* There is no timeout on the answer; the status file is read once, for a message only.
ReadReports ==
  /\ pc = "trace"
  /\ Receive("tracer")
  /\ verdict' = Reported
  /\ pc' = "import"
  /\ UNCHANGED <<state, run, child, saw, toServer, owes, pidFile, doneFile, input, output,
                 timeout, runs, traces, p_pid, status>>

\* The work directory is removed.
EndRun ==
  /\ pc = "import"
  /\ output' = [output EXCEPT !["target"] = {}]
  /\ pc' = "idle"
  /\ UNCHANGED <<state, run, child, saw, toServer, toRunner, owes, pidFile, doneFile, input,
                 timeout, runs, traces, p_pid, status, verdict>>

-------------------------------------------------------------------------------
RunnerStep ==
  \/ StartRun \/ ReadPid \/ DoneExists \/ TimedOut \/ ReadAnswer \/ ReadStatus
  \/ StartTrace \/ ReadReports \/ EndRun

Environment(s) ==
  /\ ServerStep(s) \/ ChildStep(s) \/ ChildWrites(s) \/ ChildHangs(s) \/ ServerDies(s)
  /\ UNCHANGED runnerVars

\* The runner waits for a server that is dead, or for a child that never ends.
Stuck ==
  \/ pc \in {"pid", "status"} /\ state["target"] = "dead"
  \/ pc = "wait" /\ ~timeout /\ (state["target"] = "dead" \/ child["target"] = "hung")
  \/ pc = "trace" /\ child["tracer"] = "hung"

\* The bound is reached, an exception ended the runner, or it is stuck.
Done ==
  /\ (pc = "idle" /\ runs = MaxRuns) \/ pc = "broken" \/ Stuck
  /\ UNCHANGED vars

Next == RunnerStep \/ (\E s \in Server : Environment(s)) \/ Done

Spec == Init /\ [][Next]_vars

\* The runner is a single thread, and so is each server; a child that does not hang ends.
FairSpec ==
  /\ Spec
  /\ WF_vars(RunnerStep)
  /\ \A s \in Server : /\ WF_vars(ServerStep(s) /\ UNCHANGED runnerVars)
                       /\ WF_vars(ChildStep(s) /\ UNCHANGED runnerVars)
-------------------------------------------------------------------------------
(* Properties.                                                                 *)

TypeOK ==
  /\ state \in [Server -> {"ready", "forked", "reaped", "dead"}]
  /\ child \in [Server -> {"none", "alive", "hung", "exited", "crashed", "killed"}]
  /\ run \in [Server -> Nat] /\ saw \in [Server -> Nat] /\ input \in [Server -> Nat]
  /\ toServer \in [Server -> 0 .. 1] /\ toRunner \in [Server -> 0 .. 1]
  /\ owes \in [Server -> SUBSET {"pid", "done", "answer"}]
  /\ pidFile \in [Server -> Nat \cup {Partial}] /\ doneFile \in [Server -> Nat \cup {Partial}]
  /\ output \in [Server -> SUBSET Nat]
  /\ timeout \in Timeouts
  /\ pc \in {"idle", "pid", "wait", "answer", "status", "import", "trace", "broken"}
  /\ runs \in 0 .. MaxRuns /\ traces \in [total : Nat, batch : 0 .. MaxTraces]
  /\ p_pid \in Nat /\ status \in Nat /\ verdict \in Nat

\* No word is left over in a FIFO, and no child of the server is running.
Quiet(s) ==
  state[s] # "dead" => ~Running(s) /\ toServer[s] = 0 /\ toRunner[s] = 0

\* Nobody writes to the work directory while its testcases, all of the last run, are imported
\* and it is removed, whether that run ended or was killed; nor to the reports while they
\* are read or unlinked.
NobodyWrites ==
  /\ pc \in {"idle", "import", "trace"} => Quiet("target")
  /\ pc \notin {"trace", "broken"} => Quiet("tracer")
  /\ pc \in {"import", "trace"} => output["target"] \subseteq {runs}

\* The pid that may be killed and the status read are those of the run, not of an earlier one.
RunFilesFresh ==
  /\ pc \in {"wait", "answer", "status"} => p_pid = runs
  /\ pc = "import" => status = runs

\* A verdict is about the testcase that was to be traced, and as long as the tracer lives
\* "Crashing input in the path tracer" is said of nothing else.
VerdictFresh ==
  pc = "import" /\ traces.batch > 0 =>
    \/ verdict = traces.total
    \/ verdict = 0 /\ (state["tracer"] = "dead" \/ child["tracer"] = "crashed")

\* With -t a run in the target ends even when its child never does, if the server lives.
RunEnds ==
  (pc = "pid" /\ timeout) ~> (pc = "import" \/ state["target"] = "dead")

-------------------------------------------------------------------------------
(* The inductive invariant.  From the moment the runner asks a server until it *)
(* has the answer there is exactly one token: the byte on its way to the       *)
(* server, the answer the server owes, or the byte on its way back.  A child   *)
(* runs only while the server owes the answer, so nobody writes when the token *)
(* is gone, and the files are those of the last child.                         *)

Owed(s) == IF "answer" \in owes[s] THEN 1 ELSE 0
Tokens(s) == toServer[s] + Owed(s) + toRunner[s]

\* Bytes the runner has written to a server, and whether it waits for its answer.
Asked(s) == CASE s = "target" -> runs [] s = "tracer" -> traces.total [] OTHER -> 0
Waiting(s) ==
  \/ s = "target" /\ pc \in {"pid", "wait", "answer"}
  \/ s = "tracer" /\ pc = "trace"

\* A server that lives: its token, and what it owes in each of its states.
TokenInv ==
  \A s \in Server : state[s] # "dead" =>
    /\ run[s] + toServer[s] = Asked(s)
    /\ Tokens(s) = IF Waiting(s) THEN 1 ELSE 0
    /\ state[s] = "forked" => "answer" \in owes[s] /\ "done" \in owes[s]
    /\ state[s] = "ready" => owes[s] = {}
    /\ Running(s) => state[s] = "forked"
    /\ "pid" \in owes[s] => "done" \in owes[s]

\* What the target and the runner wrote while a run is under way is about that run.
RunFilesInv ==
  /\ pidFile["target"] \in {No, Partial, runs}
  /\ doneFile["target"] \in {No, Partial, runs}
  /\ output["target"] \subseteq {runs}
  /\ doneFile["target"] # No =>
       ~Running("target") /\ (state["target"] # "dead" => state["target"] # "forked")
  /\ state["target"] # "dead" =>
       /\ toServer["target"] = 1 => doneFile["target"] = No /\ owes["target"] = {}
       /\ "done" \in owes["target"] => doneFile["target"] \in {No, Partial}

TargetInv ==
  /\ input["target"] = runs
  /\ pc # "idle" => runs > 0
  /\ Running("target") /\ pc # "broken" => saw["target"] \in {0, runs}
  /\ pc \in {"pid", "wait", "answer", "status"} => RunFilesInv
  /\ pc \in {"wait", "answer", "status"} => p_pid = runs
  /\ pc \in {"idle", "import", "trace"} =>
       ~Running("target") /\ (state["target"] # "dead" => owes["target"] = {})
  /\ pc \in {"import", "trace"} => status = runs /\ output["target"] \subseteq {runs}
  /\ pc = "idle" => output["target"] = {}

\* The reports of the tracer are those of the current trace.
TracerInv ==
  /\ input["tracer"] = traces.total
  /\ child["tracer"] # "killed"
  /\ pc = "trace" =>
       /\ traces.total > 0
       /\ output["tracer"] \subseteq {traces.total}
       /\ Running("tracer") => saw["tracer"] \in {0, traces.total}
       /\ state["tracer"] # "dead" /\ toServer["tracer"] = 0 =>
            /\ child["tracer"] # "none"
            /\ child["tracer"] = "exited" => traces.total \in output["tracer"]
  /\ VerdictFresh

\* All together, the inductive invariant.
RunnerInv == TypeOK /\ TokenInv /\ TargetInv /\ TracerInv
===============================================================================
