------------------------------ MODULE ForkServer -------------------------------
(***************************************************************************)
(* A fork server of the SymFusion runtime, as the runner uses one for the  *)
(* target (option -f, src/runner/executor.py) and one for the path tracer  *)
(* (src/runner/path_tracer.py).  Its own code is not in this repository.   *)
(*                                                                         *)
(* For each byte it reads, the server forks a child, writes the child's    *)
(* pid to one file, waits for the child, writes its status to another file *)
(* and answers with a byte; the runner assumes nothing about the order of  *)
(* the last two.  A file exists, empty, before its contents are written.   *)
(***************************************************************************)
EXTENDS Integers

CONSTANTS
  Server,       \* "target", "tracer"
  MayHang,      \* servers whose child may never end by itself
  MayDie        \* servers that may die

ASSUME ForkServerAssumption == MayHang \subseteq Server /\ MayDie \subseteq Server

VARIABLES
  state,        \* of each server: "ready", "forked", "reaped" or "dead"
  run,          \* bytes the server has read: also the pid of its last child
  child,        \* its last child: "none", "alive", "hung", "exited", "crashed" or "killed"
  saw,          \* the testcase its last child has read
  toServer, toRunner,   \* bytes in the two FIFOs
  owes,         \* what the server has still to write for it: "pid", "done", "answer"
  pidFile, doneFile,    \* No, Partial, or the run the file is about
  input,        \* the testcase file the children read
  output        \* what the children wrote (testcases, reports): the testcases read

forkServerVars ==
  <<state, run, child, saw, toServer, toRunner, owes, pidFile, doneFile, input, output>>

No == 0             \* there is no file: runs and testcases are counted from 1
Partial == -1

ForkServerInit ==
  /\ state = [s \in Server |-> "ready"]
  /\ run = [s \in Server |-> 0]
  /\ child = [s \in Server |-> "none"]
  /\ saw = [s \in Server |-> 0]
  /\ toServer = [s \in Server |-> 0] /\ toRunner = [s \in Server |-> 0]
  /\ owes = [s \in Server |-> {}]
  /\ pidFile = [s \in Server |-> No] /\ doneFile = [s \in Server |-> No]
  /\ input = [s \in Server |-> 0]
  /\ output = [s \in Server |-> {}]

Running(s) == child[s] \in {"alive", "hung"}

Fork(s) ==
  /\ state[s] = "ready" /\ toServer[s] > 0
  /\ state' = [state EXCEPT ![s] = "forked"]
  /\ run' = [run EXCEPT ![s] = @ + 1]
  /\ child' = [child EXCEPT ![s] = "alive"]
  /\ saw' = [saw EXCEPT ![s] = 0]
  /\ toServer' = [toServer EXCEPT ![s] = @ - 1]
  /\ owes' = [owes EXCEPT ![s] = {"pid", "done", "answer"}]
  /\ UNCHANGED <<toRunner, pidFile, doneFile, input, output>>

WritePid(s) ==
  /\ state[s] \in {"forked", "reaped"} /\ "pid" \in owes[s]
  /\ IF pidFile[s] = Partial
       THEN /\ pidFile' = [pidFile EXCEPT ![s] = run[s]]
            /\ owes' = [owes EXCEPT ![s] = @ \ {"pid"}]
       ELSE pidFile' = [pidFile EXCEPT ![s] = Partial] /\ UNCHANGED owes
  /\ UNCHANGED <<state, run, child, saw, toServer, toRunner, doneFile, input, output>>

ChildReads(s) ==
  /\ child[s] = "alive" /\ saw[s] = 0
  /\ saw' = [saw EXCEPT ![s] = input[s]]
  /\ UNCHANGED <<state, run, child, toServer, toRunner, owes, pidFile, doneFile, input, output>>

\* The child of the target writes testcases as it goes, that of the tracer reports at its end.
ChildWrites(s) ==
  /\ child[s] = "alive" /\ saw[s] # 0
  /\ output' = [output EXCEPT ![s] = @ \cup {saw[s]}]
  /\ UNCHANGED <<state, run, child, saw, toServer, toRunner, owes, pidFile, doneFile, input>>

ChildHangs(s) ==
  /\ s \in MayHang
  /\ child[s] = "alive" /\ saw[s] # 0
  /\ child' = [child EXCEPT ![s] = "hung"]
  /\ UNCHANGED <<state, run, saw, toServer, toRunner, owes, pidFile, doneFile, input, output>>

ChildEnds(s) ==
  /\ child[s] = "alive" /\ saw[s] # 0
  /\ \/ child' = [child EXCEPT ![s] = "exited"] /\ saw[s] \in output[s]
     \/ child' = [child EXCEPT ![s] = "crashed"]
  /\ UNCHANGED <<state, run, saw, toServer, toRunner, owes, pidFile, doneFile, input, output>>

Reap(s) ==
  /\ state[s] = "forked" /\ ~Running(s)
  /\ state' = [state EXCEPT ![s] = "reaped"]
  /\ UNCHANGED <<run, child, saw, toServer, toRunner, owes, pidFile, doneFile, input, output>>

WriteDone(s) ==
  /\ state[s] = "reaped" /\ "done" \in owes[s] /\ "pid" \notin owes[s]
  /\ IF doneFile[s] = Partial
       THEN /\ doneFile' = [doneFile EXCEPT ![s] = run[s]]
            /\ owes' = [owes EXCEPT ![s] = @ \ {"done"}]
       ELSE doneFile' = [doneFile EXCEPT ![s] = Partial] /\ UNCHANGED owes
  /\ UNCHANGED <<state, run, child, saw, toServer, toRunner, pidFile, input, output>>

Answer(s) ==
  /\ state[s] = "reaped" /\ "answer" \in owes[s]
  /\ owes' = [owes EXCEPT ![s] = @ \ {"answer"}]
  /\ toRunner' = [toRunner EXCEPT ![s] = @ + 1]
  /\ UNCHANGED <<state, run, child, saw, toServer, pidFile, doneFile, input, output>>

EndFork(s) ==
  /\ state[s] = "reaped" /\ owes[s] = {}
  /\ state' = [state EXCEPT ![s] = "ready"]
  /\ UNCHANGED <<run, child, saw, toServer, toRunner, owes, pidFile, doneFile, input, output>>

\* For instance at the limit setlimits puts on its memory.
ServerDies(s) ==
  /\ s \in MayDie
  /\ state[s] # "dead"
  /\ state' = [state EXCEPT ![s] = "dead"]
  /\ UNCHANGED <<run, child, saw, toServer, toRunner, owes, pidFile, doneFile, input, output>>

ServerStep(s) == Fork(s) \/ WritePid(s) \/ Reap(s) \/ WriteDone(s) \/ Answer(s) \/ EndFork(s)
ChildStep(s) == ChildReads(s) \/ ChildEnds(s)
===============================================================================
