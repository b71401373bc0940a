---------------------------- MODULE RunnerProcesses ----------------------------
(***************************************************************************)
(* The processes the runner starts and how it gets rid of them: the list   *)
(* RUNNING_PROCESSES (src/runner/limiter.py), the SIGINT handler and       *)
(* kill_running_processes (src/runner/symfusion.py), Popen and the waits   *)
(* of Executor (src/runner/executor.py), and the tracer that the queue     *)
(* manager starts (src/runner/path_tracer.py, queue_manager.py).  And what *)
(* outlives a session of the runner: the output directory, with the file   *)
(* .symfusion by which main recognises it, and processes nobody killed.    *)
(*                                                                         *)
(* The handler runs between any two steps of the runner, and of itself:    *)
(* frames is the stack of its activations.                                 *)
(***************************************************************************)
EXTENDS Runner, Sequences, FiniteSets

CONSTANTS
  ForkServers,  \* was -f given?
  MaxSessions,  \* bound: times the user starts the runner
  MaxSignals    \* bound: SIGINTs of the user

ASSUME RunnerProcessesAssumption ==
  /\ Timeouts \subseteq BOOLEAN /\ ForkServers \subseteq BOOLEAN
  /\ MaxRuns \in Nat \ {0} /\ MaxSessions \in Nat \ {0} /\ MaxSignals \in Nat

\* The tracer, and the target of each run.  With -f process 1 is the fork server.
Process == 0 .. MaxRuns
Tracer == 0

VARIABLES
  forkserver,   \* was -f given: never changes
  foreign,      \* is the output directory one of the user's?  Never changes
  session,      \* times the runner was started
  directory,    \* the output directory: "absent", "marked" by .symfusion, or "unmarked"
  strays,       \* processes of earlier sessions that are alive, by how they were left:
                \* "missed" by the last copy of RUNNING_PROCESSES, or by the session's end
  spoiled,      \* was setting up the directory cut short, without its mark? (history)
  alive,        \* processes that were started and have not ended
  registry,     \* RUNNING_PROCESSES
  frames,       \* activations of kill_running_processes, the innermost last
  shutdown,     \* limiter.SHUTDOWN
  signals,      \* SIGINTs sent
  missed        \* processes the last copy of RUNNING_PROCESSES lacked (history)

options == <<timeout, forkserver, foreign>>
sessionVars == <<session, directory, strays, spoiled>>
processesVars == <<options, sessionVars, pc, runs, alive, registry, frames, shutdown, signals, missed>>

Registered == {registry[k] : k \in DOMAIN registry}
Setup == {"check", "rmtree", "mkdir", "touch"}
Ended == {"aborted", "finished", "failed", "refused", "killed"}
Target == IF forkserver THEN 1 ELSE runs

ProcessesInit ==
  /\ timeout \in Timeouts /\ forkserver \in ForkServers /\ foreign \in BOOLEAN
  /\ session = 1
  /\ directory = IF foreign THEN "unmarked" ELSE "absent"
  /\ strays = {}
  /\ spoiled = FALSE
  /\ pc = "check"
  /\ runs = 0
  /\ alive = {}
  /\ registry = <<>>
  /\ frames = <<>>
  /\ shutdown = FALSE
  /\ signals = 0
  /\ missed = {}

\* The runner makes a step of its own only when no handler runs.
At(here) == pc = here /\ frames = <<>>

-------------------------------------------------------------------------------
(* main, up to the installation of the handler: the output directory.          *)

session_state == <<runs, alive, registry, frames, shutdown, missed>>

\* The directory is the runner's and does not show it.
Unfinished == pc \in {"rmtree", "touch"} /\ directory = "unmarked"

\* The directory is removed if the runner made it, and refused otherwise.
CheckOutput ==
  /\ pc = "check"
  /\ \/ directory = "absent"   /\ pc' = "mkdir"
     \/ directory = "marked"   /\ pc' = "rmtree"
     \/ directory = "unmarked" /\ pc' = "refused"
  /\ UNCHANGED <<options, sessionVars, session_state, signals>>

\* shutil.rmtree: the mark goes before, or with, the last of the other files ...
RemoveMark ==
  /\ pc = "rmtree" /\ directory = "marked"
  /\ directory' = "unmarked"
  /\ UNCHANGED <<options, session, strays, spoiled, pc, session_state, signals>>

\* ... and then the directory.
RemoveRest ==
  /\ pc = "rmtree" /\ directory = "unmarked"
  /\ directory' = "absent"
  /\ pc' = "mkdir"
  /\ UNCHANGED <<options, session, strays, spoiled, session_state, signals>>

\* A process left behind makes a file in a directory that rmtree has just emptied.
RemoveFails ==
  /\ pc = "rmtree" /\ strays # {}
  /\ pc' = "failed"
  /\ spoiled' = IF Unfinished THEN TRUE ELSE spoiled
  /\ UNCHANGED <<options, session, directory, strays, session_state, signals>>

MakeDirectory ==
  /\ pc = "mkdir"
  /\ directory' = "unmarked"
  /\ pc' = "touch"
  /\ UNCHANGED <<options, session, strays, spoiled, session_state, signals>>

\* Mutant of Touch: the mark is not made again after rmtree.
TouchOnce ==
  /\ pc = "touch"
  /\ directory' = IF session = 1 THEN "marked" ELSE directory
  /\ pc' = "tracer"
  /\ UNCHANGED <<options, session, strays, spoiled, session_state, signals>>

Touch ==
  /\ pc = "touch"
  /\ directory' = "marked"
  /\ pc' = "tracer"
  /\ UNCHANGED <<options, session, strays, spoiled, session_state, signals>>

\* A SIGINT before the handler is installed ends the runner; in os.system it ends the command
\* instead: main looks whether there is a directory now, but not whether there is a mark.
InterruptSetup ==
  /\ pc \in Setup /\ signals < MaxSignals
  /\ signals' = signals + 1
  /\ \/ pc' = "aborted"
     \/ pc = "mkdir" /\ pc' = "failed"
     \/ pc = "touch" /\ pc' = "tracer"
  /\ spoiled' = IF Unfinished THEN TRUE ELSE spoiled
  /\ UNCHANGED <<options, session, directory, strays, session_state>>

\* The runner is killed, in any session but the last, or the user starts it again.
Crash ==
  /\ pc \notin Ended /\ session < MaxSessions
  /\ pc' = "killed"
  /\ frames' = <<>>
  /\ spoiled' = IF Unfinished THEN TRUE ELSE spoiled
  /\ UNCHANGED <<options, session, directory, strays, runs, alive, registry, shutdown,
                 signals, missed>>

Left == IF pc \in {"aborted", "finished"} /\ alive \subseteq missed THEN "missed" ELSE pc

Restart ==
  /\ pc \in Ended /\ session < MaxSessions
  /\ session' = session + 1
  /\ strays' = IF alive # {} THEN strays \cup {Left} ELSE strays
  /\ pc' = "check"
  /\ runs' = 0
  /\ alive' = {} /\ registry' = <<>> /\ frames' = <<>> /\ missed' = {}
  /\ shutdown' = FALSE
  /\ UNCHANGED <<options, directory, spoiled, signals>>

StrayEnds ==
  /\ \E left \in strays : strays' = strays \ {left}
  /\ UNCHANGED <<options, session, directory, spoiled, pc, session_state, signals>>

-------------------------------------------------------------------------------
(* Starting: the tracer, then the fork server.                                 *)

StartTracer ==
  /\ At("tracer")
  /\ alive' = alive \cup {Tracer}
  /\ pc' = "tracer_append"
  /\ UNCHANGED <<options, sessionVars, runs, registry, frames, shutdown, signals, missed>>

AppendTracer ==
  /\ At("tracer_append")
  /\ registry' = Append(registry, Tracer)
  /\ pc' = "tracer_open"
  /\ UNCHANGED <<options, sessionVars, runs, alive, frames, shutdown, signals, missed>>

\* Opening a FIFO waits for the other side.
OpenTracer ==
  /\ At("tracer_open")
  /\ Tracer \in alive
  /\ pc' = IF forkserver THEN "server" ELSE "idle"
  /\ UNCHANGED <<options, sessionVars, runs, alive, registry, frames, shutdown, signals, missed>>

StartForkServer ==
  /\ At("server")
  /\ alive' = alive \cup {1}
  /\ pc' = "server_open"
  /\ UNCHANGED <<options, sessionVars, runs, registry, frames, shutdown, signals, missed>>

\* prepare_run opens the FIFOs of the fork server, which waits for it, before it returns.
AppendForkServer ==
  /\ At("server_open")
  /\ 1 \in alive
  /\ registry' = Append(registry, 1)
  /\ pc' = "idle"
  /\ UNCHANGED <<options, sessionVars, runs, alive, frames, shutdown, signals, missed>>

-------------------------------------------------------------------------------
(* Executor.run and fuzz_one.  The shutdown flag they look at is a copy made   *)
(* when the module was imported, so it is never set.                           *)

\* There is a testcase to run.
Pick ==
  /\ At("idle") /\ runs < MaxRuns
  /\ runs' = runs + 1
  /\ pc' = "copy"
  /\ UNCHANGED <<options, sessionVars, alive, registry, frames, shutdown, signals, missed>>

\* os.system: cp.
Copy ==
  /\ At("copy")
  /\ pc' = IF forkserver THEN "write" ELSE "popen"
  /\ UNCHANGED <<options, sessionVars, runs, alive, registry, frames, shutdown, signals, missed>>

StartTarget ==
  /\ At("popen")
  /\ alive' = alive \cup {Target}
  /\ pc' = "append"
  /\ UNCHANGED <<options, sessionVars, runs, registry, frames, shutdown, signals, missed>>

AppendTarget ==
  /\ At("append")
  /\ registry' = Append(registry, Target)
  /\ pc' = "wait"
  /\ UNCHANGED <<options, sessionVars, runs, alive, frames, shutdown, signals, missed>>

TargetEnded ==
  /\ At("wait") \/ At("wait1") \/ At("waitkill")
  /\ Target \notin alive
  /\ pc' = "remove"
  /\ UNCHANGED <<options, sessionVars, runs, alive, registry, frames, shutdown, signals, missed>>

\* p.wait(timeout) expires: SIGINT, after which the target may end or not.
Interrupt ==
  /\ At("wait") /\ timeout
  /\ Target \in alive
  /\ pc' = "wait1"
  /\ UNCHANGED <<options, sessionVars, runs, alive, registry, frames, shutdown, signals, missed>>

\* Mutant of KillTarget: one second after SIGINT the target is taken for ended.
KillTargetGivesUp ==
  /\ At("wait1")
  /\ Target \in alive
  /\ pc' = "remove"
  /\ UNCHANGED <<options, sessionVars, runs, alive, registry, frames, shutdown, signals, missed>>

\* p.wait(1) expires: SIGKILL.
KillTarget ==
  /\ At("wait1")
  /\ Target \in alive
  /\ alive' = alive \ {Target}
  /\ pc' = "waitkill"
  /\ UNCHANGED <<options, sessionVars, runs, registry, frames, shutdown, signals, missed>>

\* list.remove(p), if p is there: no process is in the list twice.
Without(list, p) ==
  IF \A k \in DOMAIN list : list[k] # p THEN list
  ELSE LET at == CHOOSE k \in DOMAIN list : list[k] = p
       IN [k \in 1 .. Len(list) - 1 |-> IF k < at THEN list[k] ELSE list[k + 1]]

RemoveTarget ==
  /\ At("remove")
  /\ registry' = Without(registry, Target)
  /\ pc' = "import"
  /\ UNCHANGED <<options, sessionVars, runs, alive, frames, shutdown, signals, missed>>

\* With -f: a byte to the fork server (module FuzzOne has the rest of the exchange).
WriteByte ==
  /\ At("write")
  /\ pc' = IF 1 \in alive THEN "pid" ELSE "failed"
  /\ UNCHANGED <<options, sessionVars, runs, alive, registry, frames, shutdown, signals, missed>>

\* Both are loops over files.  A fork server that has died may have written them before; if
\* not, the runner stays in the loop.
ReadTargetPid ==
  /\ At("pid")
  /\ pc' = "status"
  /\ UNCHANGED <<options, sessionVars, runs, alive, registry, frames, shutdown, signals, missed>>

ReadTargetStatus ==
  /\ At("status")
  /\ pc' = "import"
  /\ UNCHANGED <<options, sessionVars, runs, alive, registry, frames, shutdown, signals, missed>>

\* add_from_dir traces the testcases, and the working directory is removed.  An exception ends
\* the runner if there was a testcase to write to a dead tracer, or if a process of an earlier
\* session makes a file in the directory, which is at the same path, while it is removed.
Import ==
  /\ At("import")
  /\ \/ pc' = "idle"
     \/ (Tracer \notin alive \/ strays # {}) /\ pc' = "failed"
  /\ UNCHANGED <<options, sessionVars, runs, alive, registry, frames, shutdown, signals, missed>>

-------------------------------------------------------------------------------
(* kill_running_processes.                                                     *)

\* Mutant of CopyOfList: the loop runs over the list itself, so removing an element makes it
\* skip the next one.
CopyOfListItself == [k \in 1 .. (Len(registry) + 1) \div 2 |-> registry[2 * k - 1]]

CopyOfList == registry

\* A handler ends with sys.exit, the call at the end of main does not.
Call(exits) ==
  /\ shutdown' = TRUE
  /\ frames' = Append(frames, [todo |-> CopyOfList, at |-> "pkill", exits |-> exits])
  /\ missed' = alive \ Registered

Finish ==
  /\ At("idle")
  /\ Call(FALSE)
  /\ UNCHANGED <<options, sessionVars, pc, runs, alive, registry, signals>>

\* os.system ignores SIGINT while its command runs; the import of testcases has many of them.
InSystem ==
  IF frames = <<>> THEN pc \in {"copy", "import"}
  ELSE frames[Len(frames)].at = "pkill" /\ frames[Len(frames)].todo # <<>>

AlwaysInSystem == InSystem /\ (frames = <<>> => pc = "copy")

Sigint ==
  /\ signals < MaxSignals /\ pc \notin Ended \cup Setup
  /\ signals' = signals + 1
  /\ \/ InSystem /\ UNCHANGED <<shutdown, frames, missed>>
     \/ ~AlwaysInSystem /\ Call(TRUE)
  /\ UNCHANGED <<options, sessionVars, pc, runs, alive, registry>>

Top == frames[Len(frames)]
WithTop(top) == [frames EXCEPT ![Len(frames)] = top]

\* os.system: pkill -9 -P (the children of the process), then SIGINT and SIGUSR2.
KillChildren ==
  /\ frames # <<>> /\ Top.todo # <<>> /\ Top.at = "pkill"
  /\ frames' = WithTop([Top EXCEPT !.at = "wait"])
  /\ UNCHANGED <<options, sessionVars, pc, runs, alive, registry, shutdown, signals, missed>>

\* p.wait(2) returns, or it does not and the process gets SIGKILL.
EndWait ==
  /\ frames # <<>> /\ Top.at = "wait"
  /\ alive' = alive \ {Head(Top.todo)}
  /\ registry' = Without(registry, Head(Top.todo))
  /\ frames' = WithTop([Top EXCEPT !.todo = Tail(@), !.at = "pkill"])
  /\ UNCHANGED <<options, sessionVars, pc, runs, shutdown, signals, missed>>

\* Mutant of Swallowing: the wait for the target has a bare except, too.
SwallowingWait == {"pid", "status", "wait"}

\* Where the runner may be inside a try with a bare except.
Swallowing == {"pid", "status"}

\* What the SystemExit of the innermost handler does to the frame below: in its wait for a
\* process it is caught, and the process gets SIGKILL; anywhere else that frame ends, too.
UnwindsTo(n) ==
  /\ n > 0 => frames[n].at = "wait"
  /\ \A m \in n + 1 .. Len(frames) - 1 : frames[m].at # "wait"

\* Mutant of EndHandler: no sys.exit.
EndHandlerReturns ==
  /\ frames # <<>> /\ Top.todo = <<>> /\ Top.exits
  /\ frames' = SubSeq(frames, 1, Len(frames) - 1)
  /\ UNCHANGED <<options, sessionVars, pc, runs, alive, registry, shutdown, signals, missed>>

EndHandler ==
  /\ frames # <<>> /\ Top.todo = <<>> /\ Top.exits
  /\ \E n \in 0 .. Len(frames) - 1 :
       /\ UnwindsTo(n)
       /\ frames' = SubSeq(frames, 1, n)
       /\ \/ pc' = IF n = 0 THEN "aborted" ELSE pc
          \/ n = 0 /\ pc \in Swallowing /\ UNCHANGED pc
  /\ UNCHANGED <<options, sessionVars, runs, alive, registry, shutdown, signals, missed>>

EndMain ==
  /\ frames # <<>> /\ Top.todo = <<>> /\ ~Top.exits
  /\ frames' = <<>>
  /\ pc' = "finished"
  /\ UNCHANGED <<options, sessionVars, runs, alive, registry, shutdown, signals, missed>>

-------------------------------------------------------------------------------
\* A process may end by itself, or because of a SIGINT, or never.
ProcessEnds ==
  /\ \E p \in alive : alive' = alive \ {p}
  /\ UNCHANGED <<options, sessionVars, pc, runs, registry, frames, shutdown, signals, missed>>

Runner ==
  \/ CheckOutput \/ RemoveMark \/ RemoveRest \/ RemoveFails \/ MakeDirectory \/ Touch
  \/ StartTracer \/ AppendTracer \/ OpenTracer \/ StartForkServer \/ AppendForkServer
  \/ Pick \/ Copy \/ StartTarget \/ AppendTarget \/ TargetEnded \/ Interrupt \/ KillTarget
  \/ RemoveTarget \/ WriteByte \/ Import \/ Finish

ReadFiles == ReadTargetPid \/ ReadTargetStatus

Handler == KillChildren \/ EndWait \/ EndHandler \/ EndMain

\* The runner has ended, or waits for a tracer or fork server that is dead or a target without -t.
SessionsDone ==
  /\ pc \in Ended \cup {"tracer_open", "server_open", "pid", "status", "wait"}
  /\ UNCHANGED processesVars

User == Sigint \/ InterruptSetup \/ Crash \/ Restart

ProcessesNext == Runner \/ ReadFiles \/ Handler \/ User \/ ProcessEnds \/ StrayEnds \/ SessionsDone

ProcessesSpec == ProcessesInit /\ [][ProcessesNext]_processesVars

\* One thread, interrupted by at most MaxSignals handlers; a fork server that is alive writes
\* its files.
FairProcessesSpec ==
  /\ ProcessesSpec
  /\ WF_processesVars(Runner) /\ WF_processesVars(1 \in alive /\ ReadFiles)
  /\ WF_processesVars(Handler)
-------------------------------------------------------------------------------
(* Properties.                                                                 *)

\* When the runner has left through its handler or the end of main, however many times the
\* user interrupted it, the only processes left are those a SIGINT hit between their Popen
\* and their registration.
OnlyUnregisteredLeft == pc \in {"aborted", "finished"} => alive \subseteq missed

\* The testcases of a run are imported, and the next one is started, after its process ended.
\* A process that an earlier session left alive may write to the same directory meanwhile; there
\* is one only if that session was killed or failed, or if a SIGINT made the session miss it.
TargetEndedBeforeImport ==
  /\ pc \in {"import", "idle", "copy", "popen"} /\ ~forkserver => alive \subseteq {Tracer}
  /\ strays \subseteq {"killed", "failed", "missed"}

\* A directory of the user is refused and left alone.
ForeignKept ==
  foreign => directory = "unmarked" /\ pc \in {"check", "refused", "aborted", "killed"}

\* A directory of the runner is not refused by a later session, unless one was cut short
\* between the removal of the old mark and the new one.
OwnAccepted == pc = "refused" => foreign \/ spoiled

\* The output directory: removed if it is the runner's and only then, whatever became of the
\* sessions before, and read when the run that wrote to it has ended (symfusion.py:99-111),
\* while no other process writes to it but one of a session that did not end in its own way.
OutputDirectory == TargetEndedBeforeImport /\ ForeignKept /\ OwnAccepted

\* What the flag SHUTDOWN is for: no process is started after kill_running_processes has been
\* called.
NothingStartsAfterShutdown == [][shutdown => alive' \subseteq alive]_processesVars

\* A SIGINT that is not ignored ends the runner, unless -f was given.
AbortEnds == (frames # <<>> /\ ~forkserver) ~> (pc \in {"aborted", "finished", "killed"})

===============================================================================
