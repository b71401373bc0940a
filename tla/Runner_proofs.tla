------------------------------ MODULE Runner_proofs ------------------------------
(***************************************************************************)
(* Theorems about the runner: about its processes and its interruptions    *)
(* (RunnerProcesses), for every number of runs, sessions and signals, with *)
(* and without -t and -f; and about a run between its two fork servers     *)
(* (FuzzOne), for every number of runs and traces, with children that hang *)
(* and servers that die at any moment.                                     *)
(***************************************************************************)
EXTENDS FuzzOne, RunnerProcesses, TLAPS

-------------------------------------------------------------------------------
(* Types.                                                                      *)

\* A handler waits for the first process of its list.
Frame == {f \in [todo : Seq(Process), at : {"pkill", "wait"}, exits : BOOLEAN] :
            f.at = "wait" => f.todo # <<>>}

Opening == {"tracer", "tracer_append", "tracer_open", "server", "server_open"}
Exploring == {"idle", "copy", "popen", "append", "wait", "wait1", "waitkill", "remove",
            "write", "pid", "status", "import"}

TypeProcesses ==
  /\ runs \in 0 .. MaxRuns
  /\ alive \subseteq Process /\ missed \subseteq Process
  /\ registry \in Seq(Process)
  /\ frames \in Seq(Frame)
  /\ shutdown \in BOOLEAN

TypeSession ==
  /\ timeout \in BOOLEAN /\ forkserver \in BOOLEAN /\ foreign \in BOOLEAN
  /\ pc \in Setup \cup Opening \cup Exploring \cup Ended
  /\ directory \in {"absent", "marked", "unmarked"}
  /\ session \in Nat /\ strays \subseteq {"killed", "failed", "missed"} /\ spoiled \in BOOLEAN /\ signals \in Nat

TypesOfProcesses == TypeProcesses /\ TypeSession

-------------------------------------------------------------------------------
(* The inductive invariant.                                                    *)

\* Only the runner proper is ever interrupted by a handler.
Placed ==
  /\ frames # <<>> => pc \in Opening \cup Exploring
  /\ pc \in Setup \cup {"refused"} => alive = {}
  /\ pc \in Setup => ~shutdown
  /\ pc \in {"server", "server_open", "write", "pid", "status"} => forkserver
  /\ pc \in {"popen", "append", "wait", "wait1", "waitkill", "remove"} => ~forkserver

\* A handler looks after every process its copy of the list had; when the last of them is
\* done, what is alive was missed by the copy, and so it stays until the runner has left, as
\* nothing is started meanwhile.
Covered ==
  /\ frames # <<>> => alive \subseteq missed \cup {Top.todo[k] : k \in DOMAIN Top.todo}
  /\ pc \in {"aborted", "finished"} => alive \subseteq missed

\* What a shutdown that was swallowed leaves behind is a runner whose fork server is not alive.
Stopped ==
  /\ ~shutdown => frames = <<>> /\ missed = {}
  /\ shutdown /\ frames = <<>> =>
       pc \in Ended \/ (forkserver /\ pc \in Exploring /\ alive \subseteq missed)
  /\ forkserver /\ pc \in Exploring => 1 \notin missed /\ (1 \in alive => 1 \in Registered)

\* Without -f the target is alive only while its run is waited for.
Waited ==
  ~forkserver /\ pc \notin Ended =>
    alive \subseteq IF pc \in {"append", "wait", "wait1"} THEN {Tracer, runs} ELSE {Tracer}

\* A directory without the mark is the user's, or spoiled, or still being set up.
Marked ==
  /\ foreign => directory = "unmarked" /\ frames = <<>>
                /\ pc \in {"check", "refused", "aborted", "killed"}
  /\ directory = "unmarked" => foreign \/ spoiled \/ pc \in {"rmtree", "touch"}
  /\ pc = "refused" => foreign \/ spoiled

ProcessesInv == TypesOfProcesses /\ Placed /\ Covered /\ Stopped /\ Waited /\ Marked

-------------------------------------------------------------------------------
(* Lemmas about the list of processes and the stack of handlers.               *)

LEMMA WithoutProperties ==
  ASSUME NEW list \in Seq(Process), NEW p
  PROVE  /\ Without(list, p) \in Seq(Process)
         /\ \A k \in DOMAIN list : list[k] # p =>
              \E m \in DOMAIN Without(list, p) : Without(list, p)[m] = list[k]
<1>1. CASE \A k \in DOMAIN list : list[k] # p
  BY <1>1 DEF Without
<1>2. CASE ~ \A k \in DOMAIN list : list[k] # p
  <2> DEFINE at == CHOOSE k \in DOMAIN list : list[k] = p
             new == [k \in 1 .. Len(list) - 1 |-> IF k < at THEN list[k] ELSE list[k + 1]]
  <2>1. at \in 1 .. Len(list) /\ list[at] = p
    BY <1>2
  <2>2. Without(list, p) = new
    BY <1>2 DEF Without
  <2> HIDE DEF at
  <2>3. new \in Seq(Process) /\ DOMAIN new = 1 .. Len(list) - 1
    BY <2>1
  <2>4. ASSUME NEW k \in DOMAIN list, list[k] # p
        PROVE  \E m \in DOMAIN new : new[m] = list[k]
    <3>1. CASE k < at
      <4>1. k \in DOMAIN new /\ new[k] = list[k]
        BY <2>1, <2>3, <3>1
      <4>2. QED BY <4>1
    <3>2. CASE k > at
      <4>1. k - 1 \in DOMAIN new /\ new[k - 1] = list[k]
        BY <2>1, <2>3, <3>2
      <4>2. QED BY <4>1
    <3>3. QED BY <2>1, <2>4, <3>1, <3>2
  <2>5. QED BY <2>2, <2>3, <2>4
<1>3. QED BY <1>1, <1>2

LEMMA TopTyped ==
  ASSUME TypesOfProcesses, frames # <<>>
  PROVE  /\ Len(frames) \in Nat \ {0} /\ Top \in Frame
         /\ \A f \in Frame : WithTop(f) \in Seq(Frame) /\ Len(WithTop(f)) = Len(frames)
                             /\ WithTop(f)[Len(frames)] = f
BY DEF TypesOfProcesses, TypeProcesses, Top, WithTop

-------------------------------------------------------------------------------
(* Every step keeps the invariant.                                             *)

LEMMA ProcessesInitInv == ProcessesInit => ProcessesInv
<1> SUFFICES ASSUME ProcessesInit PROVE ProcessesInv
  OBVIOUS
<1>1. TypeProcesses
  <2>1. runs \in 0 .. MaxRuns
    BY RunnerProcessesAssumption DEF ProcessesInit
  <2>2. alive \subseteq Process /\ missed \subseteq Process
    BY DEF ProcessesInit
  <2>3. registry \in Seq(Process)
    BY DEF ProcessesInit
  <2>4. frames \in Seq(Frame)
    BY DEF ProcessesInit
  <2>5. shutdown \in BOOLEAN
    BY DEF ProcessesInit
  <2>6. QED BY <2>1, <2>2, <2>3, <2>4, <2>5 DEF TypeProcesses
<1>2. TypeSession
  BY RunnerProcessesAssumption DEF ProcessesInit, TypeSession, Setup
<1>3. Placed /\ Covered /\ Stopped /\ Waited
  <2>1. frames = <<>> /\ alive = {} /\ missed = {} /\ pc = "check" /\ shutdown = FALSE
    BY DEF ProcessesInit
  <2>2. QED BY <2>1 DEF Placed, Covered, Stopped, Waited, Setup, Opening, Exploring, Ended
<1>4. Marked
  BY DEF ProcessesInit, Marked
<1>5. QED BY <1>1, <1>2, <1>3, <1>4 DEF ProcessesInv, TypesOfProcesses

\* The set-up of the directory, and what the user does to it.
LEMMA SetupInv ==
  ASSUME ProcessesInv,
         \/ CheckOutput \/ RemoveMark \/ RemoveRest \/ RemoveFails \/ MakeDirectory \/ Touch
         \/ InterruptSetup \/ Crash \/ Restart \/ StrayEnds
  PROVE  ProcessesInv'
<1> USE DEF ProcessesInv, TypesOfProcesses, TypeProcesses, TypeSession, Placed, Covered, Stopped, Waited,
            Marked, Setup, Opening, Exploring, Ended, Unfinished, options, sessionVars, session_state,
            Top, Registered, Swallowing
<1>1. CASE CheckOutput
  BY <1>1 DEF CheckOutput
<1>2. CASE RemoveMark
  BY <1>2 DEF RemoveMark
<1>3. CASE RemoveRest
  BY <1>3 DEF RemoveRest
<1>4. CASE RemoveFails
  BY <1>4 DEF RemoveFails
<1>5. CASE MakeDirectory
  BY <1>5 DEF MakeDirectory
<1>6. CASE Touch
  BY <1>6 DEF Touch
<1>7. CASE InterruptSetup
  <2>1. TypeProcesses'
    BY <1>7 DEF InterruptSetup
  <2>2. TypeSession'
    <3>1. signals' \in Nat
      BY <1>7 DEF InterruptSetup
    <3>2. pc' \in Setup \cup Opening \cup Exploring \cup Ended
      BY <1>7 DEF InterruptSetup
    <3>3. spoiled' \in BOOLEAN
      BY <1>7 DEF InterruptSetup
    <3>4. QED BY <1>7, <3>1, <3>2, <3>3 DEF InterruptSetup
  <2>3. Placed'
    BY <1>7 DEF InterruptSetup
  <2>4. Covered'
    BY <1>7 DEF InterruptSetup
  <2>5. Stopped'
    BY <1>7 DEF InterruptSetup
  <2>6. Waited'
    BY <1>7 DEF InterruptSetup
  <2>7. Marked'
    BY <1>7 DEF InterruptSetup
  <2>8. QED BY <2>1, <2>2, <2>3, <2>4, <2>5, <2>6, <2>7
<1>8. CASE Crash
  <2>1. TypeProcesses'
    BY <1>8 DEF Crash
  <2>2. TypeSession'
    BY <1>8 DEF Crash
  <2>3. Placed'
    BY <1>8 DEF Crash
  <2>4. Covered'
    BY <1>8 DEF Crash
  <2>5. Stopped'
    BY <1>8 DEF Crash
  <2>6. Waited'
    BY <1>8 DEF Crash
  <2>7. Marked'
    BY <1>8 DEF Crash
  <2>8. QED BY <2>1, <2>2, <2>3, <2>4, <2>5, <2>6, <2>7
<1>9. CASE Restart
  <2>1. TypeProcesses'
    <3>1. runs' \in 0 .. MaxRuns
      BY <1>9, RunnerProcessesAssumption DEF Restart
    <3>2. registry' \in Seq(Process) /\ frames' \in Seq(Frame)
      BY <1>9 DEF Restart
    <3>3. QED BY <1>9, <3>1, <3>2 DEF Restart
  <2>2. TypeSession'
    <3>1. session' \in Nat
      BY <1>9 DEF Restart
    <3>2. strays' \subseteq {"killed", "failed", "missed"}
      BY <1>9 DEF Restart, Left
    <3>3. QED BY <1>9, <3>1, <3>2 DEF Restart
  <2>3. Placed'
    BY <1>9 DEF Restart
  <2>4. Covered'
    BY <1>9 DEF Restart
  <2>5. Stopped'
    BY <1>9 DEF Restart
  <2>6. Waited'
    BY <1>9 DEF Restart
  <2>7. Marked'
    BY <1>9 DEF Restart
  <2>8. QED BY <2>1, <2>2, <2>3, <2>4, <2>5, <2>6, <2>7
<1>10. CASE StrayEnds
  <2>1. TypeProcesses'
    BY <1>10 DEF StrayEnds
  <2>2. TypeSession'
    BY <1>10 DEF StrayEnds
  <2>3. Placed'
    BY <1>10 DEF StrayEnds
  <2>4. Covered'
    BY <1>10 DEF StrayEnds
  <2>5. Stopped'
    BY <1>10 DEF StrayEnds
  <2>6. Waited'
    BY <1>10 DEF StrayEnds
  <2>7. Marked'
    BY <1>10 DEF StrayEnds
  <2>8. QED BY <2>1, <2>2, <2>3, <2>4, <2>5, <2>6, <2>7
<1>11. QED BY <1>1, <1>2, <1>3, <1>4, <1>5, <1>6, <1>7, <1>8, <1>9, <1>10

\* The runner proper, which makes a step only when no handler runs.
LEMMA RunnerStepInv ==
  ASSUME ProcessesInv,
         \/ StartTracer \/ AppendTracer \/ OpenTracer \/ StartForkServer \/ AppendForkServer
         \/ Pick \/ Copy \/ StartTarget \/ AppendTarget \/ TargetEnded \/ Interrupt \/ KillTarget
         \/ RemoveTarget \/ WriteByte \/ ReadTargetPid \/ ReadTargetStatus \/ Import
  PROVE  ProcessesInv'
<1> USE DEF ProcessesInv, TypesOfProcesses, TypeProcesses, TypeSession, Placed, Covered, Stopped, Waited,
            Marked, Setup, Opening, Exploring, Ended, options, sessionVars, At, Target, Tracer,
            Registered, Swallowing
<1>0. 0 \in Process /\ 1 \in Process /\ runs \in Process
  BY RunnerProcessesAssumption DEF Process
<1>1. CASE StartTracer
  BY <1>0, <1>1 DEF StartTracer
<1>2. CASE AppendTracer
  BY <1>0, <1>2 DEF AppendTracer
<1>3. CASE OpenTracer
  BY <1>0, <1>3 DEF OpenTracer
<1>4. CASE StartForkServer
  BY <1>0, <1>4 DEF StartForkServer
<1>5. CASE AppendForkServer
  BY <1>0, <1>5 DEF AppendForkServer
<1>6. CASE Pick
  <2>1. runs' \in 0 .. MaxRuns
    BY <1>6, RunnerProcessesAssumption DEF Pick
  <2>2. QED BY <1>6, <2>1 DEF Pick
<1>7. CASE Copy
  BY <1>0, <1>7 DEF Copy
<1>8. CASE StartTarget
  <2>1. frames = <<>> /\ alive' = alive \cup {Target} /\ Target \in Process /\ ~shutdown
    BY <1>0, <1>8 DEF StartTarget
  <2>2. TypeProcesses'
    <3>1. alive' \subseteq Process
      BY <2>1
    <3>2. QED BY <1>8, <3>1 DEF StartTarget
  <2>5. TypeSession'
    BY <1>8 DEF StartTarget
  <2>6. Placed' /\ Covered' /\ Marked'
    BY <1>8, <2>1 DEF StartTarget
  <2>3. Stopped'
    BY <1>8, <2>1 DEF StartTarget
  <2>4. Waited'
    BY <1>8, <2>1 DEF StartTarget
  <2>7. QED BY <2>2, <2>3, <2>4, <2>5, <2>6
<1>9. CASE AppendTarget
  BY <1>0, <1>9 DEF AppendTarget
<1>10. CASE TargetEnded
  BY <1>0, <1>10 DEF TargetEnded
<1>11. CASE Interrupt
  BY <1>0, <1>11 DEF Interrupt
<1>12. CASE KillTarget
  BY <1>0, <1>12 DEF KillTarget
<1>13. CASE RemoveTarget
  <2>1. registry' \in Seq(Process)
    BY <1>13, WithoutProperties DEF RemoveTarget
  <2>2. forkserver = FALSE
    BY <1>13 DEF RemoveTarget
  <2>3. QED BY <1>13, <2>1, <2>2 DEF RemoveTarget
<1>14. CASE WriteByte
  BY <1>0, <1>14 DEF WriteByte
<1>15. CASE ReadTargetPid
  BY <1>0, <1>15 DEF ReadTargetPid
<1>16. CASE ReadTargetStatus
  BY <1>0, <1>16 DEF ReadTargetStatus
<1>17. CASE Import
  BY <1>0, <1>17 DEF Import
<1>18. QED BY <1>1, <1>2, <1>3, <1>4, <1>5, <1>6, <1>7, <1>8, <1>9, <1>10, <1>11, <1>12, <1>13, <1>14, <1>15, <1>16, <1>17

\* A call of kill_running_processes, which lists what is alive and not in its copy.
LEMMA CallInv ==
  ASSUME ProcessesInv, NEW exits \in BOOLEAN, Call(exits), pc \in Opening \cup Exploring,
         UNCHANGED <<options, sessionVars, pc, runs, alive, registry>>, signals' \in Nat
  PROVE  ProcessesInv'
<1> DEFINE f == [todo |-> registry, at |-> "pkill", exits |-> exits]
<1>1. f \in Frame
  BY DEF ProcessesInv, TypesOfProcesses, TypeProcesses, Frame
<1>2. frames' = Append(frames, f) /\ frames' \in Seq(Frame) /\ frames' # <<>> /\ Top' = f
  BY <1>1 DEF ProcessesInv, TypesOfProcesses, TypeProcesses, Call, CopyOfList, Top
<1>3. missed' = alive \ Registered /\ shutdown' = TRUE
  BY DEF Call
<1> HIDE DEF f
<1>4. TypeProcesses'
  BY <1>2, <1>3 DEF ProcessesInv, TypesOfProcesses, TypeProcesses, Process
<1>5. TypeSession'
  BY DEF ProcessesInv, TypesOfProcesses, TypeSession, options, sessionVars
<1>6. ~foreign
  BY DEF ProcessesInv, Marked, Opening, Exploring
<1>7. Placed' /\ Waited' /\ Marked'
  BY <1>2, <1>6 DEF ProcessesInv, Placed, Waited, Marked, options, sessionVars, Opening, Exploring, Setup,
                    Ended
<1>8. Covered'
  BY <1>2, <1>3 DEF f, Covered, Registered, Opening, Exploring
<1>9. Stopped'
  BY <1>2, <1>3 DEF ProcessesInv, Stopped, Registered, options
<1>10. QED BY <1>4, <1>5, <1>7, <1>8, <1>9 DEF ProcessesInv, TypesOfProcesses

\* The handler, and what can happen at any moment.
LEMMA HandlerStepInv ==
  ASSUME ProcessesInv,
         Finish \/ Sigint \/ KillChildren \/ EndWait \/ EndHandler \/ EndMain \/ ProcessEnds
  PROVE  ProcessesInv'
<1>1. CASE Finish
  <2>1. Call(FALSE) /\ pc \in Opening \cup Exploring /\ signals' \in Nat
    BY <1>1 DEF Finish, At, Exploring, ProcessesInv, TypesOfProcesses, TypeSession
  <2>2. QED BY <1>1, <2>1, CallInv DEF Finish
<1>2. CASE Sigint
  <2>1. signals' \in Nat /\ pc \in Opening \cup Exploring
    BY <1>2 DEF Sigint, ProcessesInv, TypesOfProcesses, TypeSession
  <2>2. CASE Call(TRUE)
    BY <1>2, <2>1, <2>2, CallInv DEF Sigint
  <2>3. CASE UNCHANGED <<shutdown, frames, missed>>
    BY <1>2, <2>1, <2>3
       DEF Sigint, ProcessesInv, TypesOfProcesses, TypeProcesses, TypeSession, Placed, Covered, Stopped,
           Waited, Marked, Top, Registered, options, sessionVars
  <2>4. QED BY <1>2, <2>2, <2>3 DEF Sigint
<1>3. CASE KillChildren
  <2> DEFINE f == [Top EXCEPT !.at = "wait"]
  <2>1. f \in Frame /\ f.todo = Top.todo
    BY <1>3, TopTyped DEF KillChildren, ProcessesInv, Frame
  <2>2. frames' \in Seq(Frame) /\ frames' # <<>> /\ Top' = f
    BY <1>3, <2>1, TopTyped DEF KillChildren, ProcessesInv, Top
  <2> HIDE DEF f
  <2>3. TypesOfProcesses'
    BY <1>3, <2>2 DEF KillChildren, ProcessesInv, TypesOfProcesses, TypeProcesses, TypeSession, options, sessionVars
  <2>4. frames # <<>>
    BY <1>3 DEF KillChildren
  <2>5. Placed' /\ Waited' /\ Marked' /\ Covered' /\ Stopped'
    BY <1>3, <2>1, <2>2, <2>4
       DEF KillChildren, ProcessesInv, Placed, Waited, Marked, Covered, Stopped, options, sessionVars,
           Registered
  <2>6. QED BY <2>3, <2>5 DEF ProcessesInv
<1>4. CASE EndWait
  <2> DEFINE f == [Top EXCEPT !.todo = Tail(@), !.at = "pkill"]
  <2>1. Top \in Frame /\ Top.todo \in Seq(Process) /\ Top.todo # <<>> /\ frames # <<>>
    BY <1>4, TopTyped DEF EndWait, ProcessesInv, Frame
  <2>2. f \in Frame /\ f.todo = Tail(Top.todo)
    <3>1. Tail(Top.todo) \in Seq(Process)
      BY <2>1
    <3>2. Top \in [todo : Seq(Process), at : {"pkill", "wait"}, exits : BOOLEAN]
      BY <2>1 DEF Frame
    <3>3. f.todo = Tail(Top.todo) /\ f.at = "pkill" /\ f.exits = Top.exits
      BY <3>2
    <3>4. f \in [todo : Seq(Process), at : {"pkill", "wait"}, exits : BOOLEAN]
      BY <3>1, <3>2, <3>3
    <3>5. QED BY <3>3, <3>4 DEF Frame
  <2>3. frames' \in Seq(Frame) /\ frames' # <<>> /\ Top' = f
    BY <1>4, <2>2, TopTyped DEF EndWait, ProcessesInv, Top
  <2>4. /\ registry \in Seq(Process) /\ registry' = Without(registry, Head(Top.todo))
        /\ alive' = alive \ {Head(Top.todo)}
    BY <1>4 DEF EndWait, ProcessesInv, TypesOfProcesses, TypeProcesses
  <2> DEFINE list == Top.todo
  <2>5. \A k \in DOMAIN list : list[k] = Head(list)
          \/ \E m \in DOMAIN Tail(list) : Tail(list)[m] = list[k]
    <3>1. list \in Seq(Process) /\ list # <<>>
      BY <2>1
    <3> HIDE DEF list
    <3>2. ASSUME NEW k \in DOMAIN list, k # 1
          PROVE  k - 1 \in DOMAIN Tail(list) /\ Tail(list)[k - 1] = list[k]
      BY <3>1, <3>2
    <3>3. list[1] = Head(list)
      BY <3>1
    <3>4. QED BY <3>2, <3>3
  <2>6. TypesOfProcesses'
    <3>1. registry' \in Seq(Process)
      BY <2>4, WithoutProperties
    <3>2. QED
      BY <1>4, <2>3, <2>4, <3>1
         DEF EndWait, ProcessesInv, TypesOfProcesses, TypeProcesses, TypeSession, options, sessionVars
  <2>7. Covered'
    <3>1. alive \subseteq missed \cup {list[k] : k \in DOMAIN list}
      BY <2>1 DEF ProcessesInv, Covered
    <3>2. alive' \subseteq missed \cup {Tail(list)[k] : k \in DOMAIN Tail(list)}
      BY <2>4, <2>5, <3>1
    <3>3. pc \notin {"aborted", "finished"} /\ UNCHANGED <<pc, missed>>
      BY <1>4, <2>1 DEF EndWait, ProcessesInv, Placed, Opening, Exploring
    <3>4. QED BY <2>2, <2>3, <3>2, <3>3 DEF Covered
  <2>8. 1 \in alive' /\ 1 \in Registered => 1 \in Registered'
    <3>1. SUFFICES ASSUME 1 # Head(Top.todo), NEW k \in DOMAIN registry, registry[k] = 1
                   PROVE  1 \in Registered'
      BY <2>4 DEF Registered
    <3>2. \E m \in DOMAIN registry' : registry'[m] = 1
      BY <2>4, <3>1, WithoutProperties
    <3>3. QED BY <3>2 DEF Registered
  <2> HIDE DEF f
  <2>9. Stopped'
    BY <1>4, <2>1, <2>3, <2>4, <2>8 DEF EndWait, ProcessesInv, Stopped, options
  <2>10. Placed' /\ Waited' /\ Marked'
    BY <1>4, <2>1, <2>3, <2>4
       DEF EndWait, ProcessesInv, Placed, Waited, Marked, options, sessionVars, Opening, Exploring, Setup
  <2>11. QED BY <2>6, <2>7, <2>9, <2>10 DEF ProcessesInv
<1>5. CASE EndHandler
  <2>1. frames # <<>> /\ Top.todo = <<>> /\ pc \in Opening \cup Exploring /\ shutdown /\ ~foreign
    BY <1>5 DEF EndHandler, ProcessesInv, Placed, Stopped, Marked
  <2>2. alive \subseteq missed
    BY <2>1 DEF ProcessesInv, Covered
  <2>3. PICK n \in 0 .. Len(frames) - 1 :
          /\ frames' = SubSeq(frames, 1, n)
          /\ \/ pc' = IF n = 0 THEN "aborted" ELSE pc
             \/ n = 0 /\ pc \in Swallowing /\ UNCHANGED pc
    BY <1>5 DEF EndHandler
  <2>4. frames \in Seq(Frame) /\ frames' \in Seq(Frame) /\ (frames' = <<>> <=> n = 0)
    <3>1. frames \in Seq(Frame)
      BY DEF ProcessesInv, TypesOfProcesses, TypeProcesses
    <3>2. SubSeq(frames, 1, n) \in Seq(Frame) /\ Len(SubSeq(frames, 1, n)) = n
      BY <3>1
    <3>3. SubSeq(frames, 1, n) = <<>> <=> n = 0
      BY <3>2
    <3>4. QED BY <2>3, <3>1, <3>2, <3>3
  <2>5. \/ pc' = "aborted" /\ frames' = <<>>
        \/ pc' = pc /\ (frames' = <<>> => pc \in Swallowing)
    BY <2>3, <2>4
  <2>6. UNCHANGED <<options, sessionVars, runs, alive, registry, shutdown, signals, missed>>
    BY <1>5 DEF EndHandler
  <2>7. TypesOfProcesses'
    BY <2>4, <2>5, <2>6
       DEF ProcessesInv, TypesOfProcesses, TypeProcesses, TypeSession, options, sessionVars, Ended
  <2>8. Placed' /\ Covered' /\ Waited' /\ Marked'
    BY <2>1, <2>2, <2>5, <2>6
       DEF ProcessesInv, Placed, Covered, Waited, Marked, options, sessionVars, Opening, Exploring, Setup,
           Ended
  <2>9. Stopped'
    BY <2>1, <2>2, <2>5, <2>6
       DEF ProcessesInv, Placed, Stopped, options, Registered, Ended, Exploring, Swallowing
  <2>10. QED BY <2>7, <2>8, <2>9 DEF ProcessesInv
<1>6. CASE EndMain
  <2>1. frames # <<>> /\ Top.todo = <<>> /\ shutdown /\ ~foreign
    BY <1>6 DEF EndMain, ProcessesInv, Stopped, Marked
  <2>2. alive \subseteq missed
    BY <2>1 DEF ProcessesInv, Covered
  <2>3. /\ frames' = <<>> /\ frames' \in Seq(Frame) /\ pc' = "finished"
        /\ UNCHANGED <<options, sessionVars, runs, alive, registry, shutdown, signals, missed>>
    BY <1>6 DEF EndMain
  <2>4. TypesOfProcesses'
    BY <2>3 DEF ProcessesInv, TypesOfProcesses, TypeProcesses, TypeSession, options, sessionVars, Ended
  <2>5. Placed' /\ Covered' /\ Waited' /\ Marked' /\ Stopped'
    BY <2>1, <2>2, <2>3
       DEF ProcessesInv, Placed, Covered, Waited, Marked, Stopped, options, sessionVars, Setup, Exploring,
           Ended
  <2>6. QED BY <2>4, <2>5 DEF ProcessesInv
<1>7. CASE ProcessEnds
  <2>1. /\ alive' \subseteq alive
        /\ UNCHANGED <<options, sessionVars, pc, runs, registry, frames, shutdown, signals, missed>>
    BY <1>7 DEF ProcessEnds
  <2>2. TypesOfProcesses'
    BY <2>1 DEF ProcessesInv, TypesOfProcesses, TypeProcesses, TypeSession, options, sessionVars
  <2>3. Placed' /\ Covered' /\ Stopped'
    BY <2>1 DEF ProcessesInv, Placed, Covered, Stopped, options, Top, Registered
  <2>4. Waited' /\ Marked'
    BY <2>1 DEF ProcessesInv, Waited, Marked, options, sessionVars
  <2>5. QED BY <2>2, <2>3, <2>4 DEF ProcessesInv
<1>8. QED BY <1>1, <1>2, <1>3, <1>4, <1>5, <1>6, <1>7

LEMMA ProcessesNextInv == ProcessesInv /\ [ProcessesNext]_processesVars => ProcessesInv'
<1> SUFFICES ASSUME ProcessesInv, [ProcessesNext]_processesVars PROVE ProcessesInv'
  OBVIOUS
<1>1. CASE UNCHANGED processesVars
  BY <1>1 DEF processesVars, options, sessionVars, ProcessesInv, TypesOfProcesses, TypeProcesses, TypeSession, Placed,
              Covered, Stopped, Waited, Marked, Top, Registered
<1>2. CASE ProcessesNext
  BY <1>1, <1>2, SetupInv, RunnerStepInv, HandlerStepInv DEF ProcessesNext, Runner, ReadFiles, Handler, User, SessionsDone
<1>3. QED BY <1>1, <1>2

-------------------------------------------------------------------------------
(* Theorems.                                                                   *)

\* The inductive invariant holds throughout.
THEOREM Invariance == ProcessesSpec => []ProcessesInv
BY ProcessesInitInv, ProcessesNextInv, PTL DEF ProcessesSpec

\* When the runner has left through its handler or the end of main, it leaves alive only what
\* it had started and not yet put into RUNNING_PROCESSES (symfusion.py, kill_running_processes).
THEOREM LeftAreUnregistered == ProcessesSpec => []OnlyUnregisteredLeft
<1>1. ProcessesInv => OnlyUnregisteredLeft
  BY DEF ProcessesInv, Covered, OnlyUnregisteredLeft
<1>2. QED BY <1>1, Invariance, PTL

\* The output directory: main removes it only if it is the runner's, accepts its own, and the
\* testcases are read when the run that wrote them has ended; a process of an earlier session
\* that still writes there was left by a session that was killed or failed, or missed by it.
THEOREM DirectoryKept == ProcessesSpec => []OutputDirectory
<1>1. ProcessesInv => TargetEndedBeforeImport
  BY DEF ProcessesInv, TypesOfProcesses, TypeSession, Waited, TargetEndedBeforeImport, Ended
<1>2. ProcessesInv => ForeignKept /\ OwnAccepted
  BY DEF ProcessesInv, Marked, ForeignKept, OwnAccepted
<1>3. QED BY <1>1, <1>2, Invariance, PTL DEF OutputDirectory

\* After kill_running_processes was called, the runner starts no process any more.
THEOREM ShutdownIsFinal == ProcessesSpec => NothingStartsAfterShutdown
<1>1. ASSUME ProcessesInv, [ProcessesNext]_processesVars, shutdown PROVE alive' \subseteq alive
  <2>1. frames = <<>> => pc \in Ended \/ (forkserver /\ pc \in Exploring)
    BY <1>1 DEF ProcessesInv, Stopped
  <2>2. ~ (StartTracer \/ StartForkServer \/ StartTarget)
    BY <1>1, <2>1 DEF StartTracer, StartForkServer, StartTarget, At, Ended, Exploring, ProcessesInv, Placed
  <2>3. CASE Runner \/ ReadFiles
    BY <2>2, <2>3 DEF Runner, ReadFiles, session_state, CheckOutput, RemoveMark, RemoveRest, RemoveFails,
         MakeDirectory, Touch, AppendTracer, OpenTracer, AppendForkServer, Pick, Copy, AppendTarget,
         TargetEnded, Interrupt, KillTarget, RemoveTarget, WriteByte, ReadTargetPid, ReadTargetStatus, Import,
         Finish
  <2>4. CASE Handler
    BY <2>4 DEF Handler, KillChildren, EndWait, EndHandler, EndMain
  <2>5. CASE User
    BY <2>5 DEF User, session_state, Sigint, InterruptSetup, Crash, Restart
  <2>6. CASE ProcessEnds \/ StrayEnds \/ SessionsDone \/ UNCHANGED processesVars
    BY <2>6 DEF ProcessEnds, StrayEnds, SessionsDone, processesVars, session_state
  <2>7. QED BY <1>1, <2>3, <2>4, <2>5, <2>6 DEF ProcessesNext
<1>2. ProcessesInv /\ [ProcessesNext]_processesVars => [shutdown => alive' \subseteq alive]_processesVars
  BY <1>1
<1>3. QED BY <1>2, Invariance, PTL DEF ProcessesSpec, NothingStartsAfterShutdown

-------------------------------------------------------------------------------
(* The runner between its fork servers.                                        *)

USE FuzzOneAssumption, ForkServerAssumption DEF No, Partial

LEMMA InitInv == Init => RunnerInv
<1> SUFFICES ASSUME Init PROVE RunnerInv
  OBVIOUS
<1> USE DEF Init, ForkServerInit
<1>1. TypeOK
  BY DEF TypeOK
<1>2. TokenInv
  BY DEF TokenInv, Tokens, Owed, Asked, Waiting, Running
<1>3. TargetInv
  BY DEF TargetInv, Running
<1>4. TracerInv
  BY DEF TracerInv, VerdictFresh, Running
<1>5. QED BY <1>1, <1>2, <1>3, <1>4 DEF RunnerInv

-------------------------------------------------------------------------------
(* The servers and their children.                                             *)

LEMMA ForkInv ==
  ASSUME RunnerInv, NEW s \in Server, Fork(s), UNCHANGED runnerVars
  PROVE  RunnerInv'
<1> USE DEF RunnerInv, Fork, runnerVars
<1>1. TypeOK'
  BY DEF TypeOK, TokenInv, Tokens, Owed, Running
<1>2. TokenInv'
  BY DEF TypeOK, TokenInv, Tokens, Owed, Asked, Waiting, Running
<1>3. TargetInv'
  BY DEF TypeOK, TokenInv, Tokens, Owed, Asked, Waiting, Running, TargetInv, RunFilesInv
<1>4. TracerInv'
  BY DEF TypeOK, TokenInv, Tokens, Owed, Asked, Waiting, Running, TracerInv, VerdictFresh
<1>5. QED BY <1>1, <1>2, <1>3, <1>4

LEMMA WritePidInv ==
  ASSUME RunnerInv, NEW s \in Server, WritePid(s), UNCHANGED runnerVars
  PROVE  RunnerInv'
<1> USE DEF RunnerInv, WritePid, runnerVars
<1>1. TypeOK'
  BY DEF TypeOK, TokenInv, Tokens, Owed, Running
<1>2. TokenInv'
  BY DEF TypeOK, TokenInv, Tokens, Owed, Asked, Waiting, Running
<1>3. TargetInv'
  BY DEF TypeOK, TokenInv, Tokens, Owed, Asked, Waiting, Running, TargetInv, RunFilesInv
<1>4. TracerInv'
  BY DEF TypeOK, TokenInv, Tokens, Owed, Asked, Waiting, Running, TracerInv, VerdictFresh
<1>5. QED BY <1>1, <1>2, <1>3, <1>4

LEMMA ReapInv ==
  ASSUME RunnerInv, NEW s \in Server, Reap(s), UNCHANGED runnerVars
  PROVE  RunnerInv'
<1> USE DEF RunnerInv, Reap, runnerVars
<1>1. TypeOK'
  BY DEF TypeOK, TokenInv, Tokens, Owed, Running
<1>2. TokenInv'
  BY DEF TypeOK, TokenInv, Tokens, Owed, Asked, Waiting, Running
<1>3. TargetInv'
  BY DEF TypeOK, TokenInv, Tokens, Owed, Asked, Waiting, Running, TargetInv, RunFilesInv
<1>4. TracerInv'
  BY DEF TypeOK, TokenInv, Tokens, Owed, Asked, Waiting, Running, TracerInv, VerdictFresh
<1>5. QED BY <1>1, <1>2, <1>3, <1>4

LEMMA WriteDoneInv ==
  ASSUME RunnerInv, NEW s \in Server, WriteDone(s), UNCHANGED runnerVars
  PROVE  RunnerInv'
<1> USE DEF RunnerInv, WriteDone, runnerVars
<1>1. TypeOK'
  BY DEF TypeOK, TokenInv, Tokens, Owed, Running
<1>2. TokenInv'
  BY DEF TypeOK, TokenInv, Tokens, Owed, Asked, Waiting, Running
<1>3. TargetInv'
  BY DEF TypeOK, TokenInv, Tokens, Owed, Asked, Waiting, Running, TargetInv, RunFilesInv
<1>4. TracerInv'
  BY DEF TypeOK, TokenInv, Tokens, Owed, Asked, Waiting, Running, TracerInv, VerdictFresh
<1>5. QED BY <1>1, <1>2, <1>3, <1>4

LEMMA AnswerInv ==
  ASSUME RunnerInv, NEW s \in Server, Answer(s), UNCHANGED runnerVars
  PROVE  RunnerInv'
<1> USE DEF RunnerInv, Answer, runnerVars
<1>1. TypeOK'
  BY DEF TypeOK, TokenInv, Tokens, Owed, Running
<1>2. TokenInv'
  BY DEF TypeOK, TokenInv, Tokens, Owed, Asked, Waiting, Running
<1>3. TargetInv'
  BY DEF TypeOK, TokenInv, Tokens, Owed, Asked, Waiting, Running, TargetInv, RunFilesInv
<1>4. TracerInv'
  BY DEF TypeOK, TokenInv, Tokens, Owed, Asked, Waiting, Running, TracerInv, VerdictFresh
<1>5. QED BY <1>1, <1>2, <1>3, <1>4

LEMMA EndForkInv ==
  ASSUME RunnerInv, NEW s \in Server, EndFork(s), UNCHANGED runnerVars
  PROVE  RunnerInv'
<1> USE DEF RunnerInv, EndFork, runnerVars
<1>1. TypeOK'
  BY DEF TypeOK, TokenInv, Tokens, Owed, Running
<1>2. TokenInv'
  BY DEF TypeOK, TokenInv, Tokens, Owed, Asked, Waiting, Running
<1>3. TargetInv'
  BY DEF TypeOK, TokenInv, Tokens, Owed, Asked, Waiting, Running, TargetInv, RunFilesInv
<1>4. TracerInv'
  BY DEF TypeOK, TokenInv, Tokens, Owed, Asked, Waiting, Running, TracerInv, VerdictFresh
<1>5. QED BY <1>1, <1>2, <1>3, <1>4

LEMMA ChildReadsInv ==
  ASSUME RunnerInv, NEW s \in Server, ChildReads(s), UNCHANGED runnerVars
  PROVE  RunnerInv'
<1> USE DEF RunnerInv, ChildReads, runnerVars
<1>1. TypeOK'
  BY DEF TypeOK, TokenInv, Tokens, Owed, Running
<1>2. TokenInv'
  BY DEF TypeOK, TokenInv, Tokens, Owed, Asked, Waiting, Running
<1>3. TargetInv'
  BY DEF TypeOK, TokenInv, Tokens, Owed, Asked, Waiting, Running, TargetInv, RunFilesInv
<1>4. TracerInv'
  BY DEF TypeOK, TokenInv, Tokens, Owed, Asked, Waiting, Running, TracerInv, VerdictFresh
<1>5. QED BY <1>1, <1>2, <1>3, <1>4

LEMMA ChildEndsInv ==
  ASSUME RunnerInv, NEW s \in Server, ChildEnds(s), UNCHANGED runnerVars
  PROVE  RunnerInv'
<1> USE DEF RunnerInv, ChildEnds, runnerVars
<1>1. TypeOK'
  BY DEF TypeOK, TokenInv, Tokens, Owed, Running
<1>2. TokenInv'
  BY DEF TypeOK, TokenInv, Tokens, Owed, Asked, Waiting, Running
<1>3. TargetInv'
  BY DEF TypeOK, TokenInv, Tokens, Owed, Asked, Waiting, Running, TargetInv, RunFilesInv
<1>4. TracerInv'
  BY DEF TypeOK, TokenInv, Tokens, Owed, Asked, Waiting, Running, TracerInv, VerdictFresh
<1>5. QED BY <1>1, <1>2, <1>3, <1>4

LEMMA ChildWritesInv ==
  ASSUME RunnerInv, NEW s \in Server, ChildWrites(s), UNCHANGED runnerVars
  PROVE  RunnerInv'
<1> USE DEF RunnerInv, ChildWrites, runnerVars
<1>1. TypeOK'
  BY DEF TypeOK, TokenInv, Tokens, Owed, Running
<1>2. TokenInv'
  BY DEF TypeOK, TokenInv, Tokens, Owed, Asked, Waiting, Running
<1>3. TargetInv'
  BY DEF TypeOK, TokenInv, Tokens, Owed, Asked, Waiting, Running, TargetInv, RunFilesInv
<1>4. TracerInv'
  BY DEF TypeOK, TokenInv, Tokens, Owed, Asked, Waiting, Running, TracerInv, VerdictFresh
<1>5. QED BY <1>1, <1>2, <1>3, <1>4

LEMMA ChildHangsInv ==
  ASSUME RunnerInv, NEW s \in Server, ChildHangs(s), UNCHANGED runnerVars
  PROVE  RunnerInv'
<1> USE DEF RunnerInv, ChildHangs, runnerVars
<1>1. TypeOK'
  BY DEF TypeOK, TokenInv, Tokens, Owed, Running
<1>2. TokenInv'
  BY DEF TypeOK, TokenInv, Tokens, Owed, Asked, Waiting, Running
<1>3. TargetInv'
  BY DEF TypeOK, TokenInv, Tokens, Owed, Asked, Waiting, Running, TargetInv, RunFilesInv
<1>4. TracerInv'
  BY DEF TypeOK, TokenInv, Tokens, Owed, Asked, Waiting, Running, TracerInv, VerdictFresh
<1>5. QED BY <1>1, <1>2, <1>3, <1>4

LEMMA ServerDiesInv ==
  ASSUME RunnerInv, NEW s \in Server, ServerDies(s), UNCHANGED runnerVars
  PROVE  RunnerInv'
<1> USE DEF RunnerInv, ServerDies, runnerVars
<1>1. TypeOK'
  BY DEF TypeOK, TokenInv, Tokens, Owed, Running
<1>2. TokenInv'
  BY DEF TypeOK, TokenInv, Tokens, Owed, Asked, Waiting, Running
<1>3. TargetInv'
  BY DEF TypeOK, TokenInv, Tokens, Owed, Asked, Waiting, Running, TargetInv, RunFilesInv
<1>4. TracerInv'
  BY DEF TypeOK, TokenInv, Tokens, Owed, Asked, Waiting, Running, TracerInv, VerdictFresh
<1>5. QED BY <1>1, <1>2, <1>3, <1>4

-------------------------------------------------------------------------------
(* The runner.                                                                 *)

LEMMA StartRunInv == RunnerInv /\ StartRun => RunnerInv'
<1> SUFFICES ASSUME RunnerInv, StartRun PROVE RunnerInv'
  OBVIOUS
<1> USE DEF RunnerInv, StartRun, Send
<1>1. TypeOK'
  BY DEF TypeOK, TokenInv, Tokens, Owed, Running, Waiting
<1>2. TokenInv'
  BY DEF TypeOK, TokenInv, Tokens, Owed, Asked, Waiting, Running, TargetInv, RunFilesInv
<1>3. TargetInv'
  BY DEF TypeOK, TokenInv, Tokens, Owed, Asked, Waiting, Running, TargetInv, RunFilesInv
<1>4. TracerInv'
  BY DEF TypeOK, TokenInv, Tokens, Owed, Asked, Waiting, Running, TracerInv, VerdictFresh
<1>5. QED BY <1>1, <1>2, <1>3, <1>4

LEMMA ReadPidInv == RunnerInv /\ ReadPid => RunnerInv'
<1> SUFFICES ASSUME RunnerInv, ReadPid PROVE RunnerInv'
  OBVIOUS
<1> USE DEF RunnerInv, ReadPid, forkServerVars
<1>1. TypeOK'
  BY DEF TypeOK, TokenInv, Tokens, Owed, Running, Waiting
<1>2. TokenInv'
  BY DEF TypeOK, TokenInv, Tokens, Owed, Asked, Waiting, Running, TargetInv, RunFilesInv
<1>3. TargetInv'
  BY DEF TypeOK, TokenInv, Tokens, Owed, Asked, Waiting, Running, TargetInv, RunFilesInv
<1>4. TracerInv'
  BY DEF TypeOK, TokenInv, Tokens, Owed, Asked, Waiting, Running, TracerInv, VerdictFresh
<1>5. QED BY <1>1, <1>2, <1>3, <1>4

LEMMA DoneExistsInv == RunnerInv /\ DoneExists => RunnerInv'
<1> SUFFICES ASSUME RunnerInv, DoneExists PROVE RunnerInv'
  OBVIOUS
<1> USE DEF RunnerInv, DoneExists, forkServerVars
<1>1. TypeOK'
  BY DEF TypeOK, TokenInv, Tokens, Owed, Running, Waiting
<1>2. TokenInv'
  BY DEF TypeOK, TokenInv, Tokens, Owed, Asked, Waiting, Running, TargetInv, RunFilesInv
<1>3. TargetInv'
  BY DEF TypeOK, TokenInv, Tokens, Owed, Asked, Waiting, Running, TargetInv, RunFilesInv
<1>4. TracerInv'
  BY DEF TypeOK, TokenInv, Tokens, Owed, Asked, Waiting, Running, TracerInv, VerdictFresh
<1>5. QED BY <1>1, <1>2, <1>3, <1>4

LEMMA TimedOutInv == RunnerInv /\ TimedOut => RunnerInv'
<1> SUFFICES ASSUME RunnerInv, TimedOut PROVE RunnerInv'
  OBVIOUS
<1> USE DEF RunnerInv, TimedOut, Kill
<1>1. TypeOK'
  BY DEF TypeOK, TokenInv, Tokens, Owed, Running, Waiting
<1>2. TokenInv'
  BY DEF TypeOK, TokenInv, Tokens, Owed, Asked, Waiting, Running, TargetInv, RunFilesInv
<1>3. TargetInv'
  BY DEF TypeOK, TokenInv, Tokens, Owed, Asked, Waiting, Running, TargetInv, RunFilesInv
<1>4. TracerInv'
  BY DEF TypeOK, TokenInv, Tokens, Owed, Asked, Waiting, Running, TracerInv, VerdictFresh
<1>5. QED BY <1>1, <1>2, <1>3, <1>4

LEMMA ReadAnswerInv == RunnerInv /\ ReadAnswer => RunnerInv'
<1> SUFFICES ASSUME RunnerInv, ReadAnswer PROVE RunnerInv'
  OBVIOUS
<1> USE DEF RunnerInv, ReadAnswer, Receive
<1>1. TypeOK'
  BY DEF TypeOK, TokenInv, Tokens, Owed, Running, Waiting
<1>2. TokenInv'
  BY DEF TypeOK, TokenInv, Tokens, Owed, Asked, Waiting, Running, TargetInv, RunFilesInv
<1>3. TargetInv'
  BY DEF TypeOK, TokenInv, Tokens, Owed, Asked, Waiting, Running, TargetInv, RunFilesInv
<1>4. TracerInv'
  BY DEF TypeOK, TokenInv, Tokens, Owed, Asked, Waiting, Running, TracerInv, VerdictFresh
<1>5. QED BY <1>1, <1>2, <1>3, <1>4

LEMMA ReadStatusInv == RunnerInv /\ ReadStatus => RunnerInv'
<1> SUFFICES ASSUME RunnerInv, ReadStatus PROVE RunnerInv'
  OBVIOUS
<1> USE DEF RunnerInv, ReadStatus, forkServerVars
<1>1. TypeOK'
  BY DEF TypeOK, TokenInv, Tokens, Owed, Running, Waiting
<1>2. TokenInv'
  BY DEF TypeOK, TokenInv, Tokens, Owed, Asked, Waiting, Running, TargetInv, RunFilesInv
<1>3. TargetInv'
  BY DEF TypeOK, TokenInv, Tokens, Owed, Asked, Waiting, Running, TargetInv, RunFilesInv
<1>4. TracerInv'
  BY DEF TypeOK, TokenInv, Tokens, Owed, Asked, Waiting, Running, TracerInv, VerdictFresh
<1>5. QED BY <1>1, <1>2, <1>3, <1>4

LEMMA StartTraceInv == RunnerInv /\ StartTrace => RunnerInv'
<1> SUFFICES ASSUME RunnerInv, StartTrace PROVE RunnerInv'
  OBVIOUS
<1> USE DEF RunnerInv, StartTrace, Send
<1>1. TypeOK'
  BY DEF TypeOK, TokenInv, Tokens, Owed, Running, Waiting
<1>2. TokenInv'
  BY DEF TypeOK, TokenInv, Tokens, Owed, Asked, Waiting, Running, TargetInv, RunFilesInv
<1>3. TargetInv'
  BY DEF TypeOK, TokenInv, Tokens, Owed, Asked, Waiting, Running, TargetInv, RunFilesInv
<1>4. TracerInv'
  BY DEF TypeOK, TokenInv, Tokens, Owed, Asked, Waiting, Running, TracerInv, VerdictFresh
<1>5. QED BY <1>1, <1>2, <1>3, <1>4

LEMMA ReadReportsInv == RunnerInv /\ ReadReports => RunnerInv'
<1> SUFFICES ASSUME RunnerInv, ReadReports PROVE RunnerInv'
  OBVIOUS
<1> USE DEF RunnerInv, ReadReports, Receive
<1>0. output["tracer"] \subseteq {traces.total} /\ traces.total \in Nat
  BY DEF TracerInv, TypeOK
<1>a. Reported = IF output["tracer"] = {} THEN 0 ELSE traces.total
  <2>1. CASE output["tracer"] = {}
    BY <2>1 DEF Reported
  <2>2. CASE output["tracer"] = {traces.total}
    <3>1. \E t \in output["tracer"] : \A u \in output["tracer"] : t <= u
      BY <1>0, <2>2
    <3>2. Reported \in output["tracer"]
      BY <3>1, <2>2 DEF Reported
    <3>3. QED BY <3>2, <2>2
  <2>3. QED BY <1>0, <2>1, <2>2
<1>b. verdict' = IF output["tracer"] = {} THEN 0 ELSE traces.total
  BY <1>a
<1>1. TypeOK'
  BY <1>0, <1>b DEF TypeOK, TokenInv, Tokens, Owed, Running, Waiting
<1>2. TokenInv'
  BY DEF TypeOK, TokenInv, Tokens, Owed, Asked, Waiting, Running, TargetInv, RunFilesInv
<1>3. TargetInv'
  BY DEF TypeOK, TokenInv, Tokens, Owed, Asked, Waiting, Running, TargetInv, RunFilesInv
<1>4. TracerInv'
  <2>1. state["tracer"] # "dead" => child["tracer"] \in {"exited", "crashed"}
    BY DEF TypeOK, TokenInv, Tokens, Owed, Waiting, Running, TracerInv
  <2>2. state["tracer"] # "dead" /\ child["tracer"] = "exited" => traces.total \in output["tracer"]
    BY DEF TypeOK, TokenInv, Tokens, Owed, Waiting, Running, TracerInv
  <2>3. VerdictFresh'
    BY <1>0, <1>b, <2>1, <2>2 DEF VerdictFresh
  <2>4. QED BY <2>3 DEF TracerInv, Running
<1>5. QED BY <1>1, <1>2, <1>3, <1>4

LEMMA EndRunInv == RunnerInv /\ EndRun => RunnerInv'
<1> SUFFICES ASSUME RunnerInv, EndRun PROVE RunnerInv'
  OBVIOUS
<1> USE DEF RunnerInv, EndRun
<1>1. TypeOK'
  BY DEF TypeOK, TokenInv, Tokens, Owed, Running, Waiting
<1>2. TokenInv'
  BY DEF TypeOK, TokenInv, Tokens, Owed, Asked, Waiting, Running, TargetInv, RunFilesInv
<1>3. TargetInv'
  BY DEF TypeOK, TokenInv, Tokens, Owed, Asked, Waiting, Running, TargetInv, RunFilesInv
<1>4. TracerInv'
  BY DEF TypeOK, TokenInv, Tokens, Owed, Asked, Waiting, Running, TracerInv, VerdictFresh
<1>5. QED BY <1>1, <1>2, <1>3, <1>4

LEMMA NextInv == RunnerInv /\ [Next]_vars => RunnerInv'
<1> SUFFICES ASSUME RunnerInv, [Next]_vars PROVE RunnerInv'
  OBVIOUS
<1>1. CASE RunnerStep
  BY <1>1, StartRunInv, ReadPidInv, DoneExistsInv, TimedOutInv, ReadAnswerInv, ReadStatusInv,
     StartTraceInv, ReadReportsInv, EndRunInv DEF RunnerStep
<1>2. CASE \E s \in Server : Environment(s)
  BY <1>2, ForkInv, WritePidInv, ReapInv, WriteDoneInv, AnswerInv, EndForkInv, ChildReadsInv,
     ChildEndsInv, ChildWritesInv, ChildHangsInv, ServerDiesInv
     DEF Environment, ServerStep, ChildStep
<1>3. CASE UNCHANGED vars
  <2> USE <1>3 DEF RunnerInv, vars, forkServerVars, runnerVars
  <2>1. TypeOK'
    BY DEF TypeOK
  <2>2. TokenInv'
    BY DEF TokenInv, Tokens, Owed, Asked, Waiting, Running
  <2>3. TargetInv'
    BY DEF TargetInv, RunFilesInv, Running
  <2>4. TracerInv'
    BY DEF TracerInv, VerdictFresh, Running
  <2>5. QED BY <2>1, <2>2, <2>3, <2>4
<1>4. QED BY <1>1, <1>2, <1>3 DEF Next, Done

\* The handshake with both fork servers and the files they leave are in step with the runner.
THEOREM RunnerInvariant == Spec => []RunnerInv
<1>1. QED BY InitInv, NextInv, PTL DEF Spec

\* Nobody writes to the work directory or the reports while the runner reads or removes them.
THEOREM NobodyWritesTheorem == Spec => []NobodyWrites
<1>1. RunnerInv => NobodyWrites
  BY DEF RunnerInv, TypeOK, TokenInv, TargetInv, Tokens, Owed, Waiting, Running, NobodyWrites, Quiet
<1>2. QED BY <1>1, RunnerInvariant, PTL

\* The pid that may be killed and the status read belong to the current run.
THEOREM RunFilesFreshTheorem == Spec => []RunFilesFresh
<1>1. RunnerInv => RunFilesFresh
  BY DEF RunnerInv, TargetInv, RunFilesFresh
<1>2. QED BY <1>1, RunnerInvariant, PTL

\* A verdict is about the testcase that was to be traced, and a crash verdict about a crash.
THEOREM VerdictFreshTheorem == Spec => []VerdictFresh
<1>1. RunnerInv => VerdictFresh
  BY DEF RunnerInv, TracerInv
<1>2. QED BY <1>1, RunnerInvariant, PTL

===============================================================================
