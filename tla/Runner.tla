--------------------------------- MODULE Runner ---------------------------------
(***************************************************************************)
(* What the two models of the runner have in common (src/runner): its      *)
(* option -t, its control point and the number of its runs.  FuzzOne looks *)
(* at a run from inside, between two fork servers; RunnerProcesses at all  *)
(* runs from outside, with the processes they need and the signals that    *)
(* end them.                                                               *)
(***************************************************************************)
EXTENDS Integers

CONSTANTS
  Timeouts,     \* was -t given?
  MaxRuns       \* bound: runs of the target, in RunnerProcesses in a session

VARIABLES
  timeout,      \* was -t given: never changes
  pc,           \* control point of the runner
  runs          \* calls of fuzz_one
================================================================================
