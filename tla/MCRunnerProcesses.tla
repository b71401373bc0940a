--------------------------- MODULE MCRunnerProcesses ---------------------------
(* Small instances of RunnerProcesses.                                          *)
EXTENDS RunnerProcesses
===============================================================================
