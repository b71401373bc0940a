------------------------------- MODULE MCFuzzOne -------------------------------
(* The two fork servers of the runner.                                          *)
EXTENDS FuzzOne

MCServer == {"target", "tracer"}
===============================================================================
