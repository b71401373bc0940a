------------------------------- MODULE Worklist -------------------------------
(***************************************************************************)
(* What the testcase queue of the runner promises, whatever its mode:      *)
(* a testcase that was put in the list is handed out at most once, none is *)
(* dropped, and the list is only closed ("no more testcases. Finishing.",  *)
(* src/runner/executor.py:401) when nothing waits in it.  The queues of    *)
(* the runner's modes are shown to implement this specification.           *)
(***************************************************************************)

EXTENDS Sequences

VARIABLES
  waiting,              \* items put in the list and not handed out yet
  taken,                \* the sequence of items handed out
  closed                \* the exploration has ended

wlVars == <<waiting, taken, closed>>

WLInit ==
  /\ waiting = {}
  /\ taken = <<>>
  /\ closed = FALSE

Taken == {taken[k] : k \in DOMAIN taken}

\* One item, never seen before, enters the list.
Put ==
  /\ ~closed
  /\ \E x \in waiting' : x \notin waiting \cup Taken /\ waiting' = waiting \cup {x}
  /\ UNCHANGED <<taken, closed>>

\* One waiting item is handed out.
Take ==
  /\ ~closed
  /\ \E x \in waiting : waiting' = waiting \ {x} /\ taken' = Append(taken, x)
  /\ UNCHANGED closed

Close ==
  /\ waiting = {}
  /\ ~closed
  /\ closed' = TRUE
  /\ UNCHANGED <<waiting, taken>>

WLNext == Put \/ Take \/ Close

WLSpec == WLInit /\ [][WLNext]_wlVars
===============================================================================
