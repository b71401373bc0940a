-------------------------------- MODULE Showmap --------------------------------
(***************************************************************************)
(* The coverage tracer of QSYM_MODE: afl-showmap kept alive by the runner  *)
(* (src/utils/afl-showmap.c, the parts under SYMFUSION).  It talks with    *)
(* the runner through two FIFOs and two directories: it announces itself   *)
(* on one FIFO, waits for a word on the other, runs every file of the      *)
(* input directory and writes, for each, how many entries of the           *)
(* cumulative map it changed.                                              *)
(***************************************************************************)
EXTENDS Integers, Sequences, FiniteSets

CONSTANTS
  Input,        \* contents of testcase files
  NoInput,      \* "there is no file"
  Empty,        \* the content of an empty file, one of Input
  Edge, Bucket, \* indices of the map, and the bits of its bytes
  Programs,     \* the programs under test (ProgramType)
  MayDie        \* may the tracer die ("Error running target")?

Content == Input \cup {NoInput}
Hits == SUBSET (Edge \X Bucket)

\* Files of the input directory; rank is the order of their names in get_score.
InFile == [rank : Nat, content : Input]
OutFile == [rank : Nat, content : Input, count : Nat, new : Nat]

ProgramType ==
  [hits : [Content -> Hits],
   generates : [Content -> SUBSET Input],
   seeds : Seq([rank : Nat, id : {-1}, content : Content]),
   garbage : Hits]          \* what malloc left in the cumulative map

ASSUME ShowmapInputAssumption == NoInput \notin Input /\ Empty \in Input
ASSUME ShowmapProgramsAssumption == Programs \subseteq ProgramType
ASSUME ShowmapMapAssumption == IsFiniteSet(Edge)
ASSUME ShowmapBooleanAssumption == MayDie \in BOOLEAN

VARIABLES
  program,      \* the program under test: never changes
  spc,          \* control point of afl-showmap
  cumulative,   \* cumulative: set bits of the map (malloc'ed, never cleared)
  scan,         \* files of scandir still to be run
  inDir, outDir,            \* tracer/in and tracer/out, in order of name
  toShowmap, toRunner       \* 4-byte words in the two FIFOs

showmapVars == <<spc, cumulative, scan>>

ShowmapInit ==
  /\ program \in Programs
  /\ spc = "open"
  /\ cumulative = program.garbage
  /\ scan = <<>>
  /\ inDir = <<>> /\ outDir = <<>>
  /\ toShowmap = 0 /\ toRunner = 0

\* The order in which execute_testcases opens the two FIFOs (as the runner names them);
\* each open waits for the other side.
ShowmapOpens == <<"afl_pipe_write", "afl_pipe_read">>

\* Mutant of ReadRequest: the answer is written before the directory is scanned.
ReadRequestEarly ==
  /\ spc = "read"
  /\ toShowmap > 0
  /\ toShowmap' = toShowmap - 1
  /\ toRunner' = toRunner + 1
  /\ scan' = inDir
  /\ spc' = "scan"
  /\ UNCHANGED <<program, cumulative, inDir, outDir>>

Announce ==
  /\ spc = "write"
  /\ toRunner' = toRunner + 1
  /\ spc' = "read"
  /\ UNCHANGED <<program, cumulative, scan, inDir, outDir, toShowmap>>

\* read, then scandir.
ReadRequest ==
  /\ spc = "read"
  /\ toShowmap > 0
  /\ toShowmap' = toShowmap - 1
  /\ scan' = inDir
  /\ spc' = "scan"
  /\ UNCHANGED <<program, cumulative, inDir, outDir, toRunner>>

\* symfusion_results: entries of the map with a bit that was not set, and among them
\* those that were zero.
Changed(hits) == {h[1] : h \in hits \ cumulative}
NewEntries(hits) == {e \in Changed(hits) : \A b \in Bucket : <<e, b>> \notin cumulative}

\* Mutant of Result: the cumulative map is not updated.
ResultForgets(file) ==
  /\ outDir' = Append(outDir,
                 [rank |-> file.rank, content |-> file.content,
                  count |-> Cardinality(Changed(program.hits[file.content])),
                  new |-> Cardinality(NewEntries(program.hits[file.content]))])
  /\ UNCHANGED cumulative

\* Run the target, merge its map, and write the two counters.
Result(file) ==
  /\ outDir' = Append(outDir,
                 [rank |-> file.rank, content |-> file.content,
                  count |-> Cardinality(Changed(program.hits[file.content])),
                  new |-> Cardinality(NewEntries(program.hits[file.content]))])
  /\ cumulative' = cumulative \cup program.hits[file.content]

\* Empty files are skipped.
ScanFile ==
  /\ spc = "scan" /\ scan # <<>>
  /\ scan' = Tail(scan)
  /\ IF Head(scan).content = Empty THEN UNCHANGED <<cumulative, outDir>>
     ELSE Result(Head(scan))
  /\ UNCHANGED <<program, spc, inDir, toShowmap, toRunner>>

EndScan ==
  /\ spc = "scan" /\ scan = <<>>
  /\ spc' = "write"
  /\ UNCHANGED <<program, cumulative, scan, inDir, outDir, toShowmap, toRunner>>

\* FATAL("Error running target"): the fork server of the target is gone.
Die ==
  /\ MayDie
  /\ spc = "scan" /\ scan # <<>>
  /\ spc' = "dead"
  /\ UNCHANGED <<program, cumulative, scan, inDir, outDir, toShowmap, toRunner>>

ShowmapStep == Announce \/ ReadRequest \/ ScanFile \/ EndScan \/ Die
===============================================================================
