# A TLA+ model of SymFusion

SymFusion is a hybrid concolic executor: the application is compiled with SymCC's
instrumentation, its libraries run under SYMQEMU, and one run of an input writes testcases
that take other branches. Around it a Python runner keeps the exploration going: it picks a
testcase, runs the target on it, asks a *tracer* which of the new testcases are worth
keeping, keeps those, and goes on until nothing is left; optionally next to AFL++.

The repository holds the runner (`src/runner`), the files that replace files of SymCC, QSYM
and AFL++ (`src/utils`), QEMU's x86 helpers compiled for symbolic execution
(`src/sym_helpers`), and docs and docker files. SymCC, SYMQEMU, their run-time library (with
the fork server and the tracers), AFL++ and Z3 are not in it: they are external here,
modelled from what the code in `src/` relies on.

Contents: [inventory](#inventory), [plan](#plan), [modules](#modules-and-code),
[runs](#runs), [fairness](#fairness), [proofs](#proofs), [findings](#findings),
[what is not modelled](#what-is-not-modelled), [how to check](#how-to-check).

## Inventory

| component | source | state it keeps | operations |
|---|---|---|---|
| exploration loop | `runner/executor.py` `Executor.run` | tick counters, the current testcase | import seeds, pick, run, import what was generated, import from AFL |
| queue manager, symfusion mode | `runner/queue_manager.py` | four `Queue`s: id, its testcases with a flag, testcase, its ids, count of new ids; `queue/` | `add_from_dir`, `add`, `pick_testcase`, `import_from_afl` |
| queue manager, hash mode | same | two generation directories, sets of hashes | same |
| queue manager, qsym mode | same | score per testcase, FIFOs, `tracer/in`, `tracer/out` | same, `start_afl_tracer` |
| afl-showmap, added part | `utils/afl-showmap.c` | cumulative (virgin) map, FIFOs | wait for a word, run every file of a directory, answer |
| running one testcase | `runner/executor.py` `fuzz_one` | work directory, pid and status files, FIFOs | start or ask the fork server, wait, time out, kill |
| path tracer protocol | `runner/path_tracer.py` | reports, pid and status files, FIFOs | `PathTracer.run` |
| processes, shutdown | `runner/symfusion.py`, `limiter.py` | the output directory, `RUNNING_PROCESSES`, `SHUTDOWN` | set-up in `main`, SIGINT handler, `kill_running_processes` |
| hybrid configuration | `runner/hybrid.py` | the two classes of libraries, the table of exporters, slots to be patched, the configuration file | `build_conf`: static analysis of binaries with `ldd`, `objdump`, `nm`, `readelf` |
| concolic solver | `utils/qsym_solver.cpp` | dependency forest, ranges, `last_interested_`, Z3's assertions | `addJcc`, `addAddr`, `addValue`, `solveAll` |
| compiler pass | `utils/compiler_symbolizer.cpp`, `compiler_runtime.cpp` | value to expression map, PHI nodes, computations to short-circuit | one `visit` per LLVM instruction |
| bitmap comparer | `utils/compare_bitmaps.c` | bitmap files | compare and merge |
| x86 helpers | `sym_helpers/` `cc_helper.c`, `int_helper.c`, `ops_sse.h` | the CPU state of QEMU: the operands of the last instruction, registers, vector registers | one helper per instruction: flags, divisions, decimals, bit fields, vectors, strings |

How they interact:

- `Executor.run` calls `QueueManager`, which calls `PathTracer.run` (symfusion mode) or talks
  to `afl-showmap` over two FIFOs (qsym mode). All of the runner is one thread, but it shares
  directories and FIFOs with other processes: the target, the tracer, their fork servers,
  and AFL, which creates, unlinks and rewrites files of its queue at any time.
- The instrumented target calls the run-time library, which calls the solver; the solver
  writes testcases to the work directory, and the runner imports them when the run has ended.
- Before the exploration, `hybrid.build_conf` writes the file that tells SYMQEMU and the
  run-time library where native code enters emulated code and back.
- Ctrl-C interrupts the runner between any two steps, the handler included.
- A session of the runner finds the output directory, and perhaps processes, of earlier ones.

What is hard here, and what makes each component correct:

- *Queues.* Whether a testcase is kept is decided by four answers computed at different times
  (two cumulative bitmaps of the tracer, two lookups of path hashes); the tracer never reports
  the same hit twice, so a testcase thrown away by mistake is lost for ever. Correct: nothing
  that was kept leaves the queues before it is run or is kept twice, every hit the tracer has
  merged is shown by a file of `queue/` unless AFL made the copy fail, nothing is run twice or
  overtaken but by what the order of the queues prefers, the exploration halts (alone) or polls
  AFL for ever.
- *AFL.* Entries are unlinked and rewritten while the runner looks at them, and copies fail
  silently. Correct: no entry up to `afl_min_id` is passed over, no testcase is kept for
  what another file did, and what is lost is at most one copy for each entry AFL trimmed.
- *Protocols.* Files that a previous run left behind, files that exist before they are
  complete, words left over in a FIFO, children that never end, servers that die. Correct: the
  pid, the status and the verdict are those of this run; nobody writes to a directory that is
  read or removed; no handshake hangs while both sides live.
- *Sessions.* Correct: Ctrl-C leaves no process behind, and a session that was killed leaves a
  directory that the next one recognises; nothing of the user's is removed.
- *Hybrid configuration.* The graph of libraries is walked without a record of what was visited,
  and exporters are listed without knowing who asks. Correct: what is written agrees with the
  dynamic linker, call by call.
- *Solver.* Constraints are sliced by shared input bytes, narrowed as ranges of canonical
  expressions, sometimes dropped when Z3 gives up. Correct: a testcase follows the path it was
  made for, and no other side of a branch is lost to slicing.
- *Compiler pass.* The shadow expression of a value describes that value; it is null exactly
  for values that do not depend on the input, or that the pass gives up on; exceptions and
  functions that are not instrumented leave no expression of an earlier call behind.
- *x86 helpers.* SYMQEMU calls them in place of its own, so a wrong result is a wrong concrete
  value *and* a wrong expression. Flags are computed when they are read, from operands saved
  earlier; vectors are written element by element while they are read. Correct: results and
  flags are those of the instruction, at every boundary.

`PROJECT.json` lists the hazards one by one, at their lines, with the properties that watch
them.

## Plan

Done, in this order, the exploration loop first because everything else serves it:

1. `Worklist`, `SymfusionQueue` (default mode) and `SymfusionQueue_proofs`.
2. `HashQueue` (the same loop in hash mode) and `HashQueue_proofs`.
3. `Showmap`, `QsymQueue` (qsym mode: the runner composed with afl-showmap) and `QsymQueue_proofs`.
4. `Runner`, `ForkServer`, `FuzzOne` (the runner composed with two fork servers).
5. `RunnerProcesses` (shutdown, and sessions one after the other), and `Runner_proofs` about both.
6. `Solver` (the concolic solver of one run) and `Solver_proofs`.
7. `Symbolizer` (the compiler pass, with exceptions and structures) and `Symbolizer_proofs`.
8. `Cpu`, `CpuHelpers` (flags and their images, divisions and decimals against the processor)
   and `CpuHelpers_proofs`.
9. `Vectors`, `Simd`, `SimdHelpers` (vector and string instructions against the processor).
10. `Layouts`, `DynamicLinker`, `HybridConf` (the hybrid configuration against the linker) and
    `HybridConf_proofs`.

Next:

11. `ImplementsSimd` for registers of every size, which needs the bit operations of `SimdHelpers`
    without the recursive operators of `Bitwise`.

## Modules and code

`Worklist` is the abstract specification of all three queues: an item is put in the list
once, handed out at most once, never dropped, and the list is closed only when it is empty.
Each queue module instantiates it as `List` with a refinement mapping and has the property
`ImplementsWorklist == List!WLSpec`.

### SymfusionQueue

| state | code |
|---|---|
| `ids`, `processed`, `count`, `testcaseIds` | `Queue.ids`, `.testcases`, of the four queues `edge_main`, `path_main`, `edge_all`, `path_all` (`queue_manager.py:30-84`) |
| `queueDir`, `ran` | testcases kept, in tick order: what the file of `queue/` holds, if the copy succeeded, what the tracer ran for it (history), the entry of AFL it was copied from (its name says so); testcases handed to `fuzz_one` (history) |
| `bitmap`, `tracerInput`, `report` | the tracer's cumulative bitmaps, its input file, its last reports |
| `todo`, `phase`, `pc`, `current` | the directory `add_from_dir` walks and who called it; control point; `cur_input` |
| `afl`, `rewritten`, `aflMin` | AFL's queue, entries it rewrote, `afl_min_id` |

An action is what one file, one pick or one run does: `SkipFile`, `TraceFile` (a file copied
and traced, `PathTracer.run`), `KeepTestcase` (`add` from the verdict on, with the four
`Queue.add`), `EndAdd`, `ImportFromAfl`, `SelectTestcase`, `SelectNone`, `RunTarget`. The
copy of a file and its trace are one step, because only the *content* copied matters and AFL
may act before and after; `ContentOf` has the failed copy, after which the tracer runs the
previous input again. The copy to `queue/` (`queue_manager.py:404`) is a later step,
`KeepTestcase`, and may fail, or copy something else, when AFL has unlinked the entry since. The
testcase then is in the queues without a file that shows what was traced: its hits and its path
stay known, so nothing else will be kept for them. `CorpusCoversBitmap` and `ImportedRepresented`
speak of the *files* (`Saved`) and except these copies (`Lost`), each of which they charge to an
entry that AFL unlinked, at most one per entry (`LostOnlyByAfl`).

The queues are asked in a fixed order and nothing ages in them, so an AFL that adds testcases as
fast as the runner runs them can keep one in the last queue waiting for ever. This is so in the
code, no property excludes it, and no finite instance shows it, as `MaxAfl` ends the supply.
What the order does promise is `OvertakenOnlyByBetter`: a testcase is overtaken only by those
with a higher count, or in an earlier queue. It is a safety property, proved for any number of
entries. A program is a table: hits and hashes per input, inputs on which the
tracer crashes, what a run may generate, and whether it is run next to AFL (`afl`).

### HashQueue

The hash, the copy to the next generation and the copy to `queue/` are three commands on a
file AFL may change, hence three actions (`HashFile`, `CopyToNext`, `CopyToQueue`). `curr`
and `next` are the generation directories; `depth` is a history variable that counts the runs
it took to derive an input.

### Showmap and QsymQueue

`Showmap` is the loop that `execute_testcases` has under SYMFUSION: announce, read a word,
scan the directory, run every file against the cumulative map, write the answers, write a
word. `QsymQueue` EXTENDS it with the runner: both processes share `inDir`, `outDir`, the two
FIFOs and the order in which they are opened. The tracer may die in a scan (`MayDie`). The
score of a testcase is that of the file of counters in `tracer/out`, as in the code, so it is
the rank of its name, after whether the name has "seed" in it (`SeedNamed`: the entries AFL made
of its seeds).

### Runner, ForkServer and FuzzOne

`Runner` declares what the two models of the runner share: `-t`, the control point, and the
number of runs. `FuzzOne` looks at a run from inside, `RunnerProcesses` at all runs from outside.
`ForkServer` is the external fork server; the order in which it writes the status file and
the answer byte is left open, because the runner must not depend on it. `FuzzOne` EXTENDS it
with two servers, the target's and the tracer's, and the runner between them: `StartRun`,
`ReadPid`, `DoneExists`, `TimedOut`, `ReadAnswer`, `ReadStatus` are the waits of
`Executor.fuzz_one` with `-f`, `StartTrace` and `ReadReports` are `PathTracer.run`, `EndRun`
is the removal of the work directory. It discharges what `SymfusionQueue` takes for granted:
that a run and a trace can be one step each, because the testcases and the verdict belong to
the run and the testcase they were asked for.

### RunnerProcesses

| state | code |
|---|---|
| `directory`, `foreign`, `spoiled` | the output directory and whether it has the file `.symfusion` (`symfusion.py:99-111`); is it the user's; was its set-up cut short (history) |
| `session`, `strays` | times the runner was started; processes of earlier sessions that are alive, by how they were left: `missed` by the last copy of `RUNNING_PROCESSES`, or the end of a session that was `killed` or `failed` |
| `alive`, `registry`, `missed` | processes of the session; `RUNNING_PROCESSES`; processes that the last copy of it lacked (history) |
| `frames`, `shutdown` | activations of `kill_running_processes`; `SHUTDOWN` |

`CheckOutput` to `Touch` are the set-up in `main`. `rmtree` is two steps, because it may be
interrupted after the mark is gone, and it fails when a stray process writes a file into what it
has just emptied; a SIGINT ends the runner there, or only the command it runs (`InterruptSetup`).
`Crash` kills the runner anywhere and `Restart` starts the next session. A target that a session
leaves alive goes on writing to the work directory, whose path is the same in the next one
(`executor.py:156`): its testcases may be imported there, and make the `rmtree` after an import
fail (`Import`). `TargetEndedBeforeImport` therefore speaks of the session's own processes, and
says of the others how they came about: no session that ended in its own way leaves one, unless a
SIGINT hit between `Popen` and `append`. After the set-up the
handler may interrupt the runner, the clean-up at the end of `main`, or itself, and `frames` is
the stack. A process that was started is in `alive`, and in `registry` from `append` on;
`EndHandler` unwinds the stack as `SystemExit` does, through the bare `except`s of the code
(`Swallowing`).

### Solver

| state | code |
|---|---|
| `program`, `k` | the run: a sequence of calls `addJcc`, `addAddr`, `addValue`, `solveAll`; the call under way |
| `forest`, `ranges` | `dep_forest_`; the range sets of canonical expressions |
| `solver`, `pushed` | what Z3 has been told, as the set of its models and the bytes it mentions; the same at `push` |
| `last_interested_`, `found`, `postfix`, `num_generated_` | the variables of that name; results of `getMinValue` and `getMaxValue` |
| `files` | testcases in `out_dir_`, by name |

Every query of Z3 is an action with two outcomes, a model or none (`NotSat`): it may give up
whenever it likes. `Values` completes a model with the bytes of the input as
`getConcreteValues` does; `Eval` leaves unmentioned bytes symbolic as `model.eval` does;
`Number` cuts the number of a testcase after its sixth digit as `snprintf(buf, 7, ...)` does.
`addJcc`, `addAddr` and `addValue` return at once for a constant (`Concrete`), `solveAll` does
not look: `add` skips the condition it builds (`AddToSolver`), the check succeeds, and one
testcase equal to the input is saved.
Expressions are functions of the input together with the bytes they depend on, so conditions,
canonical expressions, ranges and slices mean what they mean in the code, without terms.

### Symbolizer

The program runs on `input` and, down the same path, on all other inputs in lockstep. A value
is the function that gives for each input what the program computes there; `follows` are the
inputs whose own run has taken the path so far. An expression is a function of the input too,
so that a shadow is right means that two functions agree.

| state | code |
|---|---|
| `frame`, `stack` | the function under way and its callers: position, values (`real`), shadows (`sym`, `symbolicExpressions` of the pass with the PHI nodes of `finalizePHINodes`) |
| `memory`, `shadow` | memory and the expressions `_sym_read_memory` and `_sym_write_memory` keep |
| `params`, `returned` | `_sym_set_parameter_expression`, `_sym_set_return_expression` |
| `pathConstraints` | `_sym_push_path_constraint` |
| `lossy` | an expression was dropped by an instruction the pass gives up on (history) |
| `mistranslated` | an expression was built that is not that of the instruction, see below (history) |

There is one action per `visit` function. An action does what the instruction does and what
the pass inserted around it: `ShortCircuit` is `shortCircuitExpressionUses` (an expression is
built only if an operand has one, and concrete operands are wrapped then), `NoConstraint` and
the conditions of branches, switches, addresses and sizes are the calls of
`tryAlternative` and `_sym_push_path_constraint`.

A load and a store move several bytes, lowest or highest first. A structure is a number with
one digit per member, and its expression a concatenation: `visitLoadInst` asks for the order
of memory, so the first member is the top of it (`Member`), while a store writes every
expression lowest byte first. An invoke ends a block: its result is read from the mailbox on the
normal edge (`visitInvokeInst`); an exception is raised by a function that is not instrumented and unwinds
to the nearest invoke (`Throw`, `Unwind`), with the mailboxes as they are.

`mistranslated` remembers that a symbolic operand reached one of the places where what the pass
builds is not what the instruction computes, after which nothing is claimed: the store of a
structure ([finding](#findings)) or of a truth value, a conversion to `i1`, a sign extension of
an `i1`, `inttoptr` and `ptrtoint` to another width (`TODO handle truncation and zero extension`,
`compiler_symbolizer.cpp:632, 638`), an index of `getelementptr` that is narrower than a pointer
(`Deviates`, `Mistranslate`). The guards `Defined`, `IsTruth`, `InMemory`, `TakesType` and
`Returns` are the rules of LLVM that a program under way obeys; the run checks that no program
is stuck at one of them.

### Cpu and CpuHelpers

`Cpu` says what an instruction promises: the result and all six flags at once, by exact
arithmetic. `CpuHelpers` executes the same instructions as QEMU's translator does, which
leaves `cc_op`, `cc_dst`, `cc_src` and `cc_src2` behind, and computes the flags when they are
asked for. Its property `ImplementsCpu` is `Cpu` under the mapping `eflags <-
helper_cc_compute_all` of these four: at every moment the flags that *would be* computed are
the processor's. `CarryAgrees` compares the second computation of the carry,
`helper_cc_compute_c`. The image of the flags that PUSHF and the three forms of POPF move is
read and written by `helper_read_eflags` and `helper_write_eflags` (`FlagsImage`), the direction
flag and the flags of the system by helpers of their own (`SystemFlag`); `Sets` and `Clears` in
`Cpu` say what each of them promises. One width stands for the four of `cc_helper_template.h`. Decimal
adjustments are checked by what they are for: `decimal` remembers which sum of two decimals
the adjustment is to produce.

### Vectors, Simd and SimdHelpers

`Vectors` is the layout of a register. `Simd` gives every element of a result from the operands
as they were, by exact arithmetic, by bits, and for the string instructions by the table of
comparisons of their definition. `SimdHelpers` has the helpers of `ops_sse.h` for the 128 bit
registers: `Assign` performs assignments in the order of the code, each of which sees the
effects of those before, `Fresh` is a result collected in a variable first. `ImplementsSimd` is
`Simd`, with the same variables. One operator stands for the sizes of an instruction. An
operand may be the destination, too, and blends and masks use XMM0 on top of that.
`gen_sym_helpers.h` registers the 128 bit helpers with SYMQEMU, some of them (`mpsadbw`,
`palignr`, the string instructions, `shufps`) not; these are compiled all the same and
modelled.

### Layouts, DynamicLinker and HybridConf

`Layouts` is what `ldd`, `objdump`, `nm` and `readelf` print about a program: libraries in the
order of the loader, what each needs and exports (a name may be listed once per version), and
the slots of its global offset table. `DynamicLinker` is the abstract specification: a correct
configuration names the slots through which native code calls what the dynamic linker finds in
an emulated library, and for every function pointer of an emulated library the stubs it may
stand for; a program that is `WellFormed` must get one. An emulated library is what native
code needs directly and is not instrumented (`Emulated`). `HybridConf` is `build_conf`:

| state | code (`hybrid.py`) |
|---|---|
| `frames`, `emulated`, `nonEmulated` | the recursion of `split_libs` and its two sets |
| `symbols`, `unread` | `get_symbols_libs` |
| `pltPatches`, `runtimePatches` | `define_plt_entries_to_patch` (blobs in any order: they are a Python set) |
| `redirects`, `conf` | `find_possible_plt_aliases`; the file that is written |

A failure of an assertion or of a tool is `Raise`, after which nothing is written. The promise
has exceptions, all in `DynamicLinker`: libraries that are not instrumented and that only
emulated ones need, which `split_libs` never sees: a native call that the linker resolves to one
must not be in the configuration; names that the program itself exports, or that a library
exports in several versions after another library has exported them (`Ambiguous`: the search of
the code begins behind the program, and the list of exporters starts afresh); addresses of
functions without a version, which `grep @` leaves out; and circular libraries, on which
`split_libs` recurses to Python's limit. `HybridInv` says what the loops keep on the way.

## Runs

Every property of a passing run is also broken by a mutant, an operator next to the original
(`...Swapped`, `...NoPop`, ...) that changes it as a plausible bug would; `PROJECT.json` lists
the pairs.

| run | instance | what it shows |
|---|---|---|
| `sfq` | alone: three inputs, each with one of five runs that differ in what the four queues tell apart (same edge more often, library edge, library path, new edge, known edges in another order), with and without a crashing input, 100 programs; with AFL: two entries, one rewriting or unlinking, one generated testcase per run, 9 programs (159 000 states) | the inductive invariant, hence that nothing kept drops out of the queues or is kept twice and the debug assertions hold; hits and AFL's entries are shown by files of `queue/` but for one failed copy per unlinked entry, the queues implement `Worklist`, a testcase is overtaken by better ones only, the exploration halts (alone) or polls AFL for ever; a silent failure of a copy never keeps a testcase for what another file did |
| `hash` | three inputs, a seed directory with a log, a file called `seed` and a duplicate; with and without AFL | at most one hash per changed AFL entry is lost, order of derivation, `Worklist`, everything waiting is run |
| `qsym` | two map entries with two counts, garbage in the malloc'ed map, a tracer that may die, with and without AFL | strict alternation, coverage and necessity of what is kept; the exploration ends, and with a tracer that has died it ends, too |
| `fuzz_one` | two runs of two traces, children that hang, servers that die, with and without `-t` | freshness of files, nobody writes to what is read or removed, runs with `-t` end |
| `processes` | three sessions of three runs, three SIGINTs and a `kill -9` per session anywhere, with and without `-t` and `-f`, in a directory of the runner or of the user (167 000 states) | only a process hit between `Popen` and `append` is left behind; imports happen when the session's own target has ended, next to none but strays of sessions that were killed, failed or missed one; an abort ends; the user's directory is left alone and the runner's is refused only after its set-up was cut short |
| `solver` | two bytes of two bits, twelve programs of two to four calls, one of them with `skip_query`, one with a jump to a constant (54 000 states), Z3 giving up at any query | testcases follow their path, nothing feasible is lost to slicing, every call returns |
| `symbolizer` | one byte of two bits, pointers of three; programs for every arithmetic and logical instruction, comparison, conversion, table look-up, loop with PHI nodes, switch, indirect branch, call (by pointer, recursive, uninstrumented, intercepted), invoke with and without an exception, structure in registers and in memory, and for what drops expressions | shadows have the type and the value of what they shadow, the input satisfies all constraints; with nothing dropped the constraints are exact, until a program meets one of the deviations, each of which some program does; no program gets stuck |
| `cpu_helpers` | words of four bits, decimals to the base three, every instruction on every word and then two that use or move the flags (177 000 states) | late flags are the processor's, both carries agree, an image of the flags that is stored and loaded is the same, and only the flags a user may write are written |
| `simd_helpers` | 16 bytes of three bits, three registers, one of them XMM0, 21 register files | in-place helpers compute what the instruction promises |
| `hybrid` | every dependency graph of the program and three libraries, circular ones included; every way for five blobs to export a function, once or in two versions; blobs without some kind of slot, functions called through both, tools that print nothing | what is written agrees with the dynamic linker, and a well-formed program gets it |
| `qsym_new_coverage`, `symbolizer_trunc` | smaller | the [findings](#findings) |

Bounds. A testcase matters to the queues by its hits and hashes only, and three inputs with
five kinds of runs give every pair of answers of tracer and queues, every order of two
imports, and a third testcase to notice what went wrong. One rewriting and one unlinking
between any two steps suffice, because no property relates two changed entries other than by
counting them; AFL rewrites an entry once, when it trims it. Two runs of the target are needed to see something left over from the run
before, and the second has the first's leftovers whatever they are (the proof of `RunnerInv`
covers any number). Three sessions are one that leaves something behind, one that is cut short
while it removes that, and one that finds what is left then. Three SIGINTs interrupt the runner, its handler, and that handler's
clean-up. Two bytes give two trees of the forest and their merge; three constraints give a
slice whose parts were recorded in either order; with two bits, additions and negations wrap,
and signed and unsigned order differ. `NameLimit` is the million of `toString6digit`.
A program of `symbolizer` exercises one kind of instruction between reading a byte and
branching on what came of it, with all values of the byte; loops and calls add what happens
between blocks and functions. Three libraries give a chain, a cycle of two, and a library that
both native and emulated code need; the recursion limit is above what any graph without a cycle
needs (`MaxDepthAssumption`). Four bits are enough for a sign, an auxiliary carry out of the
lower half, and products and dividends of two words; three instructions are one that sets the
flags, one that uses and sets them, and one that keeps all flags but one (ADCX). In
`simd_helpers` an instruction is executed once: the helpers keep no state but the registers.
Three bits to a byte keep quadwords within TLC's numbers; the contents are chosen so that every
saturation, sign, carry, tie, shift count and string end occurs. A width of 4 or 3 bits cannot
show what depends on the numbers 8, 16, 32 and 64 themselves, such as a wrong mask constant.

## Fairness

- `Runner` is weakly fair in all queue modules: it is one thread, and wherever the models have
  a next step for it the code does not wait for anybody. In `SymfusionQueue` and `HashQueue`
  the target and the tracer are assumed to end each run; what happens otherwise is the subject
  of `FuzzOne`.
- `Tracer` (afl-showmap) is weakly fair: one thread, and it stops a run after its own timeout.
- In `FuzzOne` the runner and the two servers are weakly fair, children that are not in
  `MayHang` end; `ServerDies`, `ChildHangs` and `ChildWrites` are never forced.
- In `RunnerProcesses` runner and handler are weakly fair, and the loops over the files of the
  fork server while it lives (a dead one may have written them or not); processes need
  not end, and the user need not interrupt, kill or restart anything.
- `HybridConf` is one thread, weakly fair; the tools it calls end.
- `Symbolizer`, `CpuHelpers` and `SimdHelpers` have safety properties only, without fairness.
- In `Solver` every step is weakly fair: one thread, and Z3 has a timeout of ten seconds
  (`qsym_solver.cpp:13`).
- AFL is never fair: no property needs it to act. `AflPolled` says what happens to entries that
  exist.

## Proofs

The theorems hold for every value of the constants that the named assumptions of the modules
admit: any number of inputs, programs, libraries, runs or sessions where the runs have two or
three. TLC evaluates the assumptions in every run. Each inductive invariant was checked with
TLC on the instance of its run before it was proved. All proof modules have the same shape:
the invariant, lemmas about the operators, one lemma per action, the theorem.

| module | inductive invariant | theorems about properties of a run |
|---|---|---|
| `SymfusionQueue_proofs` | `TypeOK`, `QueueInv`, `ImportInv`, `CopiesInv`, `OrderInv` | `TypeOK`, `QueueInv`, `KeptDistinct`, `CorpusCoversBitmap`, `StaleTraceNeverKept`, `ImportedRepresented`, `OvertakenOnlyByBetter`, `ImplementsWorklist` |
| `HashQueue_proofs` | `HashInv` | `HashLostOnlyByAfl`, `QueueContentsDistinct`, `BreadthFirst`, `ImplementsWorklist` |
| `QsymQueue_proofs` | `QsymInv` | `Alternation`, `CorpusCoversCumulative`, `KeptInteresting`, `ImportedJudged`, `ImplementsWorklist` |
| `Runner_proofs` (`FuzzOne`) | `RunnerInv` | `RunnerInv`, `NobodyWrites`, `RunFilesFresh`, `VerdictFresh` |
| `Runner_proofs` (`RunnerProcesses`) | `ProcessesInv` | `OnlyUnregisteredLeft`, `OutputDirectory`, `NothingStartsAfterShutdown` |
| `HybridConf_proofs` | `ConfInv` | `HybridInv`, and `ImplementsLinker` from the termination below |
| `Solver_proofs` | `SolverInv`, `CompleteInv` | `SolverInv`, `FeasibleSaved` |
| `Symbolizer_proofs` | `SymbolizerInv` | `ShadowsHold`, `PathExact` |
| `CpuHelpers_proofs` | `CpuInv` | `ImplementsCpu`, `CarryAgrees` |

**SymfusionQueue.** None of the properties is inductive. A testcase is only lost when none of
the four queues takes it, so `NoTestcaseLost` needs that what is about to be kept has a
whole-program path no queue has seen (`ReportNew`), which the verdict of `add` implies only
because a path that was seen has its hits merged (`SeenMerged`): else the tracer would report
new edges for a known path, and the testcase would be kept. `MembersSeen` and `KeptSeen` tie
the two dictionaries of a queue and `queue/` to the paths seen, `RanDone` says that a testcase
that was run has no positive count left, and `LastTraced` that tracing the previous input
again yields a duplicate, which is why a failed copy is harmless. For the entries of AFL,
`ListedInOrder` says that whatever precedes the entries still to be looked at has been looked
at or rewritten, and `SeenKept` that a path the queue knows is one that was traced for a kept
testcase; the entry being kept has been passed already (`KeptPassed`), and it is not yet
represented. From what was traced (`TracedCoverBitmap`, `ImportedTraced`) to the files is the step
of `CopiesInv`: a file that is not what was traced comes from an entry that AFL unlinked, and no
entry is copied twice. `OrderInv` ties the counts to what they were when a testcase entered its
queues, as long as it waits.
Assumptions: `NoInputAssumption`, `FiniteAssumption` (finitely many edges and paths),
`ProgramsAssumption`, `SeedsAssumption`, `QueueBoundsAssumption`, and `CollisionAssumption`:
equal path hashes mean equal paths, without which two of the properties are false (a collision
makes the tracer report new edges for a path that looks known). `ImplementsWorklist`: initial
states map to initial states; `KeepTestcase` is `Put`, `SelectTestcase` is `Take`, `SelectNone`
is `Close`, everything else stutters. The other two queues map their steps the same way.

**HashQueue.** `HashLostOnlyByAfl` compares two cardinalities, and the step that loses a hash
(the copy of a file AFL has unlinked after it was hashed) must add to both: `LossesCounted`
says that there are no more lost hashes than entries in `Spent`, those AFL has unlinked *and*
the runner has passed, where the entry under way does not count yet. `BreadthFirst` needs the
depth of both generations (`Generations`): the current one is as deep as what was run last, the
next one is one deeper. `QueueContentsDistinct` needs that the hash that was looked up is still
the content's when it is copied (`ContentsKept`), which is where AFL's rewriting breaks it.
`HashSeedsAssumption` types the directory of seeds.

**QsymQueue.** `Handshake` says where the one word is that is under way between the two
processes, `Serving` that at every moment of a scan each file of the directory is served or
still to be, hence that the answers are complete when the word comes back. `Accounted` is the
account of the cumulative map: what it has that `malloc` did not leave there is shown by the
corpus or by an answer that the runner will keep, and an answer counts as new only for a hit
that neither the corpus nor an answer before it has; the order of the answers matters here,
because they are judged in the order of the scan. `Listing` and `Imported` follow the entries of
AFL from the listing through the directory to the map. A tracer that dies is part of the model
(`MayDie`). Assumptions: `ShowmapInputAssumption`, `ShowmapProgramsAssumption` and
`ShowmapMapAssumption` (the map is finite).

**FuzzOne.** The invariant counts a token: between a question and its answer there is exactly
one of the byte to the server, the answer the server owes, and the byte back (`TokenInv`); a
child runs only while its server owes the answer, so when the runner has the answer nobody
writes. `ForkServerAssumption` and `FuzzOneAssumption` only type the constants.

**RunnerProcesses.** A handler works on a copy of the list of processes, so `Covered` says that
whoever is alive is in the rest of that copy or was missing from it (`missed`), for the
*last* handler on the stack; that nobody is added while handlers run is `Placed` and `Stopped`:
an interrupted runner never goes on, except from the loops that swallow `SystemExit`, and there
it waits for a fork server that is dead. `Marked` carries the state of the directory through
crashes between the removal and the new mark.

**HybridConf.** `ImplementsSafety` shows that `build_conf` writes what the dynamic linker does or
gives up, for any set of libraries and any layout of `LayoutType` in which a library is loaded
once, a slot that is jumped through has a stub, and a name has a version everywhere or nowhere
(`LoadedOnce`, `JumpsHaveStubs`, `OneVersion`). `Table` says that the first exporter listed is
the first the loader finds; `CallPath` that the recursion of `split_libs` follows a path of
dependencies, so that a program without a circular library cannot reach the recursion limit,
which is a pigeonhole argument over the libraries (`MaxDepthAssumption`). `Patched` and
`Compared` are what the loops have written so far. `LinkerSafety` is `LinkerSpec` without its
promise to end; `Implements` adds that promise as a hypothesis, `<>(pc \in {"written",
"failed"})` being what TLC checks under fairness.

**Solver.** `SolverInvariant` has four parts besides types: the forest partitions the bytes and
every node depends on bytes of its own tree only; the input of the run satisfies all ranges
and nodes (`ForestInv`), and so does every input that follows the path (`PathInv`: nothing was
recorded that the run does not imply); at each control point Z3 has been told the slice of the
call under way, with the negated condition where there is one (`AssertedInv`). `SavedFollows`
then says that a testcase follows its path (and departs from the run at its own branch or jump,
unless the target of the jump is a constant) although Z3 saw a slice only: bytes outside of the
slice are those of the input, which satisfies the nodes of the other trees.

`FeasibleTried` is the converse and needs `CompleteInv`: no recorded constraint excludes an
input that follows the run (`NothingExcluded`), so an input that is owed something by a call is
a model of what Z3 is asked, or was tried already (`Owed`, for each control point); a byte that
some call constrained is mentioned by a node (`BytesMentioned`), which is what makes the lowest
and highest value of an address a value and not a term; and no file replaces another
(`NamesFresh`), as long as the numbers last. The attempt to prove it corrected the model twice.
`Constrained` counted conditions that always hold, which simplification drops, and whose bytes
are therefore *not* in what Z3 knows; the program `<<Always, Deref>>` of the run is the
counterexample to the earlier statement. And the invariant lacked that the range of a canonical
expression contains its value on the input. Assumptions: `SolverAssumption` and
`SolverProgramsAssumption` type the constants, `SolverDepsAssumption` says that an expression
only depends on the bytes it is said to depend on.

**Symbolizer.** What an opcode computes is never looked at: a value and its expression go through
the same operation, if the table of handlers of the pass names that operation (`BinaryHandler`,
`BoolHandler`, `ComparisonHandler`) and the operands were right (`Right`: an expression stands for
its value on all inputs that follow the path, and a value without one is constant there).
`SymbolizerInv` says this of the registers of *all* frames, because a caller's shadows must still
be right when a callee or an exception comes back after more inputs have left the path
(`FrameMonotone`), and of memory. `AddressTaken`, `BranchTaken` and the switch show that what is
recorded tells exactly the inputs that leave the path from those that stay. Programs are
arbitrary: where LLVM would reject one, or its behaviour is undefined, the model stops
(`Defined` and the other guards). `RegsAssumption` says that "nothing" is not a register. An
attempt to prove the properties with the aggregates as their only exception failed in six places,
which is what `mistranslated` collects; `symbolizer` now has a program for each.

**CpuHelpers.** `HelpersImplementCpu` says that every action is the step of `Cpu` that its
instruction promises, for words and digits of every size, every base of the decimals, every
program and all operands. `CpuInv` has two parts. `FlagsHeld` is what the lazy flags rely on: the
operands left behind are of the kind that `cc_op` says (flags in `cc_src` for EFLAGS, a carry in
`cc_dst` for ADCX). `DecimalInv` is what the adjustments rely on: until the next instruction,
the register and the flags C and A are still those of the addition or subtraction to be adjusted.
There is one lemma per action (`ArithmeticStep`, ..., `SystemFlagStep`). The arguments:

- flags of a sum or difference: the operand that was not saved is the result less the other one,
  modulo the word (`AllSums`); bit four of the exclusive or is the carry out of the low digit,
  because what a word holds is an even multiple of what a digit holds (`AdjustSum`, `AdjustDifference`); the
  signs tell whether the sum fits (`OverflowSum`, `OverflowDifference`);
- `div64`: after `k` steps the remainder is below the divisor, and the top of the dividend is
  quotient times divisor plus remainder, which is where the bit shifted out of `a1` counts
  (`DivInv`, `DivStepInv`, `DivReached`, `Div64Exact`); `idiv64` by absolute values, where the
  negative of the smallest number is itself (`Neg128`, `Absolute128`, `Idiv64Exact`,
  `QuotientTooLarge`);
- PDEP, PEXT: after `n` steps the lowest `n` bits of the mask are gone, and `dest` has what
  belongs to them; the lowest bit that is left has rank `n` (`RankOfNext`, `PdepInv`, `PextInv`).
  They need that a word is determined by its bits (`SameBits`) and what adding or removing a
  power does to them (`ChangeBit`);
- DAA, DAS: with `sh` and `sl` as the sums of the digits, the two tests on the *unadjusted*
  operand find exactly the digits that overflow (`PackedSum`, `PackedDifference`).

Loops are functions over `0..W`; an induction over their steps is the lemma `Induction`, over a
*set* of numbers, which follows from `WellFoundedInduction`. Assumptions: `WordAssumption` (a word
has two digits, and is no longer than that where DAA and DAS occur, which work on AL; the base is
at most what a digit holds), `Bounds` (registers and flags in the beginning are words and flags),
and `PowersOfTwo`, that `2^(n + 1) = 2 * 2^n`, because the backends do not know how to multiply a
power; TLC evaluates it in the run.

Model-checked only:

- liveness, for which the prover has no rules here: the `WaitingEventuallyRun`, `Halts`,
  `AflPolled`, `RunEnds`, `AbortEnds`, `Returns`, the termination in `LinkerSpec`;
- `SimdHelpers`: its bit operations are those of `Bitwise`, which are recursive operators; the
  prover has no SMT backend for a module that reaches one.

## Findings

1. `qsym_new_coverage`: `get_score` is given the file of counters in `tracer/out`, so neither
   new coverage nor size count, against its own comments (`queue_manager.py:257, 479, 484`).
2. `symbolizer_trunc`: truncating to `i1` yields an expression of one bit, not a truth value,
   and a branch on it passes that on as a path constraint (`compiler_symbolizer.cpp:620`); the
   solver asserts that constraints are relational (`qsym_solver.cpp:179`). The run-time library
   between the two is not in the repository; the model passes the condition on as it is.
3. Without a run of its own: a structure that is loaded and stored again gets its expressions in
   the reverse order (`compiler_symbolizer.cpp:501` against `:475`). In `Symbolizer` such a store
   sets `mistranslated`, which `ShadowsHold` and `PathExact` except; without the exception
   `symbolizer` finds the disagreement after one load and one store.

Other behaviour the models have and no property forbids, as nothing in the repository promises
otherwise: the loop for the pid file never ends when the fork server is dead (`Stuck` in
`FuzzOne`); a SIGINT in a loop over the fork server's files is swallowed (`Swallowing` in
`RunnerProcesses`); with `-a` the exploration ends when no seed is worth keeping
(`AflPolled`); the solver aborts when the first query of `getMinValue` has no answer
(`SolveOne`); an address over bytes nothing has constrained is compared with a bound that
still has these bytes in it (`Eval`, excepted in `FeasibleSaved`); after a query without an
answer an address is not recorded (`dropped`), so later testcases may take another address;
when afl-showmap has died, `read(4)` returns nothing, the testcases without an answer are
dropped (`queue_manager.py:218`), and the next word to it ends the runner (`Halts` in
`QsymQueue`); an output directory whose set-up was cut short is refused by every later session
(`OwnAccepted`); libraries that need one another are walked until Python's recursion limit
(`Circular`); a call of what the program exports itself may be patched (`Ambiguous`); with `-t` the
answer of the path tracer is still awaited for ever (`path_tracer.py:178`); a copy to `queue/`
that fails because AFL unlinked the entry after it was traced leaves hits and a path known that no file shows (`Lost`); AFL may starve a testcase of the
last queue; a target of a session that was killed writes into the work directory of the next one
(`strays`); an indirect jump to a constant after an interesting branch saves the input once more
(`SolveAll`); a seed called `seed` is skipped by symfusion mode, because the
import passes that name as the source and `add_from_dir` skips files of that name
(`queue_manager.py:163`, `executor.py:350`).

In `Symbolizer`, besides finding 3: the other deviations that set `mistranslated`
([Symbolizer](#symbolizer)), and that a select and a bit cast from a float lose the expression
of their result (`lossy`).

Behaviour the instances leave out because the model would say it is wrong:

- `SimdHelpers`: `phadd` and its relatives with one register for both operands write the lower
  half before they read the source (`ops_sse.h:1408-1492`); a substring is not found when it
  begins so late that it passes the end of a string that fills the register, where the
  processor reports a partial match (`ops_sse.h:2048-2060`); the length `INT_MIN`, and lengths
  of 64 bits, which `abs1` cuts to 32 (`ops_sse.h:1949-1960`).

## What is not modelled

- `is_interesting_bitmap` and `compare_bitmaps.c`: dead code while `afl_tracer_persistent` is
  always true.
- In the compiler pass: the memory intrinsics (their handling is compiled out by
  `DISABLE_MODEL`), the notify calls, NaN, calls of instrumented functions from uninstrumented
  ones, and a PHI node that takes the result of the invoke that ends the block before. Note that
  `docker/Dockerfile:64-65` does not copy the two files to SymCC at this commit.
- In the helpers: `clts` and `cr4_testbit`, `aam` with base 0, the shifts and rotates
  (`shift_helper_template.h` is not in the repository), MMX (`pshufw`), `crc32`. The x87
  instructions (`fpu_helper.c` from line 386 on), floating point, immediate blends and AES are
  compiled out (`#if 0`).
- `wrappers.c` and the tables of `gen_sym_helpers.h`: they hand the expressions of a helper's
  arguments from the translator of SYMQEMU, which is not here, to the mailboxes of the pass.
- In `hybrid.py`: what `build_conf` does not reach (`define_syscall_to_patch`,
  `find_runtime_offsets`, what follows the `return` that begins
  `remove_got_entry_as_plt_without_alias`), and `prepare`, which puts the
  result into the environment of the target. A library is its name: that the path `ldd` prints is
  found by the end of a name is left out, and offsets are positions.
- The rest of afl-showmap (vendored from AFL++), command line, `-k`, debug modes, memory limits, log output.
- `-g`, which does not touch the output directory, and a user's directory that has a file
  `.symfusion`.
- Grandchildren of the target, the reuse of pids, an interrupted `cp` that leaves half a file.
- The debug assertion at `queue_manager.py:370`, about hashes of whole bitmaps.
- What expressions, ranges and the interest map of QSYM are inside, and Z3.

## How to check

In this directory, with the TLA+ tools and the community modules:

    tlc -workers 2 -config sfq.cfg MCSymfusionQueue
    tlapm SymfusionQueue_proofs.tla

and likewise for the other pairs of `.cfg` and `MC` module listed in `PROJECT.json`. The two
violation runs end with a counterexample, the others without an error.
