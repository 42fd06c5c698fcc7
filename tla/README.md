# Verification of mini-pogo

mini-pogo is a small language with concurrent tasks. `mpc` compiles a source
file into a module file (header and code block); `mpr` loads a module and runs
its `init` block on a POSIX thread. A `spawn` statement starts one thread for each task it
names and then either joins them or waits for a period with a timeout branch.

This directory holds TLA+ specifications of the program, the TLC runs that
check them on small instances, and TLAPS proofs for all instances. Paths below
are relative to `src/` of the repository.

## 1. Inventory

| Component | Source | State | Operations |
|---|---|---|---|
| interpreter `mpr` | `src/exec.c`, `src/exec.h` | one `TASK` per thread (instruction pointer, operand stack, 26 variables, two spawn counters, parent), the heap, `g_print_mtx`, stdout, the main thread | one `case` per opcode of `exec_run_task`; `exec_create_task`, `exec_run_spawn`, `exec_run_then_join_spawn`, `exec_run_then_wait_spawn`, `exec_sleep`, `exec_run_module_at_init_code` |
| instruction set | `src/instruction.h`, `src/opcode-enums.txt` | none | opcodes and their operand |
| code generator | `src/compile.c` | `g_code`, `g_ip`, `g_n_labels`, label suffix | one `compile_*` function per node type, header and code writers |
| symbol table | `src/symbol-table.c` | labels with address, `lbl_addr_set` and backpatch list | look up, add, add backpatch |
| string table | `src/string-table.c` | interned strings with indices | look up, add |
| header and module file | `src/binary-header.c`, `src/module.c` | `g_raw_header`, write index | `bhdr_write`, `bhdr_read`, `module_read`, `module_free` |
| parser | `src/parse.c`, `src/parse.h` | none of its own: it looks at the scanner's current unit | one function per grammar rule; `parse_expect` ends the program at a syntax error |
| lexical analyser | `src/lex.c` | place in the input, line and column, current unit | `lex_scan` and one function per kind of unit |
| driver `mpc` | `src/mini-pogo.c` | open files, position in the command line | `--compile`, `--compile-header-only`, `--lex-print`, `--parse-test`; other test switches |
| disassembler, header printer | `src/disasm.c`, `src/header-print.c` | none | print |

**Interaction.** `mpc`: driver -> parser -> lexer builds a tree; driver ->
code generator -> symbol and string tables builds `g_code`; the driver writes header and
code. `mpr`: main thread -> module reader; then threads that share the module
(read only), their parents' `task_n_spawn_running`, `g_print_mtx` and stdout.

**What is hard.** Compilation is sequential; its risks are backpatching,
operands that are never set, and state that one compilation leaves to the next
(the labels' count, the code array, the scanner's position and current unit).
The scanner and the parser are loops over a shared current unit, some of whose
errors are ignored; each loop must get further. The module file is an interface
of two programs that agree on offsets only by counting alike.
Execution is concurrent: a child runs before its parent has counted it, counters
are decremented in two steps, blocks are freed while siblings run, a deadline
races the last child, and tasks that miss it outlive their statement, their
parent and even their code. `PROJECT.json` lists the hazards by line.

**What makes each part correct.** Interpreter: counters count live children;
joining is a barrier; blocks are freed once and after their thread has exited; prints are
atomic; the operand stack has the depth the compiler intended at every address;
a program without endless loops ends. Code generator: every jump stays in the
code block, every spawn reaches its task, every address has one stack depth,
prints are bracketed. Tables: one entry per name, every backpatch filled in.
Header: reading gives back what was written, and nothing that is not a whole
module is loaded. Lexer and parser: units, values and positions are those of the
text, the tree is the one the grammar gives, and reading ends.

## 2. Modules

| Module | What it is |
|---|---|
| `Bytecode` | The instruction set: pops, pushes, successors of an instruction, and the forms of well-formed code: `ClosedCode`, `DepthOf` and `PrintRegionOf`, which the interpreter assumes, and `JoinsEverySpawn`, which the theorems about joining assume besides, and `SpawnsUnbroken` and `JoinedNeverWait`, which those about waiting do. |
| `ParseTree` | Parse nodes, as records with the members of the C union. |
| `Lex` | The scanner, as operators from a scanner state to the next. |
| `Parse` | The parser on top of `Lex`, one operator per `parse_*` function. |
| `Language` | The language told without a scanner or a parser: what is a unit, which sequences of units are sentences of which grammar, and with which trees. The reference that `Source` compares with. |
| `Source` | `mpc --lex-print` and `--parse-test`: state machine, properties of scanner and parser. |
| `Compile` | The code generator with its two tables, as operators from a compiler state and a parse node to the next compiler state. |
| `Header` | The bytes of a module file: `compile_write_header`, `bhdr_write`, `bhdr_read`, `module_read`. |
| `Numbers` | `int` arithmetic at the width `MaxInt`: wrapping, quotients, comparisons, the operands that trap. |
| `Meaning` | What a task does, told twice: by its parse tree (a reference semantics) and by its code, run by one undisturbed thread; `Implements` compares them. |
| `Driver` | `mpc --compile` and `--compile-header-only`, from the text to the bytes of the output file (composes `Lex`, `Parse`, `Compile`, `Header`): state machine, properties. |
| `Programs` | Parse trees of the programs the interpreter is run on, and their compiled code. |
| `Exec` | The interpreter: state machine, properties. |
| `ForkJoin` | What spawn and join promise: the abstract specification. |
| `ExecForkJoin` | The refinement mapping from `Exec` to `ForkJoin`. |
| `ExecJoin` | The inductive invariant of programs that join every spawn, in named parts. |
| `ExecSpawn` | The inductive invariant of programs whose joined tasks do not wait, in named parts. |
| `MCExec`, `MCExecJoin`, `MCExecWait`, `MCSource`, `MCDriver` | Constants of the runs: compiled programs (`MCExecJoin`: those that join every spawn; `MCExecWait`: the one whose joined tasks do not wait), texts, source files. |
| `ExecProof`, `ExecSteps`, `ExecPrintProof` | Theorems about `Exec`: types and the print lock; freeing, and what a step can do; output. |
| `ExecJoinProof`, `ExecForkJoinProof` | Theorems about programs that join every spawn; the refinement of `ForkJoin`. |
| `ExecSpawnProof` | Theorems about programs whose joined tasks do not wait. |
| `ForkJoinProof` | Theorems about `ForkJoin`. |

The runs execute *compiled* code: `MCExec` takes its constants `Code` from
`Compile`, so what is checked is the composition of the two.

`Exec` assumes well-formed code (`CodeAssumption`, `DepthAssumption`,
`RegionAssumption`), `ExecJoin` that every spawn is joined
(`JoinAssumption`), and `ExecSpawn` that spawn statements are unbroken
(`SpawnAssumption`) and that joined tasks do not wait (`JoinedAssumption`).
`Driver!WellFormed` is the same formulas of `Bytecode`, checked of everything
the generator writes for a grammar of sources (`JoinsEverySpawn` of code
without `OP_WAIT_JUMP`): it discharges what the interpreter, and its proofs,
take for granted. Only `JoinedNeverWait` is about the program and not about the
compiler.
`ProgramsAreSentences` of `MCDriver`, which TLC evaluates with run `mpc`, ties
the two ends together: the trees of `Programs` are what `Parse` makes of
ordinary source texts.

### Exec and the code

| TLA+ | C |
|---|---|
| `heap` | `TASK` blocks between `malloc` and `free`; an element of `Tasks` is an address |
| `ip`, `stack`, `top` | `task_ip`, `task_stack`, `task_stack_top` |
| `n_spawn_tasks`, `n_spawn_running`, `parent` | the fields of the same name; `n_spawn_running` wraps at `CounterMod` |
| `thread[t]` | where in `exec.c` the thread of `t` is |
| `print_mtx`, `out` | owner of `g_print_mtx`; everything printed, with its task and address |
| `main`, `proc` | the main thread's position; how the process ended |

An action is one instruction of one thread. Most instructions touch only their
own task, so their C statements cannot be interleaved with anything that
matters. Those that touch shared memory are cut where another thread can get
in:

| Instruction | Actions, in order |
|---|---|
| `OP_JOIN` | `RunSpawn`, then for each child `CreateThread` (`pthread_create`) and `CountThread` (`+= 1`), `BeginJoin`, for each child `JoinThread` (join, free, two drops), `EndJoin` (the assertion) |
| `OP_WAIT_JUMP` | `RunSpawn`, `CreateThread`, `CountThread` as above, `BeginWait` (drop, fall asleep), `EndWait` (wake up, load the counter, jump) |
| `OP_SLEEP` | `BeginSleep`, `EndSleep` |
| `OP_END_TASK` | `EndTask`, `CheckSiblings` (load and assertion), `CountDown` (`fetch_sub`), `ExitThread` |

`JoinThread` is one action because each thing in it depends only on a child that has exited
and on words of the parent's own stack.

**Stack words.** A word is an int, or the low or high half of a pointer that
`OP_SPAWN` pushed, or junk from `malloc`. A half or a junk word read as a number
is an arbitrary number. `Child` puts two halves together and yields `NoTask` if
they are not halves of one pointer; using that pointer ends the process
(`wild_pointer`).

**Variables.** `task_variables` has 26 elements and is indexed with the letter's
code (`exec.h:29`, `exec.c:195`). In the layout the compiler gives the struct,
variable `'A'` is word 65 - 26 = 39 of `task_stack`. The model has this
layout: variables live in `stack` from word `VarBase` on.

**Undefined behaviour and aborts** end a behaviour with the reason in `proc`:
`stack` (a word outside the stack), `wild_pointer`, `no_memory` (`malloc`'s NULL
written through), `use_after_free`, `sigfpe`, `op_bad`, `assert_siblings`,
`assert_join`. `exited` is the normal end.

**Abstractions.** Time: a sleep ends at any moment after it began. stdio: a
`printf` is atomic, as POSIX requires of a stream. `task_state` is not kept
(only the loop condition of the task itself reads it), nor are names. An
uninitialised pointer in a parse node is NULL (see `Compile`).

### ForkJoin and Exec

`ForkJoin` knows tasks that are idle, running, inside a fork, or stopped, and
the children each has started and not collected. A `TASK` block is idle until
its thread is created and again when it is freed; a task is inside a fork from
`exec_run_spawn` to the last `pthread_join`; its children are the blocks whose
parent it is and whose thread exists. Instructions, `BeginSpawn`, counters and
the print lock are stutters. `ImplementsForkJoin` is the abstract specification itself
under this mapping, checked of and proved for the programs that join all they spawn; a program
with `wait` does not implement it, since its tasks outlive the statement.

### Compile and the code

The generator's file-level variables are the fields of one record. An operator
that emits an opcode alone (`EmitOp`) keeps the operand that was in `g_code`
before, as the C does; a label's `addr_set` stays `FALSE` when it is added, as in
`symbol-table.c:52`. The symbol table is a function from names (hashing is
abstracted), the string table a sequence in index order.

Two pointers are read that the parser has not set: `nd_p_millisec_expr` of a spawn
without `wait` and the right operand of `not`. The modelled outcome is NULL,
with which the generator does what it intends.

### Lex, Parse and the code

| TLA+ | C |
|---|---|
| `s.text`, `s.pos` | the open file and how far `file_input` has read it |
| `s.line`, `s.col` | `g_input_line_n`, `g_input_column_n`: they go on from one file to the next |
| `s.type`, `s.l_line`, `s.l_col`, `s.val` | `g_current_lex_unit`; `val` is its union |
| `s.type = "HANG"` | not in the code: `lex_skip_to` reads the end of the file for ever |
| `s.type = "EXIT"` | not in the code: `error_exit` has ended the program |

A scanner function that fails returns before it sets `l_type`, and no caller
looks at its result; so the unit before stays current (`lex_scan_char`,
`StringChars`). `MaxStr` is `MAX_STR`; names and strings are cut where the code
cuts them. Numbers wrap at `MaxInt`. Texts are ASCII; other control characters
than those of `Blank` are left out. A loop of the C is a recursive operator; the
loops that only skip letters or a comment are a jump to the place they end at
(`SpanEnd`, `Skip`).

Each `parse_*` operator takes a scanner state and returns a node and the scanner
behind it. The functions of the parser that call each other, and `lex_scan`, are
called by name through one recursive operator, `Call`. After `error_exit` every operator runs on without effect, because no rule accepts
`EXIT` and `lex_scan` leaves it.

`Source` has one action per switch that is begun, per turn of the loop of
`scan_file_and_print`, and per call of `parse`; `units` is what has been
printed, each unit once.

`Language` does not use the scanner or the parser: `Cuts` looks for the longest
unit at each place, `Derives` follows a grammar, `Trees` is the set of all trees.
`parse.c` describes the language twice, and the code agrees with neither, so there are three
grammars:

| Grammar | Where it comes from |
|---|---|
| `Documented` | the comments above the functions of `parse.c`; where they write expression and the code takes a truth value, it has or-expression |
| `HeadGrammar` | the comment at the head of `parse.c`: a period is `time-unit '(' expression ')'`, and there are fewer `;` |
| `Widened` | `Documented` and what the code accepts beyond it: any number of signs and `not`s, an empty statement, `;` before a task's name, no `;` after `init`'s `end` or a task's, one after the last `end` |

`ParsesSentences` compares the parser with the first and the third: nothing `Documented` is
refused, and what is accepted has the one tree of `Widened`, in which a repeated sign or `not` is
applied as often as it stands there. It takes no side where the code is lenient, or where the
two comments differ: that is what `AcceptsAsDocumented` is about, and run `grammar` shows it violated.

### Header and the code

A file is a sequence of bytes `<<kind, value, k>>`, the `k`-th byte of a number,
a character or an instruction; widths are those of the code (4, 1, 1, 8). A number or an
instruction can only be read where one was written, so every offset that is one
byte off is seen. A header's size counts the labels of the table, its `n_labels` all labels since the
program started (`compile.c:18`, never reset): the entries behind the filled-in ones are what
`malloc` left, any member of `Memory`. The labels' order in the file is the
buckets' order, which is left open (a `CHOOSE`); nothing depends on it.
`MAX_HEADER_SIZE` is not compared with anything by the code and is left out.

`bhdr_read` and `module_read` return a header or a module, or how they failed:
`NULL`, `exit`, or `wild_pointer` for the write through the unset label list.

### Driver and the code

| TLA+ | C |
|---|---|
| `lx` | the file-level variables of `lex.c` |
| `c` | those of `compile.c`, `symbol-table.c`, `string-table.c` |
| `p_tree`, `flags`, `fout` | `compile_selectively`'s tree, flags and output stream |
| `disk` | the bytes of each output file |
| `at`, `n` | the position in `compile_selectively`; switches done |
| `NotFound`, `CannotOpen` | the input or the output cannot be opened |
| `ParseSource` | `lex_set_input_function` and `parse` of one of `Sources`; a syntax error exits, an endless comment hangs |
| `OpenOutput` | `fopen(.., "w")` empties the output |
| `GenerateCode` | `compile_init`, `compile`; exit on an undefined task |
| `WriteHeader`, `WriteCode` | `compile_write_header`, `compile_write_code` |
| `Exit` | no switch is left |

Every switch of one command line uses the same `lx` and `c`, of which
`compile_init` resets only some: the second compilation starts from what the
first has left, and that is what two switches are for.

`Meaning!Step` runs one instruction of a task alone, with a spawned address as
one word of the stack and with the order of the spawned tasks and the events
(`join`, `wait`, `sleep`, prints, lock and unlock) recorded. Whether a `wait` is late
is a parameter. A block that does not get to its `OP_END_TASK` with an empty
stack within `Fuel` instructions does not implement its source.

## 3. Runs

| Run | Program | What it shows |
|---|---|---|
| `fork` | `init` spawns and joins `a` and `b`; `b` spawns and joins `c`; all but `b` print | counters, barrier, freeing, lock, stack depth, termination over all interleavings of four threads |
| `loop` | two children spawned and joined on each of two turns of a `while`, then one | the same when blocks are reused and with all statements and nearly all operators |
| `wait` | `spawn a; b; join wait .. timeout .. else ..`, a second `wait` without `else`; one child joins children of its own, twice | lock, counters, freeing, the meaning of success, what is found on the operand stack and which blocks are used, when tasks are late |
| `mpc` | all texts of `MCDriver`, two switches on a command line | the compiler, from text to file: well-formed code that does what the source says, files that read back, executable modules, undefined tasks reported |
| `source` | all texts of `MCSource`, one file or two | the scanner and the parser against the language |
| `siblings` | `fork` | finding 1 |
| `lost_tasks` | `wait` | findings 2 and 8 |
| `wait_join` | a timed-out spawn, then a joined one | finding 3 |
| `spawn_comments` | a `wait` without `else`, over a task declared before the task that spawns it | findings 4 and 5 |
| `units_documented` | two files, the second with `!=` | findings 6, 9 and 10 |
| `no_strings` | a loop that prints nothing | finding 7 |
| `grammar` | two files: one that no grammar derives, then one that the head of `parse.c` does | findings 11, 12 and 13 |

**Properties**, with the code they are about:

- `TypeOK`: the types; `n_spawn_running` stays in its width.
- `PrintMtxHeldInPrint`: a task owns `g_print_mtx` exactly while it is between
  `OP_BEGIN_ATOMIC_PRINT` and `OP_END_ATOMIC_PRINT`.
- `StdoutAtomic`: two outputs of one execution of a print statement have no
  output of another print statement between them.
- `RunningCountsLive`: `task_n_spawn_running` is the number of threads the task
  has started that have yet to stop, less one between a `pthread_create` and the increment
  after it, modulo the counter's width.
- `ParentsOutliveChildren`: while a thread runs, its module is loaded and its parent is inside
  the join that waits for it.
- `EndsByItself`: a joining program that divides by nothing ends normally or
  by the assertion of finding 1; no stack error, no wild pointer, no use after
  free, no failed join assertion.
- `StackDiscipline`: at every address the operand stack has the depth the
  compiler intended.
- `JoinIsBarrier`: a task leaves `OP_JOIN` with no block of its own children
  allocated and its counter zero.
- `FreedAfterExit`: a block is freed only after its thread has exited.
- `VariablesChangeByAssignment`: the words of a variable change only by an
  `OP_POP_INT` for that variable in the task that owns it.
- `WaitSuccessMeansStopped`: `wait` takes its success branch only when every
  task of the statement has stopped.
- `ChildrenFound`: `exec_run_spawn` finds, for every task of the statement, two
  words that are the address of an allocated block without a thread.
- `StackOnlyOverflows`: no instruction and no loop pops a word that is not
  there; the end of the stack is reached only at its top.
- `NothingFreedInUse`: no thread reads freed code or touches the freed block of
  its parent, until `main` has called `module_free` and is about to return. (Then it
  can: late tasks still run. That is finding 8.)
- `ImplementsForkJoin`: every step is one of `ForkJoin` or a stutter: tasks
  start only inside their parent's fork, stop only without children, and a task leaves
  `OP_JOIN` only when it has collected every child it started.
- `Terminates`: the process ends.

The lock's two properties are checked by `fork` and `wait`, whose tasks print at
the same time, and not again by `loop`; nor are `ParentsOutliveChildren` and
`FreedAfterExit`, which are proved. `VariablesChangeByAssignment` is checked by
`loop`, which has most of the assignments, and whose operands stay below the
variables. With `VarBase` = 2 it would fail there: see section 5 on `DepthsBelow`.

Of the compiler:

- `TypeOK` (of `Driver`): the types; a backpatch is an address of generated code.
- `WellFormed`: jumps stay in the code, prints are bracketed and run forward, every address has one
  stack depth, every spawn statement is unbroken, spawns the tasks it announces and ends with
  their addresses on the stack, and in code that never waits each is joined.
- `CompiledMeansSource`: every task's code, and the init block's, leaves the
  variables and does the visible things that its statements say, for every
  valuation and whether its waits are late or not; a spawned address is the
  entry of the task that the source names, also when the spawn comes first.
- `ReadsBack`: what `module_read` makes of a complete file is what the compiler
  had: name, strings by index, labels with address and type, and code.
- `LoadedFilesExecutable`: whatever file `module_read` accepts, at any moment, has a string
  for every string index and a task's label for every spawned address; no file is
  accepted that an error or `--compile-header-only` left without its code.
- `UndeclaredIsReported`: nothing is written for a source that spawns a task it
  does not declare, even if an earlier source declared that task.

`ReadsBack` and `LoadedFilesExecutable` are about headers whose label count is that of
their table (`LabelsCounted`), as it is for the first file of a command. For a second one
`n_labels` is too large, the unset entries go into the file behind the labels that were
counted in `header_size`, and the code is not where the header says: `mpr` reads garbage.
`mpc` and its two-switch runs model this; the two properties exclude it, as no
text of the repository says that one command may write several modules.

Of the scanner and the parser:

- `UnitsAsSpelled`: a text that consists of units, blanks and comments is shown
  as these units and values: none is split, joined, lost or misread.
- `PositionsFollowText`: the lines and columns of any two units differ as the places
  of their first characters in the file do. What the counters start from is
  not its subject: `UnitsAsDocumented` (findings 9 and 10) is about that.
- `ParsesSentences`: `parse` refuses no sentence of `Documented`, and what it accepts
  has the one tree that it returns.
- `HangsOnlyInComment`: reading hangs only in a comment on a last line that no newline ends.
- `ScanProgress`: every turn of the loop of `--lex-print` gets further or is the last.

**Bounds.** `Tasks` is the heap: the programs need 4, 3 and up to 5 blocks at a
time; in `wait` the heap also runs out (`SpawnNoMemory`), when `c`, whose waiting parent keeps the blocks of `a` and `b`, spawns its last child. `StackSize` and
`VarBase` leave `fork` and `loop` just enough words and let the leak of `wait`
reach the top (`BadInstruction`). `MaxInt` = 7 is above every number in the programs;
`CounterMod` = 8 is above the number of tasks, as 2^32 is. `NVars` = 2. Two children and one
grandchild are the smallest program in which a decrement races an increment of
another child, a sibling's decrement and the parent's own end.

`source`: all texts of up to three characters out of 13, which have a letter of each
case, a digit, a blank, a newline, `!`, both quotes, the escape and the beginnings of the
symbols; of up to four or five out of the six, seven or four that interact (names, symbols, quotes);
texts that `MaxStr` = 11 cuts, in which "do_nothingatall" becomes the keyword `do_nothing` as
it does in the code when `MAX_STR` is 11. All expressions of up to three of eleven words, four longer
ones with each operator next to each of its neighbours, and three sentences with
every construct, and all that differ from one of these in one word: 79,525
states. Every rule of the grammar and every `parse_expect` is met with a right
and with a wrong unit.

`mpc`: the grammar has every operator, short circuits nested in both orders,
every kind of statement with others inside it, tasks spawned before and again
after their declaration, strings that repeat, and an undeclared task. Two
switches suffice to see what a compilation leaves for the next: the third
starts from a state of the same kind. The 25 valuations give two variables the
values -8 (the smallest `int` at `MaxInt` = 7), -1, 0, 1 and 2, so every branch
is taken and sums overflow. `Fuel` = 200 and `MaxCodeSize` = 80 are above what
any of the sources needs (`CompiledMeansSource` and `TypeOK` would fail
otherwise). `Memory` has an entry like an empty one and one like a label of an
earlier header. One output file suffices: the second file of a command
overwrites the first or is left out. 18,465 states.

**Fairness.** `FairSpec` has weak fairness for each thread and for the main
thread: the kernel runs every thread that can run, and a `nanosleep` returns.
Weak fairness is enough because a thread that waits for the mutex waits for a
holder that never blocks (`PrintMtxHeldInPrint`), and no program of the runs
prints for ever. `Terminates` is an upper bound on nothing: it says the programs without
endless loops do end, whatever the way (`EndsByItself` says which ways).

`Source` and `Driver` are sequential and have no fairness: their questions about
ending are the safety properties `ScanProgress` and `HangsOnlyInComment`.

**Deadlock** is checked in every run; the process's end is a stuttering step
(`Ended`).

## 4. Findings

1. `exec.c:96-101` creates a child's thread before it counts it. A child that
   reaches `OP_END_TASK` in between fails `assert(n_siblings_running > 0)`
   (`exec.c:190`). Run `siblings`.
2. `exec.c:127` drops one word for each task where `OP_SPAWN` pushed two, against
   the comment above it. Run `lost_tasks`: the
   init task ends with three words on its stack.
3. `task_n_spawn_running` is kept for the task, not for a spawn statement as
   `exec.h:35-36` says, and still counts late tasks of earlier statements: a join after a
   spawn that timed out fails
   `assert(p_parent_task->task_n_spawn_running == 0)` (`exec.c:117`). Run
   `wait_join`. (A later `wait` also reports a timeout although its own tasks
   have stopped.)
4. `compile.c:93-94` says that a spawn of a task that is already declared uses
   its address; `symtab_add_label` ignores `addr_set` (`symbol-table.c:52`), so
   the spawn is backpatched instead, nothing ever fills it in, and `mpc` exits
   with "Undefined task". Run `spawn_comments`.
5. Without `else` the operand of `OP_WAIT_JUMP` is never set (`compile.c:162`,
   against `compile.c:142` and the grammar, `parse.c:578`): when the tasks stop in
   time the parent jumps to address 0, or to what an earlier compilation left
   there. Run `spawn_comments`.
6. `!=` is a unit for `lex-enums.txt:33` and a relation for the grammar
   (`parse.c:83`), but `!` is white space for `lex.c:188` and begins a comment
   (`lex.c:207`): the rest of the line is skipped. Run
   `units_documented`.
7. `bhdr_new` allocates the label list only if there are strings
   (`binary-header.c:168-179`); a module with labels and no strings, as the sample
   `fibonacci.pogo`, is read through a pointer that was never set. Run `no_strings`.
8. `module_free` is called when the init task has been joined (`exec.c:365-366`), but
   tasks that missed the deadline of a `wait` still run and fetch instructions from the
   block that was freed, against `exec.h:28`. Run `lost_tasks`, in the same state.
9. `lex.h:15` calls columns 1-based; `lex.c:485` stores 0 for the first. Run `units_documented`.
10. `lex.h:13-14` counts lines in the input stream from 1; a new stream does not reset the counter
    (`lex.c:58`, `lex.c:160-164`). Run `units_documented`, whose last state shows 6, 9 and 10.
11. The grammar at the head of `parse.c` (lines 57 and 62) writes periods as `sec(5)`, as the sample
    `collatz.pogo` does; `parse_spawn` and `parse_sleep` take a bare expression and refuse the `(`.
    Run `grammar`, its second file.
12. Both comments allow one sign and one `not` (`parse.c:358` and `440`, `87` and `79`), the code any
    number (`parse.c:366` and `447`). Run `grammar`, its first file.
13. `task name [';']` (`parse.c:762`) is parsed as `task [';'] name` (`parse.c:769`). Run `grammar`,
    its first file.

Differences that no run is about: an empty statement is accepted; the `;` after `init`'s `end`
is optional, and one after the last `end` is accepted; a constant that
is cut off by the end of the file repeats the unit before it.

## 5. Proofs

Everything here is proved for every code block, number of tasks, stack size and
word size that the assumptions named allow.

| Theorem | Module | Statement | Programs |
|---|---|---|---|
| `TypeCorrect` | `ExecProof` | `Spec => []TypeOK` | all |
| `PrintExclusion` | `ExecProof` | `Spec => []PrintMtxHeldInPrint` | all |
| `BlocksFreedAfterExit` | `ExecSteps` | `Spec => FreedAfterExit` | all |
| `OutputAtomic` | `ExecPrintProof` | `Spec => []StdoutAtomic` | all |
| `JoinInvariant` | `ExecJoinProof` | `Spec => [](IInv /\ JInv /\ NothingLeft)` | joining |
| `CountersCount` | `ExecJoinProof` | `Spec => []RunningCountsLive` | joining |
| `StackAsCompiled` | `ExecJoinProof` | `Spec => []StackDiscipline` | joining |
| `ParentsOutlive` | `ExecJoinProof` | `Spec => []ParentsOutliveChildren` | joining |
| `JoinBarrier` | `ExecJoinProof` | `Spec => JoinIsBarrier` | joining |
| `JoinAssertionHolds` | `ExecJoinProof` | `JoinAssertion` always; never `wild_pointer` or `use_after_free` | joining |
| `EndsProperly` | `ExecJoinProof` | `EndsByItself`, or `no_memory`, or `sigfpe` in code that divides | joining, stack large enough, no `OP_BAD` |
| `VariablesKept` | `ExecJoinProof` | `Spec => VariablesChangeByAssignment` | joining, operands below the variables |
| `SpawnInvariant` | `ExecSpawnProof` | `Spec => [](IInv /\ SInv)` | waiting |
| `WaitCountersCount` | `ExecSpawnProof` | `Spec => []RunningCountsLive` | waiting |
| `WaitSucceedsProperly` | `ExecSpawnProof` | `Spec => WaitSuccessMeansStopped` | waiting |
| `SpawnFindsChildren` | `ExecSpawnProof` | `Spec => []ChildrenFound` | waiting |
| `StackNeverUnderflows` | `ExecSpawnProof` | `Spec => StackOnlyOverflows` | waiting |
| `FreedBlocksUnused` | `ExecSpawnProof` | `Spec => []NothingFreedInUse` | waiting |
| `ForkJoinImplemented` | `ExecForkJoinProof` | `Spec => ImplementsForkJoin` | joining |
| `TasksAreTrees` | `ExecForkJoinProof` | `Structured` and `RootAlone` of the interpreter's tasks | joining |
| `ForksAreTrees`, `InitTaskOutlives` | `ForkJoinProof` | `[]Structured`, `[]RootAlone` | `ForkJoin` |

**Assumptions.** "All" programs are those with `CodeAssumption` and
`RegionAssumption` (control stays in the code block, prints are bracketed and
run forward, operands are numbers of the right kind), `DepthAssumption` (the
compiler intends one stack depth per address), `TaskAssumption` and
`MemoryAssumption` (the constants are numbers, the counters are wider than the
number of tasks, the variables lie inside the stack). "Joining" programs have in
addition `JoinAssumption`: no `OP_WAIT_JUMP`, and between an `OP_BEGIN_SPAWN`
and its `OP_JOIN` nothing but the announced `OP_SPAWN`s. "Waiting" programs have
`SpawnAssumption` (spawn statements are unbroken, whether they join or wait) and
`JoinedAssumption`: the code in which joined tasks run has no `OP_WAIT_JUMP`;
the init task and every task that is only waited for may wait, join, and mix the
two. A joined task that waits is excluded because the statements would be false: its
parent frees its block while tasks that missed its deadline still count down in
it, and `malloc` may have given it to another task. All of these are
formulas about the constants; TLC evaluates them on the compiled programs of
the runs, and `Driver!WellFormed` on all that the generator writes in run `mpc`.
The hypotheses `DepthsBelow(StackSize)`, `DepthsBelow(VarBase)` and
`NoBadOpcode` are about the program, not about the code of `mpr`: nothing in
`compile.c` bounds the depth of an expression, and with more than 39 words
(`VarBase`, see section 2) operands and variables do overwrite each other.
They are stated in the theorems that need them, and hold of `fork` and `loop`
(`HypothesesAssumption` of `MCExecJoin`).

**Types and the lock.** Neither property is inductive. The invariant is

    IInv == TypeOK /\ CallsMatchCode /\ BlocksInUse /\ PrintMtxHeldInPrint

`CallsMatchCode` is needed because `EndJoin`, `EndWait` and `EndSleep` advance
an instruction pointer that an earlier action left at a blocking instruction:
only there is the next address known to be in the block and outside prints.
`BlocksInUse` is needed because `Spawn` and `MainStart` overwrite the state of a
block they take from the heap: no thread may be using it, least of all one that
holds the lock. There is one lemma per action; each shows the four conjuncts one
by one. `NextInvariant` puts them together and the theorems follow with PTL.

**Steps.** `ExecSteps` states once what the later proofs need of a step
whatever its action: which steps change the heap or the output, that a thread
is moved by its own steps only, and that each instruction is a step inside its
task to a successor address or one of four others.

**Output.** `StdoutAtomic` speaks of outputs already made. What keeps it true
is a statement about the output to come (`OutInv`): since the last output of a
print statement that is still running, no other statement has printed. When a
task prints, it holds the lock, so no other task is inside a print statement;
when it moves on inside the statement, it moves forward and over no output, so
the addresses between its last output and the next one are those of the same
execution. That jumps inside a print statement go forward and skip no print is
part of `PrintRegionOf`; short circuits inside a printed expression obey it.

**Joining.** `JInv` (module `ExecJoin`) says what the operand stack of a task
that forks holds, which no property mentions: the addresses of its children, two
words each, each child once, oldest at the bottom (`ChildrenOnStack`). From
this it follows that `exec_run_spawn` finds a pointer where it looks for one,
that it never starts a child twice, and that `OP_JOIN` frees each once. Besides

- `ParentsFork` turns it around: every block but the init task's is on the
  stack of its parent, which forks. When the stack is empty there is no child,
  so the barrier holds and the counter is zero.
- `LoopsInBounds` and `DepthInCalls` relate the loop index, the operand of
  `OP_BEGIN_SPAWN` and the stack's depth, which `OP_JOIN` lowers step by step.
- `RunningCountsLive` is inductive with these: a decrement finds its parent's
  block, which still belongs to the same parent. The modulus matters at one
  place, where a fast child takes the counter to -1.
- `ParentsRooted` excludes a ring of tasks that are each other's parents, which
  would go on after the init task has ended; with `NothingLeft` the program is
  freed only when every other task is gone.

**Waiting.** After an `OP_WAIT_JUMP` half of the words of the addresses stay on the
operand stack (finding 2), so its depth says nothing any more. `SInv` (module
`ExecSpawn`) is about what lies on top: `Words` is what the compiler intends to
be there, `Base` the place where it begins, wherever that is.

- `DeepEnough`: the stack is never less deep than intended. With it every pop
  finds its word, which is `StackNeverUnderflows`.
- `KidsOnStack`: inside a spawn statement the words from `Base` on are the
  addresses of the children, each once, and those below `Unstarted` have no
  thread yet. Unlike `JInv`'s `ChildrenOnStack` it speaks of the children of the
  statement, not of all children: late ones may exist besides.
- `LoopsInBounds`, as before; the period of a `wait` is computed inside the
  statement, which is why `SpawnsUnbroken` lets expressions into it, and why
  `D[a] - Pops >= 2 * H[a]` there: it must not reach down to the addresses.
- `Families` replaces `ParentsFork`: a block's parent is in use until `main` frees the
  init task, because the only blocks that are freed are those of joined tasks,
  and a task in joined code has no children but those on its stack. So a late
  task finds its parent's block, which is the same parent's.
- `RunningCountsLive` is inductive with these.

At `EndWait` the addresses are above the top of the stack (`Words` counts what the loop
left) but have not been overwritten; they are threads of the task, the counter counts
those that have yet to stop, and is zero: `WaitSucceedsProperly`.

**Refinement.** Init maps to `ForkJoin`'s Init. `RunSpawn` is a `Fork`,
`CreateThread` a `Start`, `JoinThread` a `Collect`, `EndJoin` a `Resume`
(`NoKidsAfterLoop`: the children it requires to be collected are), `ExitThread` a
`Stop`, the main thread's first and last steps are `Begin` and `Finish`; every
other step leaves the mapped variables alone (`UnseenInstruction`, `UnseenCall`).
`TasksAreTrees` then carries the theorems of `ForkJoin` over to the interpreter.

**ForkJoin.** The inductive invariant is `TypeOK /\ Structured /\ Rooted`.
`Structured` gives every task but the root exactly one parent, which does not
exclude a ring of tasks that wait for each other while the root has gone on;
`Rooted`, that any set of tasks has a member with a parent outside the set,
does. `RootAlone` is `Rooted` for the set of all tasks but the root: the parent
outside can only be the root, and it has children only inside a fork.

**Only model-checked:**

- Programs in which a joined task waits: no run and no theorem is about the
  counters of such programs, of which `RunningCountsLive` is not true (see
  Assumptions). The theorems for "all" programs hold of them.
- `Terminates`: liveness is out of TLAPS's reach.
- That memory suffices: `EndsProperly` allows `no_memory`, the runs have as many
  blocks as their programs need.
- `Lex`, `Parse`, `Language`, `Source`, `Compile`, `Meaning` and `Driver`: their
  operators are recursive, and what they compute needs induction over texts and
  trees. `Header` is made of folds over the lists of a header.

## 6. Not modelled

- Disassembler, header printer, `parse_print_tree`, the wording of `lex_print`: output
  only.
- The switches `--file-read-test` and `--mem-read-test` (they copy characters),
  `--lex-test` (the loop of `--lex-print` with a comparison), `--help`; command lines
  that mix test switches with compilations; `cs_parse`, which is a library's.
- Names of tasks and `g_n_tasks_created` (only formatted); lengths of sleeps;
  failure of `pthread_create`; memory that runs out in `mpc`.

## 7. Plan

1. *(done)* `Bytecode`, `Compile`, `Programs`, `Exec`, `MCExec`: the interpreter
   on compiled programs; `ExecProof` with the inductive invariant.
2. *(done)* `Numbers`, `Meaning`, `Driver`, `MCDriver`: one `mpc` command over
   several sources, against a reference semantics.
3. *(done)* `Header`: the byte layout of module files, put into `Driver`.
4. *(done)* `ParseTree`, `Lex`, `Parse`, `Language`, `Source`; `Driver` reads
   texts through them.
5. *(done)* `ForkJoin`, `ForkJoinProof`, `ExecForkJoin`.
6. *(done)* `ExecSteps`, `ExecPrintProof`, `ExecJoin`, `ExecJoinProof`,
   `ExecForkJoinProof`: every safety and action property of the runs `fork` and
   `loop`, and the refinement, for all programs that join every spawn.
7. *(done)* `ExecSpawn`, `ExecSpawnProof`, `MCExecWait`: the same for programs with
   `wait` whose joined tasks do not wait.
8. `Header` without the generator's state: the places and sizes of the fields, as far as
   they need no induction over the lists of a header.
