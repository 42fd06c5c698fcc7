------------------------------- MODULE Driver -------------------------------
(***************************************************************************)
(* One run of mpc (mini-pogo.c): every switch --compile or                 *)
(* --compile-header-only on its command line parses a source file, opens   *)
(* the output file, generates code and writes the header and the code.     *)
(* All of them share the file-level variables of compile.c and of its      *)
(* tables, of which compile_init resets only some.                         *)
(***************************************************************************)
EXTENDS Meaning, Header, Parse, FiniteSets

CONSTANTS
  Sources,      \* texts of source files
  Outputs,      \* names of output files
  MaxSwitches,  \* bound on the switches of one command line
  Memory,       \* what an entry of a label list that nothing fills in can hold
  Envs,         \* values of the variables with which compiled code is run
  Fuel          \* bound on the instructions of such a run

VARIABLES
  lx,       \* the variables of lex.c
  c,        \* the variables of compile.c, symbol-table.c and string-table.c
  p_tree,   \* the tree being compiled
  flags,    \* compile_flags: "header" or "code" (which includes the header)
  fout,     \* the output file being written
  disk,     \* the bytes of each output file
  at,       \* where in compile_selectively the driver is
  n         \* switches done

vars == <<lx, c, p_tree, flags, fout, disk, at, n>>

-----------------------------------------------------------------------------
Init ==
  /\ lx = LexBoot /\ c = BootState
  /\ p_tree = NoNode /\ flags = "header" /\ fout \in Outputs
  /\ disk = [f \in Outputs |-> <<>>]
  /\ at = "switch" /\ n = 0

\* The source cannot be opened.
NotFound ==
  /\ at = "switch" /\ n < MaxSwitches
  /\ n' = n + 1
  /\ UNCHANGED <<lx, c, p_tree, flags, fout, disk, at>>

\* lex_set_input_function and parse, which exits at a syntax error and does
\* not return from a comment that the end of the file cuts off.
ParseSource ==
  /\ at = "switch" /\ n < MaxSwitches
  /\ \E text \in Sources : \E result \in {parse(Open(lx, text))} :
       /\ lx' = result.s
       /\ p_tree' = IF Over(result.s) THEN NoNode ELSE result.node
       /\ at' = CASE result.s.type = "HANG" -> "hung"
                  [] result.s.type = "EXIT" -> "exit"
                  [] OTHER -> "open"
  /\ flags' \in {"header", "code"} /\ fout' \in Outputs
  /\ UNCHANGED <<c, disk, n>>

\* The output file cannot be opened.
CannotOpen ==
  /\ at = "open"
  /\ at' = "switch" /\ n' = n + 1
  /\ UNCHANGED <<lx, c, p_tree, flags, fout, disk>>

\* fopen(.., "w") empties the output file before anything is compiled.
OpenOutput ==
  /\ at = "open"
  /\ disk' = [disk EXCEPT ![fout] = <<>>]
  /\ at' = "compile"
  /\ UNCHANGED <<lx, c, p_tree, flags, fout, n>>

GenerateCode_NoInit ==
  /\ at = "compile"
  /\ c' = compile([c EXCEPT !.g_ip = 0], p_tree)
  /\ at' = IF c'.undefined THEN "exit" ELSE "header"
  /\ UNCHANGED <<lx, p_tree, flags, fout, disk, n>>

\* compile_init and compile, which exits if a task is undefined.
GenerateCode ==
  /\ at = "compile"
  /\ c' = compile(compile_init(c), p_tree)
  /\ at' = IF c'.undefined THEN "exit" ELSE "header"
  /\ UNCHANGED <<lx, p_tree, flags, fout, disk, n>>

WriteHeader ==
  /\ at = "header"
  /\ \E entry \in Memory : disk' = [disk EXCEPT ![fout] = bhdr_write(HeaderOf(c), entry)]
  /\ IF flags = "code" THEN at' = "code" /\ n' = n ELSE at' = "switch" /\ n' = n + 1
  /\ UNCHANGED <<lx, c, p_tree, flags, fout>>

WriteCode ==
  /\ at = "code"
  /\ disk' = [disk EXCEPT ![fout] = @ \o CodeBytes(c)]
  /\ at' = "switch" /\ n' = n + 1
  /\ UNCHANGED <<lx, c, p_tree, flags, fout>>

\* No switch is left.
Exit ==
  /\ at = "switch" /\ n > 0
  /\ at' = "exit"
  /\ UNCHANGED <<lx, c, p_tree, flags, fout, disk, n>>

\* mpc has ended, or reads the end of a file for ever.
Exited == at \in {"exit", "hung"} /\ UNCHANGED vars

Next == \/ NotFound \/ ParseSource \/ CannotOpen \/ OpenOutput \/ GenerateCode
        \/ WriteHeader \/ WriteCode \/ Exit \/ Exited

Spec == Init /\ [][Next]_vars

-----------------------------------------------------------------------------
(* Properties.                                                              *)

\* The address at which the code of the k-th task of tree starts: where code
\* generation stands when only the tasks before it have been compiled.
EntryOf(tree, k) ==
  compile(BootState, [tree EXCEPT !.tasks = SubSeq(@, 1, k - 1)]).g_ip

Generated == at \in {"header", "code"}

Code(d) == [a \in 0..d.g_ip-1 |-> d.g_code[a]]

\* What the generator's state is made of.
TypeOK ==
  /\ c.g_ip \in 0..MaxCodeSize
  /\ c.n_labels \in Nat /\ c.suffix \in Nat
  /\ \A l \in DOMAIN c.labels : c.labels[l].backpatch \subseteq 0..c.g_ip-1
  /\ p_tree.nd \in {"NULL", "ND_MODULE_DECLARATION"} /\ fout \in Outputs
  /\ at \in {"switch", "open", "compile", "header", "code", "exit", "hung"}

\* Generated code meets the assumptions that the interpreter is proved under:
\* control stays inside it, prints are bracketed, every address has one depth of
\* the operand stack, spawn statements are unbroken and spawn what they announce,
\* and, if nothing waits, every one of them joins.
WellFormed ==
  Generated =>
    LET code == Code(c)
    IN  /\ ClosedCode(code)
        /\ DepthOf(code, DepthsOf(code))
        /\ PrintRegionOf(code, RegionOf(code))
        /\ SpawnsUnbroken(code, DepthsOf(code), HeldsOf(code))
        /\ (\A a \in DOMAIN code : code[a].op # "OP_WAIT_JUMP") =>
             JoinsEverySpawn(code, DepthsOf(code))

\* Run from its entry, the code of every task, and of the init block, does what
\* the statements of the source say: values, branches, loops, short circuits,
\* prints, and which tasks are spawned, also when the spawn comes before the
\* task.
CompiledMeansSource ==
  Generated =>
    LET names == [a \in {EntryOf(p_tree, k) : k \in DOMAIN p_tree.tasks} |->
                    p_tree.tasks[CHOOSE k \in DOMAIN p_tree.tasks : EntryOf(p_tree, k) = a].name]
        Behaves(a, body) == Implements(Code(c), c.strings, names, a, body, Envs, Fuel)
    IN  /\ Behaves(0, p_tree.init)
        /\ \A k \in DOMAIN p_tree.tasks : Behaves(EntryOf(p_tree, k), p_tree.tasks[k].body)

\* The header's count of labels is that of its list, which it is for the first
\* compilation of a command, and the list is read: bhdr_new allocates it.
LabelsCounted(d) == d.n_labels = Cardinality(DOMAIN d.labels)
LabelsRead(d)    == d.strings # <<>> \/ d.labels = <<>>

\* mpr gets from a file what mpc put into it: the name, the strings in the
\* order of their indices, every label with its address, and the code, whatever
\* the file held before.
ReadsBack ==
  [][at = "code" /\ at' = "switch" /\ LabelsCounted(c) /\ LabelsRead(c) =>
       module_read(disk'[fout]) = [result |-> "module", header |-> HeaderOf(c), code |-> Code(c)]]_vars

\* A file that mpr loads can be executed: each string it prints is in the
\* header's list, and each task it spawns starts at one of the header's labels
\* (exec_add_spawn_task names the child by that label, and has no name for it
\* otherwise).  In particular no file is loaded that mpc left without its code.
LoadedFilesExecutable ==
  LabelsCounted(c) =>
  \A f \in Outputs : \A m \in {module_read(disk[f])} : m.result = "module" =>
    \A a \in DOMAIN m.code :
      /\ m.code[a].op \in Opcodes \ {"OP_BAD"}
      /\ m.code[a].op = "OP_PRINT_STRING" => m.code[a].arg \in 0..Len(m.header.strings)-1
      /\ m.code[a].op = "OP_SPAWN" =>
           \E k \in DOMAIN m.header.labels :
             m.header.labels[k].type = 1 /\ m.header.labels[k].addr = m.code[a].arg

\* The tasks that tree spawns.
RECURSIVE SpawnedBy(_)
SpawnedBy(nodes) ==
  IF nodes = <<>> THEN {}
  ELSE LET node == Head(nodes)
       IN  SpawnedBy(Tail(nodes)) \union
           CASE node.nd = "ND_STATEMENT_SEQUENCE" -> SpawnedBy(node.seq)
             [] node.nd = "ND_IF"    -> SpawnedBy(<<node.then, node.else>>)
             [] node.nd = "ND_WHILE" -> SpawnedBy(<<node.body>>)
             [] node.nd = "ND_TASK_DECLARATION" -> SpawnedBy(<<node.body>>)
             [] node.nd = "ND_MODULE_DECLARATION" -> SpawnedBy(<<node.init>> \o node.tasks)
             [] node.nd = "ND_SPAWN_JOIN" ->
                  {node.names[k] : k \in DOMAIN node.names}
                    \union SpawnedBy(<<node.timed_out, node.not_timed_out>>)
             [] OTHER -> {}

Declared(tree) == {tree.tasks[k].name : k \in DOMAIN tree.tasks}

\* No module file gets code in which a task is spawned that the source does
\* not declare.
UndeclaredIsReported ==
  [][at = "compile" /\ at' = "header" => SpawnedBy(<<p_tree>>) \subseteq Declared(p_tree)]_vars

\* Case 2 of compile_ND_SPAWN: a spawned task that is declared, before or after
\* the spawn, is not reported as undefined.
DeclaredIsDefined(d, tree) == d.undefined => ~(SpawnedBy(<<tree>>) \subseteq Declared(tree))

\* The operand of every OP_WAIT_JUMP is an address after the statement's
\* timeout branch ("L0 gets poked here").
WaitJumpsForward(d) ==
  \A a \in 0..d.g_ip-1 : d.g_code[a].op = "OP_WAIT_JUMP" => d.g_code[a].arg > a

\* When compile returns, or finds a task undefined, every spawn statement has
\* been given the addresses that the comments of compile_ND_SPAWN say it gets.
SpawnsAsCommented ==
  [][at = "compile" /\ at' # at =>
       DeclaredIsDefined(c', p_tree) /\ WaitJumpsForward(c')]_vars

\* Every module file with code that the first compilation of a command writes
\* can be loaded ("Allocate new header and arrays contained therein").
WrittenFilesLoad ==
  [][at = "code" /\ at' = "switch" /\ LabelsCounted(c) =>
       module_read(disk'[fout]).result = "module"]_vars
=============================================================================
