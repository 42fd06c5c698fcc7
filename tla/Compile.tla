------------------------------ MODULE Compile -------------------------------
(***************************************************************************)
(* The code generator (compile.c) with the symbol table and the string     *)
(* table it fills (symbol-table.c, string-table.c).                        *)
(*                                                                         *)
(* The generator's file-level variables are the fields of one record, the  *)
(* compiler state c, and every compile_* function is an operator from a    *)
(* state and a parse node to the next state.                               *)
(*                                                                         *)
(* compile() calls itself through every other function, so this module has *)
(* RECURSIVE operators and is for TLC only.                                *)
(***************************************************************************)
EXTENDS Bytecode, ParseTree, Sequences

CONSTANT MaxCodeSize  \* MAX_CODE_SIZE; the code does not check it either

\* The static arrays start as zeroes, and opcode 0 is OP_ADD.
BootState ==
  [g_code   |-> [a \in 0..MaxCodeSize-1 |-> [op |-> "OP_ADD", arg |-> 0]],
   g_ip     |-> 0,
   labels   |-> <<>>,    \* g_hash_labels: name -> LABEL
   n_labels |-> 0,       \* compile.c's own static g_n_labels
   suffix   |-> 0,       \* g_label_suffix_number
   strings  |-> <<>>,    \* g_hash_strings: s_table_index + 1 -> string
   name     |-> "",      \* g_module_name
   undefined |-> FALSE]  \* compile_check_for_undefined_tasks exits

compile_init_KeepsIp(c) ==
  [c EXCEPT !.labels = <<>>, !.strings = <<>>]

\* compile_init: g_code, n_labels and suffix keep what the last compilation left.
compile_init(c) ==
  [c EXCEPT !.labels = <<>>, !.strings = <<>>, !.g_ip = 0]

-----------------------------------------------------------------------------
(* Emitting code.  An instruction emitted without an operand keeps the      *)
(* operand that was in g_code before.                                       *)

EmitOp(c, op) ==
  [c EXCEPT !.g_code[c.g_ip].op = op, !.g_ip = @ + 1]

Emit(c, op, arg) ==
  [c EXCEPT !.g_code[c.g_ip] = [op |-> op, arg |-> arg], !.g_ip = @ + 1]

PokeArg(c, addr, arg) == [c EXCEPT !.g_code[addr].arg = arg]

-----------------------------------------------------------------------------
(* Symbol table.  A bucket of the hash table is searched by name, so the    *)
(* table is a function from names.  A name is a pair: <<task, -1>>, or      *)
(* <<prefix, n>> for the generated '<prefix_n>', which no task can have.    *)

TaskName(name) == <<name, -1>>

symtab_lookup_label(c, name) == name \in DOMAIN c.labels

\* addr_set is a parameter of the C function, which ignores it.  Every caller
\* counts the new label.
symtab_add_label(c, name, addr_set, addr, is_task) ==
  [c EXCEPT
     !.labels = [n \in {name} \union DOMAIN @ |->
                   IF n = name
                     THEN [addr_set |-> FALSE, addr |-> addr,
                           is_task |-> is_task, backpatch |-> {}]
                     ELSE @[n]],
     !.n_labels = @ + 1]

symtab_add_task_label(c, name, addr) == symtab_add_label(c, name, TRUE, addr, TRUE)

symtab_add_forward_ref_task_label(c, name) == symtab_add_label(c, name, FALSE, 0, TRUE)

\* compile_create_label_name and symtab_add_jump_label: a label at g_ip.
AddJumpLabel(c, prefix) ==
  symtab_add_label([c EXCEPT !.suffix = @ + 1], <<prefix, c.suffix>>, TRUE, c.g_ip, FALSE)

symtab_add_backpatch(c, name, addr) ==
  [c EXCEPT !.labels[name].backpatch = @ \union {addr}]

\* compile_check_for_undefined_tasks
compile_check_for_undefined_tasks(c) ==
  [c EXCEPT !.undefined = \E n \in DOMAIN c.labels : c.labels[n].backpatch # {}]

\* strtab_add_string: the index of s, which is added if it is new.
strtab_add_string(c, s) ==
  IF \E k \in DOMAIN c.strings : c.strings[k] = s
    THEN c ELSE [c EXCEPT !.strings = Append(@, s)]

StringIndex(c, s) == (CHOOSE k \in DOMAIN c.strings : c.strings[k] = s) - 1

-----------------------------------------------------------------------------
RECURSIVE compile(_, _), CompileList(_, _)

\* for (p_item = list; p_item; p_item = p_item->l_p_next) compile(p_item->..)
CompileList(c, list) ==
  IF list = <<>> THEN c ELSE CompileList(compile(c, Head(list)), Tail(list))

\* ND_NOT goes through here too.  Its node has no right operand: the pointer
\* read in its place is uninitialised, and NULL in the modelled outcome.
compile_binary_op(c, op, n) == EmitOp(compile(compile(c, n.left), n.right), op)

\* One name of a spawn statement; the operand is 0 until it is backpatched.
SpawnName(c, task) ==
  LET name  == TaskName(task)
      known == symtab_lookup_label(c, name)
      c1    == IF known THEN c ELSE symtab_add_forward_ref_task_label(c, name)
  IN  IF known /\ c.labels[name].addr_set
        THEN Emit(c, "OP_SPAWN", c.labels[name].addr)
        ELSE Emit(symtab_add_backpatch(c1, name, c.g_ip), "OP_SPAWN", 0)

RECURSIVE SpawnNames(_, _)
SpawnNames(c, names) ==
  IF names = <<>> THEN c ELSE SpawnNames(SpawnName(c, Head(names)), Tail(names))

\* The part after the period of 'wait' is compiled as an if statement is.
SpawnTimeout(c, n) ==
  LET wait    == compile(c, n.millisec)
      timeout == EmitOp(compile(EmitOp(wait, "OP_WAIT_JUMP"), n.timed_out), "OP_JUMP")
      else    == IF n.not_timed_out = NoNode THEN timeout
                 ELSE compile(PokeArg(AddJumpLabel(timeout, "ELSE"), wait.g_ip, timeout.g_ip),
                              n.not_timed_out)
  IN  PokeArg(AddJumpLabel(else, "END-SPAWN"), timeout.g_ip - 1, else.g_ip)

compile_ND_SPAWN(c, n) ==
  LET spawned == PokeArg(SpawnNames(EmitOp(c, "OP_BEGIN_SPAWN"), n.names),
                         c.g_ip, Len(n.names))
  IN  IF n.millisec = NoNode THEN EmitOp(spawned, "OP_JOIN") ELSE SpawnTimeout(spawned, n)

\* compile_ND_AND, compile_ND_OR
ShortCircuit(c, n, op, prefix) ==
  LET left  == compile(c, n.left)
      right == compile(Emit(left, op, 0), n.right)
  IN  PokeArg(AddJumpLabel(right, prefix), left.g_ip, right.g_ip)

compile_ND_IF(c, n) ==
  LET test == compile(c, n.test)
      then == compile(Emit(test, "OP_JUMP_IF_ZERO", 0), n.then)
      skip == Emit(then, "OP_JUMP", 0)
      else == compile(PokeArg(AddJumpLabel(skip, "ELSE"), test.g_ip, skip.g_ip), n.else)
  IN  IF n.else = NoNode
        THEN PokeArg(AddJumpLabel(then, "END-IF"), test.g_ip, then.g_ip)
        ELSE PokeArg(AddJumpLabel(else, "END-IF"), then.g_ip, else.g_ip)

compile_ND_WHILE(c, n) ==
  LET test == compile(AddJumpLabel(c, "WHILE"), n.test)
      body == compile(EmitOp(test, "OP_JUMP_IF_ZERO"), n.body)
      loop == Emit(body, "OP_JUMP", c.g_ip)
  IN  AddJumpLabel(PokeArg(loop, test.g_ip, loop.g_ip), "END-WHILE")

compile_ND_PRINT_STRING(c, n) ==
  LET c1 == strtab_add_string(c, n.string)
  IN  Emit(c1, "OP_PRINT_STRING", StringIndex(c1, n.string))

compile_ND_ATOMIC_PRINT(c, n) ==
  EmitOp(CompileList(EmitOp(c, "OP_BEGIN_ATOMIC_PRINT"), n.items), "OP_END_ATOMIC_PRINT")

DefineTask_LastSpawnOnly(c, name) ==
  LET waiting == c.labels[name].backpatch
  IN  [c EXCEPT !.labels[name].addr = c.g_ip, !.labels[name].addr_set = TRUE,
                !.labels[name].backpatch = {},
                !.g_code = [a \in DOMAIN @ |->
                              IF a \in waiting /\ \A b \in waiting : b <= a
                                THEN [@[a] EXCEPT !.arg = c.g_ip] ELSE @[a]]]

\* A label that exists gets its address now, and so do the OP_SPAWNs that wait
\* for it.
DefineTask(c, name) ==
  LET waiting == c.labels[name].backpatch
  IN  [c EXCEPT !.labels[name].addr = c.g_ip, !.labels[name].addr_set = TRUE,
                !.labels[name].backpatch = {},
                !.g_code = [a \in DOMAIN @ |->
                              IF a \in waiting THEN [@[a] EXCEPT !.arg = c.g_ip] ELSE @[a]]]

TaskLabel(c, name) ==
  IF symtab_lookup_label(c, name)
    THEN DefineTask(c, name) ELSE symtab_add_task_label(c, name, c.g_ip)

compile_ND_TASK_DECLARATION_NoStop(c, n) == compile(TaskLabel(c, TaskName(n.name)), n.body)

compile_ND_TASK_DECLARATION(c, n) ==
  EmitOp(compile(TaskLabel(c, TaskName(n.name)), n.body), "OP_END_TASK")

compile_ND_MODULE_DECLARATION(c, n) ==
  CompileList(EmitOp(compile(c, n.init), "OP_END_TASK"), n.tasks)

BinaryNodes ==
  [ND_NOT |-> "OP_NOT", ND_LE |-> "OP_LE", ND_LT |-> "OP_LT", ND_GE |-> "OP_GE",
   ND_GT |-> "OP_GT", ND_EQ |-> "OP_EQ", ND_NE |-> "OP_NE", ND_ADD |-> "OP_ADD",
   ND_SUBTRACT |-> "OP_SUBTRACT", ND_MULTIPLY |-> "OP_MULTIPLY",
   ND_DIVIDE |-> "OP_DIVIDE", ND_REMAINDER |-> "OP_REMAINDER"]

UnaryNodes ==
  [ND_PRINT_INT |-> "OP_PRINT_INT", ND_SLEEP |-> "OP_SLEEP", ND_NEGATE |-> "OP_NEGATE"]

compile(c, n) ==
  CASE n.nd = "ND_MODULE_DECLARATION" ->
         [compile_check_for_undefined_tasks(compile_ND_MODULE_DECLARATION(c, n))
            EXCEPT !.name = n.name]
    [] n.nd = "ND_TASK_DECLARATION"   -> compile_ND_TASK_DECLARATION(c, n)
    [] n.nd = "ND_STATEMENT_SEQUENCE" -> CompileList(c, n.seq)
    [] n.nd = "ND_ASSIGN"     -> Emit(compile(c, n.expr), "OP_POP_INT", n.var)
    [] n.nd = "ND_IF"         -> compile_ND_IF(c, n)
    [] n.nd = "ND_WHILE"      -> compile_ND_WHILE(c, n)
    [] n.nd = "ND_PRINT_CHAR" -> Emit(c, "OP_PRINT_CHAR", n.char)
    [] n.nd = "ND_SPAWN_JOIN" -> compile_ND_SPAWN(c, n)
    [] n.nd = "ND_STOP"       -> EmitOp(c, "OP_END_TASK")
    [] n.nd = "ND_OR"  -> ShortCircuit(c, n, "OP_TEST_AND_JUMP_IF_NONZERO", "OR-SHORT-CIRCUIT")
    [] n.nd = "ND_AND" -> ShortCircuit(c, n, "OP_TEST_AND_JUMP_IF_ZERO", "AND-SHORT-CIRCUIT")
    [] n.nd \in DOMAIN BinaryNodes -> compile_binary_op(c, BinaryNodes[n.nd], n)
    [] n.nd \in DOMAIN UnaryNodes  -> EmitOp(compile(c, n.expr), UnaryNodes[n.nd])
    [] n.nd = "ND_VARIABLE"   -> Emit(c, "OP_PUSH_VAR", n.var)
    [] n.nd = "ND_NUMBER"     -> Emit(c, "OP_PUSH_CONST_INT", n.number)
    [] n.nd = "ND_PRINT_STRING" -> compile_ND_PRINT_STRING(c, n)
    [] n.nd = "ND_ATOMIC_PRINT" -> compile_ND_ATOMIC_PRINT(c, n)
    [] OTHER -> c    \* NULL
=============================================================================
