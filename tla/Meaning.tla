------------------------------ MODULE Meaning ------------------------------
(***************************************************************************)
(* What a task does, told twice: by its parse tree, and by the code that   *)
(* compile.c generates for it, run by one thread that nobody disturbs.     *)
(* A task's behaviour is the sequence of things it does that others can    *)
(* see, and the values it leaves in its variables.  Whether a 'wait' is    *)
(* late is not the task's doing: it is the parameter late.                 *)
(***************************************************************************)
EXTENDS Compile, Numbers

Does(s, event) == [s EXCEPT !.did = Append(@, event)]

-----------------------------------------------------------------------------
(* The meaning of a tree: an expression's value where the variables have    *)
(* the values env, and the state after a statement that starts in state s.  *)

RECURSIVE Value(_, _)
Value(e, env) ==
  LET l == Value(e.left, env)
      r == Value(e.right, env)
  IN  CASE e.nd = "ND_NUMBER"   -> e.number
        [] e.nd = "ND_VARIABLE" -> env[e.var]
        [] e.nd = "ND_NEGATE"   -> Wrap(-Value(e.expr, env))
        [] e.nd = "ND_NOT" -> Truth(l = 0)
        [] e.nd = "ND_AND" -> IF l = 0 THEN 0 ELSE r
        [] e.nd = "ND_OR"  -> IF l # 0 THEN l ELSE r
        [] e.nd = "ND_ADD" -> Wrap(l + r)
        [] e.nd = "ND_SUBTRACT"  -> Wrap(l - r)
        [] e.nd = "ND_MULTIPLY"  -> Wrap(l * r)
        [] e.nd = "ND_DIVIDE"    -> Wrap(Quotient(l, r))
        [] e.nd = "ND_REMAINDER" -> Wrap(l - Quotient(l, r) * r)
        [] e.nd = "ND_EQ" -> Truth(l = r)
        [] e.nd = "ND_NE" -> Truth(l # r)
        [] e.nd = "ND_LT" -> Truth(l < r)
        [] e.nd = "ND_LE" -> Truth(l <= r)
        [] e.nd = "ND_GT" -> Truth(l > r)
        [] e.nd = "ND_GE" -> Truth(l >= r)

Quiet(env) == [env |-> env, did |-> <<>>, stopped |-> FALSE]

RECURSIVE After(_, _, _), AfterAll(_, _, _)
AfterAll(list, s, late) ==
  IF list = <<>> THEN s ELSE AfterAll(Tail(list), After(Head(list), s, late), late)

After(n, s, late) ==
  LET value == Value(n.expr, s.env)
      taken == Value(n.test, s.env) # 0
  IN  CASE s.stopped \/ n = NoNode -> s
        [] n.nd = "ND_STATEMENT_SEQUENCE" -> AfterAll(n.seq, s, late)
        [] n.nd = "ND_ASSIGN" -> [s EXCEPT !.env[n.var] = value]
        [] n.nd = "ND_IF"     -> After(IF taken THEN n.then ELSE n.else, s, late)
        [] n.nd = "ND_WHILE"  -> IF taken THEN After(n, After(n.body, s, late), late) ELSE s
        [] n.nd = "ND_STOP"   -> [s EXCEPT !.stopped = TRUE]
        [] n.nd = "ND_SLEEP"  -> Does(s, <<"sleep", value>>)
        [] n.nd = "ND_PRINT_INT"    -> Does(s, <<"int", value>>)
        [] n.nd = "ND_PRINT_CHAR"   -> Does(s, <<"char", n.char>>)
        [] n.nd = "ND_PRINT_STRING" -> Does(s, <<"string", n.string>>)
        [] n.nd = "ND_ATOMIC_PRINT" ->
             Does(AfterAll(n.items, Does(s, <<"lock">>), late), <<"unlock">>)
        [] n.nd = "ND_SPAWN_JOIN" ->
             IF n.millisec = NoNode THEN Does(s, <<"join", n.names>>)
             ELSE After(IF late THEN n.timed_out ELSE n.not_timed_out,
                        Does(s, <<"wait", n.names, Value(n.millisec, s.env)>>), late)

-----------------------------------------------------------------------------
(* Running code.  The top of the stack is its head; a child's address takes *)
(* one word here, and tasks[a] is the name of the task that starts at a.    *)

Started(a, env) ==
  [env |-> env, did |-> <<>>, stopped |-> FALSE, ip |-> a, stack |-> <<>>, n |-> 0]

\* The names of the n tasks whose addresses are on top of the stack, in the
\* order in which they were pushed.
Spawned(tasks, stack, n) == [k \in 1..n |-> tasks[stack[n + 1 - k]]]
Dropped(stack, n) == SubSeq(stack, n + 1, Len(stack))

\* The machine has no instruction to run, or not the words or tasks it needs.
Lost(code, tasks, m) ==
  \/ m.ip \notin DOMAIN code
  \/ LET op == code[m.ip].op
         n  == Pops(op) + (IF op \in {"OP_JOIN", "OP_WAIT_JUMP"} THEN m.n ELSE 0)
     IN  \/ Len(m.stack) < n
         \/ op \in {"OP_JOIN", "OP_WAIT_JUMP"} /\
              \E k \in Pops(op)+1..n : m.stack[k] \notin DOMAIN tasks

\* exec_run_task, one instruction.
Step(code, strings, tasks, m, late) ==
  LET op   == code[m.ip].op
      arg  == code[m.ip].arg
      x    == Head(m.stack)
      next == [m EXCEPT !.ip = @ + 1]
      Push(w)      == [next EXCEPT !.stack = <<w>> \o Dropped(@, Pops(op))]
      Pop          == [next EXCEPT !.stack = Dropped(@, Pops(op))]
      JumpIf(p, s) == IF p THEN [s EXCEPT !.ip = arg] ELSE s
      Children(k)  == Spawned(tasks, Dropped(m.stack, k), m.n)
  IN  CASE op = "OP_PUSH_CONST_INT" -> Push(arg)
        [] op = "OP_PUSH_VAR" -> Push(m.env[arg])
        [] op = "OP_POP_INT"  -> [Pop EXCEPT !.env[arg] = x]
        [] op = "OP_NEGATE"   -> Push(Wrap(-x))
        [] op = "OP_NOT"      -> Push(Truth(x = 0))
        [] op \in BinaryOps   -> Push(Binary(op, m.stack[2], x))
        [] op = "OP_JUMP"     -> JumpIf(TRUE, next)
        [] op = "OP_JUMP_IF_ZERO"    -> JumpIf(x = 0, Pop)
        [] op = "OP_JUMP_IF_NONZERO" -> JumpIf(x # 0, Pop)
        [] op = "OP_TEST_AND_JUMP_IF_ZERO"    -> IF x = 0 THEN JumpIf(TRUE, m) ELSE Pop
        [] op = "OP_TEST_AND_JUMP_IF_NONZERO" -> IF x # 0 THEN JumpIf(TRUE, m) ELSE Pop
        [] op = "OP_BEGIN_SPAWN"  -> [next EXCEPT !.n = arg]
        [] op = "OP_SPAWN"        -> Push(arg)
        [] op = "OP_JOIN"         -> Does([next EXCEPT !.stack = Dropped(@, m.n)],
                                          <<"join", Children(0)>>)
        [] op = "OP_WAIT_JUMP"    -> Does(JumpIf(~late, [Pop EXCEPT !.stack = Dropped(@, m.n)]),
                                          <<"wait", Children(1), x>>)
        [] op = "OP_SLEEP"        -> Does(Pop, <<"sleep", x>>)
        [] op = "OP_PRINT_INT"    -> Does(Pop, <<"int", x>>)
        [] op = "OP_PRINT_CHAR"   -> Does(next, <<"char", arg>>)
        [] op = "OP_PRINT_STRING" -> Does(next, <<"string", strings[arg + 1]>>)
        [] op = "OP_BEGIN_ATOMIC_PRINT" -> Does(next, <<"lock">>)
        [] op = "OP_END_ATOMIC_PRINT"   -> Does(next, <<"unlock">>)
        [] op = "OP_END_TASK" -> [m EXCEPT !.stopped = TRUE]

RECURSIVE Run(_, _, _, _, _, _)
Run(code, strings, tasks, m, late, fuel) ==
  CASE m.stopped -> m
    [] fuel = 0 \/ Lost(code, tasks, m) -> Does(m, <<"lost">>)
    [] OTHER -> Run(code, strings, tasks, Step(code, strings, tasks, m, late), late, fuel - 1)

\* The code at address a does what the statements of body say.
Implements(code, strings, tasks, a, body, envs, fuel) ==
  \A env \in envs, late \in BOOLEAN :
    LET m == Run(code, strings, tasks, Started(a, env), late, fuel)
        s == After(body, Quiet(env), late)
    IN  m.stopped /\ m.stack = <<>> /\ m.did = s.did /\ m.env = s.env
=============================================================================
