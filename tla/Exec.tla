-------------------------------- MODULE Exec --------------------------------
(***************************************************************************)
(* The mini-pogo interpreter (exec.c): every task of a module is a POSIX   *)
(* thread that runs exec_run_task over the shared code block.  A step of   *)
(* this specification is one instruction of one thread, except that the    *)
(* instructions that touch memory of another task are cut where another    *)
(* thread can get in between: OP_JOIN and OP_WAIT_JUMP around every        *)
(* pthread_create, counter update and pthread_join, OP_END_TASK between    *)
(* its load of the parent's counter and its fetch_sub.                     *)
(*                                                                         *)
(* The compiled program is the constant Code.  Undefined behaviour (wild   *)
(* or freed memory) and abort() end a behaviour by setting proc; the       *)
(* properties say which of these ends are impossible.                      *)
(*                                                                         *)
(* An operator named Action_Slip is Action with a slip in it.  It is part  *)
(* of no specification: replacing Action by it shows that the properties   *)
(* notice the slip.                                                        *)
(***************************************************************************)
EXTENDS Bytecode, Numbers, Sequences, FiniteSets

CONSTANTS
  Code,         \* address -> INSTRUCTION  (mod_p_code)
  PrintRegion,  \* addresses inside 'print' statements of Code
  Depth,        \* address -> depth of the operand stack the compiler intends
  Tasks,        \* TASK blocks malloc can hand out: the heap bound
  RootTask,     \* the block of the init task (mod_p_init_task)
  NoTask,       \* NULL
  StackSize,    \* STACK_SIZE
  VarBase,      \* stack index that task_variables['A'] denotes (see below)
  NVars,        \* 26 in the code
  CounterMod    \* 2^32: the counters are atomic_uint

ASSUME CodeAssumption ==
  /\ DOMAIN Code \subseteq Nat
  /\ Code \in [DOMAIN Code -> INSTRUCTION]
  /\ ClosedCode(Code)
  /\ \A a \in DOMAIN Code :
       Code[a].op \in {"OP_PUSH_VAR", "OP_POP_INT"} => Code[a].arg \in 0..NVars-1
  /\ \A a \in DOMAIN Code :
       /\ Code[a].op = "OP_BEGIN_SPAWN" => Code[a].arg \in Nat
       /\ Code[a].op = "OP_PUSH_CONST_INT" => Code[a].arg \in -(MaxInt+1)..MaxInt

ASSUME DepthAssumption == DepthOf(Code, Depth)

ASSUME RegionAssumption == PrintRegionOf(Code, PrintRegion)

ASSUME TaskAssumption ==
  /\ IsFiniteSet(Tasks)
  /\ RootTask \in Tasks
  /\ NoTask \notin Tasks
  /\ CounterMod \in Nat \ {0} /\ Cardinality(Tasks) < CounterMod

ASSUME MemoryAssumption ==
  /\ StackSize \in Nat /\ NVars \in Nat /\ VarBase \in Nat /\ MaxInt \in Nat \ {0}
  /\ VarBase + NVars <= StackSize

VARIABLES
  heap,             \* TASK blocks now allocated
  parent,           \* task_p_parent
  ip,               \* task_ip
  stack,            \* task_stack
  top,              \* task_stack_top
  n_spawn_tasks,    \* task_n_spawn_tasks
  n_spawn_running,  \* task_n_spawn_running
  thread,           \* where in exec.c the thread of a task is
  i,                \* loop index of exec_run_spawn / exec_run_then_join_spawn
  print_mtx,        \* owner of g_print_mtx
  out,              \* stdout: what was printed, by whom, from which address
  main,             \* where exec_run_module_at_init_code is
  proc              \* the process: running, or how it ended

taskVars == <<heap, parent>>
regs     == <<ip, stack, top>>
spawnVars== <<n_spawn_tasks, n_spawn_running, i>>
ioVars   == <<print_mtx, out>>
shared   == <<heap, parent, print_mtx, out, main, proc>>
vars == <<heap, parent, ip, stack, top, n_spawn_tasks, n_spawn_running,
          thread, i, print_mtx, out, main, proc>>

-----------------------------------------------------------------------------
(* Words of a task's stack.  An int, or one half of a TASK pointer pushed   *)
(* by OP_SPAWN (which never makes the init task); a half read as a number,  *)
(* like a word never written, is an arbitrary number.  task_variables has   *)
(* 26 elements but is indexed with the letter itself ('A' = 65), so in the  *)
(* build the variable with letter v is word v - 26 of task_stack: 'A' is    *)
(* word 39, VarBase.                                                        *)

Junk  == <<"junk", 0>>
Word  == ({"int"} \X Ints) \union ({"lo", "hi"} \X (Tasks \ {RootTask})) \union {Junk}

Num(n)       == <<"int", n>>
IntValues(w) == IF w[1] = "int" THEN {w[2]} ELSE Ints
VarSlot(v)   == VarBase + v

-----------------------------------------------------------------------------
At(t, where) == proc = "running" /\ thread[t] = where
Become(t, where) == thread' = [thread EXCEPT ![t] = where]
Op(t)  == Code[ip[t]].op
Arg(t) == Code[ip[t]].arg
Goto(t, a)  == ip' = [ip EXCEPT ![t] = a]
Advance(t)  == Goto(t, ip[t] + 1)
Peek(t, k)  == stack[t][top[t] - 1 - k]   \* STACK_PEEK
SetTop(t, n)== top' = [top EXCEPT ![t] = n]
Poke(t, j, w) == stack' = [stack EXCEPT ![t][j] = w]

\* The instruction's words are on the stack and its result fits.
StackOK(t) == /\ top[t] >= Pops(Op(t))
              /\ top[t] - Pops(Op(t)) + Pushes(Op(t)) <= StackSize

\* The thread of t is about to execute an instruction with opcode in ops.
Executes(t, ops) ==
  At(t, "run") /\ main # "exit" /\ Op(t) \in ops /\ StackOK(t)

\* The process ends in the way named, everything else stays as it was.
Crash(how) ==
  /\ proc' = how
  /\ UNCHANGED <<taskVars, regs, spawnVars, thread, ioVars, main>>

\* What an instruction that works on its own task's registers leaves alone.
OnlyRegs == UNCHANGED <<shared, spawnVars, thread>>

-----------------------------------------------------------------------------
(* Instructions that touch only the task that runs them.                    *)

PushConst(t) ==
  /\ Executes(t, {"OP_PUSH_CONST_INT"})
  /\ Poke(t, top[t], Num(Arg(t))) /\ SetTop(t, top[t] + 1) /\ Advance(t)
  /\ OnlyRegs

PushVar(t) ==
  /\ Executes(t, {"OP_PUSH_VAR"})
  /\ \E n \in IntValues(stack[t][VarSlot(Arg(t))]) : Poke(t, top[t], Num(n))
  /\ SetTop(t, top[t] + 1) /\ Advance(t)
  /\ OnlyRegs

PopInt_NextVariable(t) ==
  /\ Executes(t, {"OP_POP_INT"})
  /\ \E n \in IntValues(Peek(t, 0)) : Poke(t, VarSlot(Arg(t)) + 1, Num(n))
  /\ SetTop(t, top[t] - 1) /\ Advance(t)
  /\ OnlyRegs

PopInt(t) ==
  /\ Executes(t, {"OP_POP_INT"})
  /\ \E n \in IntValues(Peek(t, 0)) : Poke(t, VarSlot(Arg(t)), Num(n))
  /\ SetTop(t, top[t] - 1) /\ Advance(t)
  /\ OnlyRegs

UnaryOp(t) ==
  /\ Executes(t, UnaryOps)
  /\ \E n \in IntValues(Peek(t, 0)) :
       Poke(t, top[t] - 1, Num(IF Op(t) = "OP_NEGATE" THEN Wrap(-n) ELSE Truth(n = 0)))
  /\ Advance(t)
  /\ UNCHANGED top
  /\ OnlyRegs

BinaryOp(t) ==
  /\ Executes(t, BinaryOps)
  /\ \E x \in IntValues(Peek(t, 0)), y \in IntValues(Peek(t, 1)) :
       IF Traps(Op(t), y, x)
         THEN Crash("sigfpe")
         ELSE /\ Poke(t, top[t] - 2, Num(Binary(Op(t), y, x)))
              /\ SetTop(t, top[t] - 1) /\ Advance(t)
              /\ OnlyRegs

Jump(t) ==
  /\ Executes(t, {"OP_JUMP"})
  /\ Goto(t, Arg(t))
  /\ UNCHANGED <<stack, top>>
  /\ OnlyRegs

\* OP_JUMP_IF_ZERO, OP_JUMP_IF_NONZERO: always pop.
CondJump(t) ==
  /\ Executes(t, CondJumps)
  /\ \E n \in IntValues(Peek(t, 0)) :
       IF (n = 0) = (Op(t) = "OP_JUMP_IF_ZERO") THEN Goto(t, Arg(t)) ELSE Advance(t)
  /\ SetTop(t, top[t] - 1)
  /\ UNCHANGED stack
  /\ OnlyRegs

\* OP_TEST_AND_JUMP_IF_ZERO, .._NONZERO: drop only when falling through.
TestJump(t) ==
  /\ Executes(t, TestJumps)
  /\ \E n \in IntValues(Peek(t, 0)) :
       IF (n = 0) = (Op(t) = "OP_TEST_AND_JUMP_IF_ZERO")
         THEN Goto(t, Arg(t)) /\ UNCHANGED top
         ELSE Advance(t) /\ SetTop(t, top[t] - 1)
  /\ UNCHANGED stack
  /\ OnlyRegs

\* The opcode OP_BAD, and a stack that under- or overflows.
BadInstruction(t) ==
  /\ At(t, "run") /\ main # "exit"
  /\ Op(t) = "OP_BAD" \/ ~StackOK(t)
  /\ Crash(IF StackOK(t) THEN "op_bad" ELSE "stack")

-----------------------------------------------------------------------------
(* Output.                                                                  *)

WriteOut(t, what) ==
  out' = Append(out, [by |-> t, at |-> ip[t], what |-> what])

PrintInt(t) ==
  /\ Executes(t, {"OP_PRINT_INT"})
  /\ \E n \in IntValues(Peek(t, 0)) : WriteOut(t, n)
  /\ SetTop(t, top[t] - 1) /\ Advance(t)
  /\ UNCHANGED <<taskVars, stack, spawnVars, thread, print_mtx, main, proc>>

\* OP_PRINT_CHAR and OP_PRINT_STRING: the operand is a character, or the
\* index of a string in the header's string list.
PrintText(t) ==
  /\ Executes(t, {"OP_PRINT_CHAR", "OP_PRINT_STRING"})
  /\ WriteOut(t, Arg(t)) /\ Advance(t)
  /\ UNCHANGED <<taskVars, stack, top, spawnVars, thread, print_mtx, main, proc>>

BeginAtomicPrint_NoLock(t) ==
  /\ Executes(t, {"OP_BEGIN_ATOMIC_PRINT"})
  /\ print_mtx' = t /\ Advance(t)
  /\ UNCHANGED <<taskVars, stack, top, spawnVars, thread, out, main, proc>>

BeginAtomicPrint(t) ==
  /\ Executes(t, {"OP_BEGIN_ATOMIC_PRINT"})
  /\ print_mtx = NoTask
  /\ print_mtx' = t /\ Advance(t)
  /\ UNCHANGED <<taskVars, stack, top, spawnVars, thread, out, main, proc>>

EndAtomicPrint_NoUnlock(t) ==
  /\ Executes(t, {"OP_END_ATOMIC_PRINT"})
  /\ Advance(t)
  /\ UNCHANGED <<shared, stack, top, spawnVars, thread>>

EndAtomicPrint(t) ==
  /\ Executes(t, {"OP_END_ATOMIC_PRINT"})
  /\ print_mtx' = NoTask /\ Advance(t)
  /\ UNCHANGED <<taskVars, stack, top, spawnVars, thread, out, main, proc>>

-----------------------------------------------------------------------------
(* Spawning.                                                                *)

\* exec_create_task on a block c that malloc returned.
NewTask(c, p) ==
  /\ heap' = heap \union {c}
  /\ parent' = [parent EXCEPT ![c] = p]
  /\ n_spawn_running' = [n_spawn_running EXCEPT ![c] = 0]

FreshStack == [j \in 0..StackSize-1 |->
                 IF j \in {VarSlot(v) : v \in 0..NVars-1} THEN Num(0) ELSE Junk]

BeginSpawn(t) ==
  /\ Executes(t, {"OP_BEGIN_SPAWN"})
  /\ n_spawn_tasks' = [n_spawn_tasks EXCEPT ![t] = Arg(t)]
  /\ Advance(t)
  /\ UNCHANGED <<shared, stack, top, n_spawn_running, i, thread>>

\* OP_SPAWN: allocate the child, push the halves of its address, low first.
Spawn(t) ==
  /\ Executes(t, {"OP_SPAWN"})
  /\ \E c \in Tasks \ heap :
       /\ NewTask(c, t)
       /\ thread' = [thread EXCEPT ![c] = "none"]
       /\ ip' = [ip EXCEPT ![c] = Arg(t), ![t] = ip[t] + 1]
       /\ top' = [top EXCEPT ![c] = 0, ![t] = top[t] + 2]
       /\ stack' = [stack EXCEPT ![c] = FreshStack,
                                 ![t][top[t]] = <<"lo", c>>,
                                 ![t][top[t] + 1] = <<"hi", c>>]
  /\ UNCHANGED <<n_spawn_tasks, i, ioVars, main, proc>>

\* malloc returned NULL and exec_create_task wrote through it.
SpawnNoMemory(t) ==
  /\ Executes(t, {"OP_SPAWN"}) /\ heap = Tasks
  /\ Crash("no_memory")

\* exec_top_of_stack_to_ptr(t, 2*k), NoTask if the words are no pointer.
Child(t, k) ==
  IF /\ top[t] >= 2*k + 2
     /\ Peek(t, 2*k)[1] = "hi" /\ Peek(t, 2*k + 1) = <<"lo", Peek(t, 2*k)[2]>>
    THEN Peek(t, 2*k)[2] ELSE NoTask

RunSpawn_PeriodStays(t) ==
  /\ Executes(t, {"OP_JOIN", "OP_WAIT_JUMP"})
  /\ i' = [i EXCEPT ![t] = 0]
  /\ Become(t, "spawn")
  /\ UNCHANGED <<shared, ip, stack, top, n_spawn_tasks, n_spawn_running>>

\* OP_JOIN and OP_WAIT_JUMP (which first pops its period) call exec_run_spawn.
RunSpawn(t) ==
  /\ Executes(t, {"OP_JOIN", "OP_WAIT_JUMP"})
  /\ SetTop(t, top[t] - Pops(Op(t)))
  /\ i' = [i EXCEPT ![t] = 0]
  /\ Become(t, "spawn")
  /\ UNCHANGED <<shared, ip, stack, n_spawn_tasks, n_spawn_running>>

\* One pthread_create.  The new thread may run before this one goes on.
CreateThread(t) ==
  /\ At(t, "spawn") /\ i[t] < n_spawn_tasks[t]
  /\ IF Child(t, i[t]) \in heap /\ thread[Child(t, i[t])] = "none"
       THEN /\ thread' = [thread EXCEPT ![Child(t, i[t])] = "created", ![t] = "count"]
            /\ UNCHANGED <<shared, regs, spawnVars>>
       ELSE Crash("wild_pointer")

CountThread_OncePerStatement(t) ==
  /\ At(t, "count")
  /\ n_spawn_running' = [n_spawn_running EXCEPT ![t] = IF i[t] = 0 THEN @ + 1 ELSE @]
  /\ i' = [i EXCEPT ![t] = @ + 1]
  /\ Become(t, "spawn")
  /\ UNCHANGED <<shared, regs, n_spawn_tasks>>

\* task_n_spawn_running += 1
CountThread(t) ==
  /\ At(t, "count")
  /\ n_spawn_running' = [n_spawn_running EXCEPT
                           ![t] = IF @ = CounterMod - 1 THEN 0 ELSE @ + 1]
  /\ i' = [i EXCEPT ![t] = @ + 1]
  /\ Become(t, "spawn")
  /\ UNCHANGED <<shared, regs, n_spawn_tasks>>

-----------------------------------------------------------------------------
(* OP_JOIN after exec_run_spawn.                                            *)

BeginJoin(t) ==
  /\ At(t, "spawn") /\ i[t] = n_spawn_tasks[t] /\ Op(t) = "OP_JOIN"
  /\ i' = [i EXCEPT ![t] = 0]
  /\ Become(t, "join")
  /\ UNCHANGED <<shared, regs, n_spawn_tasks, n_spawn_running>>

JoinThread_NoJoin(t) ==
  /\ At(t, "join") /\ i[t] < n_spawn_tasks[t]
  /\ heap' = heap \ {Child(t, 0)}
  /\ SetTop(t, top[t] - 2)
  /\ i' = [i EXCEPT ![t] = @ + 1]
  /\ UNCHANGED <<parent, ip, stack, n_spawn_tasks, n_spawn_running,
                 thread, ioVars, main, proc>>

JoinThread_OneDrop(t) ==
  /\ At(t, "join") /\ i[t] < n_spawn_tasks[t]
  /\ Child(t, 0) \in heap /\ thread[Child(t, 0)] = "exited"
  /\ heap' = heap \ {Child(t, 0)}
  /\ SetTop(t, top[t] - 1)
  /\ i' = [i EXCEPT ![t] = @ + 1]
  /\ UNCHANGED <<parent, ip, stack, n_spawn_tasks, n_spawn_running,
                 thread, ioVars, main, proc>>

\* pthread_join, free and two STACK_DROPs for the child on top of the stack: a
\* pointer that CreateThread has used, in words only this thread writes.
JoinThread(t) ==
  /\ At(t, "join") /\ i[t] < n_spawn_tasks[t]
  /\ Child(t, 0) \in heap /\ thread[Child(t, 0)] = "exited"
  /\ heap' = heap \ {Child(t, 0)}
  /\ SetTop(t, top[t] - 2)
  /\ i' = [i EXCEPT ![t] = @ + 1]
  /\ UNCHANGED <<parent, ip, stack, n_spawn_tasks, n_spawn_running,
                 thread, ioVars, main, proc>>

EndJoin_AfterFirst(t) ==
  /\ At(t, "join") /\ i[t] = 1
  /\ IF n_spawn_running[t] = 0
       THEN /\ Advance(t) /\ Become(t, "run")
            /\ UNCHANGED <<shared, stack, top, spawnVars>>
       ELSE Crash("assert_join")

\* assert(task_n_spawn_running == 0)
EndJoin(t) ==
  /\ At(t, "join") /\ i[t] = n_spawn_tasks[t]
  /\ IF n_spawn_running[t] = 0
       THEN /\ Advance(t) /\ Become(t, "run")
            /\ UNCHANGED <<shared, stack, top, spawnVars>>
       ELSE Crash("assert_join")

-----------------------------------------------------------------------------
(* OP_WAIT_JUMP after exec_run_spawn, and OP_SLEEP.                         *)

BeginWait_PeriodAgain(t) ==
  /\ At(t, "spawn") /\ i[t] = n_spawn_tasks[t] /\ Op(t) = "OP_WAIT_JUMP"
  /\ IF top[t] >= 2 * n_spawn_tasks[t] + 1
       THEN /\ SetTop(t, top[t] - 2 * n_spawn_tasks[t] - 1)
            /\ Become(t, "wait")
            /\ UNCHANGED <<shared, ip, stack, spawnVars>>
       ELSE Crash("stack")

\* The child pointers are dropped, one word for each, and nanosleep is called.
BeginWait(t) ==
  /\ At(t, "spawn") /\ i[t] = n_spawn_tasks[t] /\ Op(t) = "OP_WAIT_JUMP"
  /\ IF top[t] >= n_spawn_tasks[t]
       THEN /\ SetTop(t, top[t] - n_spawn_tasks[t])
            /\ Become(t, "wait")
            /\ UNCHANGED <<shared, ip, stack, spawnVars>>
       ELSE Crash("stack")

\* nanosleep returned: jump if no task is counted as running.
EndWait(t) ==
  /\ At(t, "wait") /\ (main # "exit" \/ n_spawn_running[t] # 0)
  /\ IF n_spawn_running[t] = 0 THEN Goto(t, Arg(t)) ELSE Advance(t)
  /\ Become(t, "run")
  /\ UNCHANGED <<shared, stack, top, spawnVars>>

BeginSleep(t) ==
  /\ Executes(t, {"OP_SLEEP"})
  /\ SetTop(t, top[t] - 1) /\ Become(t, "sleep")
  /\ UNCHANGED <<shared, ip, stack, spawnVars>>

EndSleep(t) ==
  /\ At(t, "sleep")
  /\ Advance(t) /\ Become(t, "run")
  /\ UNCHANGED <<shared, stack, top, spawnVars>>

-----------------------------------------------------------------------------
(* Start and end of a task.                                                 *)

StartTask(t) ==
  /\ At(t, "created") /\ main # "exit"
  /\ Become(t, "run")
  /\ UNCHANGED <<shared, regs, spawnVars>>

EndTask_NotCounted(t) ==
  /\ Executes(t, {"OP_END_TASK"})
  /\ Become(t, "exiting")
  /\ UNCHANGED <<shared, regs, spawnVars>>

EndTask(t) ==
  /\ Executes(t, {"OP_END_TASK"})
  /\ Become(t, IF parent[t] = NoTask THEN "exiting" ELSE "end")
  /\ UNCHANGED <<shared, regs, spawnVars>>

\* n_siblings_running = atomic_load(..); assert(n_siblings_running > 0)
CheckSiblings(t) ==
  /\ At(t, "end") /\ parent[t] \in heap
  /\ IF n_spawn_running[parent[t]] > 0
       THEN /\ Become(t, "sub")
            /\ UNCHANGED <<shared, regs, spawnVars>>
       ELSE Crash("assert_siblings")

CountDown_Signed(t) ==
  /\ At(t, "sub") /\ parent[t] \in heap
  /\ n_spawn_running' = [n_spawn_running EXCEPT ![parent[t]] = @ - 1]
  /\ Become(t, "exiting")
  /\ UNCHANGED <<shared, regs, n_spawn_tasks, i>>

\* atomic_fetch_sub(..)
CountDown(t) ==
  /\ At(t, "sub") /\ parent[t] \in heap
  /\ n_spawn_running' = [n_spawn_running EXCEPT
                           ![parent[t]] = IF @ = 0 THEN CounterMod - 1 ELSE @ - 1]
  /\ Become(t, "exiting")
  /\ UNCHANGED <<shared, regs, n_spawn_tasks, i>>

\* pthread_exit
ExitThread(t) ==
  /\ At(t, "exiting")
  /\ Become(t, "exited")
  /\ UNCHANGED <<shared, regs, spawnVars>>

\* A thread reads the module after module_free, or its parent's block after
\* the block was freed.
TouchFreed(t) ==
  /\ proc = "running"
  /\ \/ main = "exit" /\ thread[t] \in {"created", "run"}
     \/ main = "exit" /\ thread[t] = "wait" /\ n_spawn_running[t] = 0
     \/ thread[t] \in {"end", "sub"} /\ parent[t] \notin heap
  /\ Crash("use_after_free")

-----------------------------------------------------------------------------
(* The main thread: exec_run_module_at_init_code.                           *)

MainStart ==
  /\ proc = "running" /\ main = "start"
  /\ NewTask(RootTask, NoTask)
  /\ ip' = [ip EXCEPT ![RootTask] = 0]
  /\ top' = [top EXCEPT ![RootTask] = 0]
  /\ stack' = [stack EXCEPT ![RootTask] = FreshStack]
  /\ Become(RootTask, "created")
  /\ main' = "join"
  /\ UNCHANGED <<n_spawn_tasks, i, ioVars, proc>>

\* fopen or module_read failed.
MainNoModule ==
  /\ proc = "running" /\ main = "start"
  /\ proc' = "exited"
  /\ UNCHANGED <<taskVars, regs, spawnVars, thread, ioVars, main>>

MainJoin_TooEarly ==
  /\ proc = "running" /\ main = "join"
  /\ main' = "free"
  /\ UNCHANGED <<taskVars, regs, spawnVars, thread, ioVars, proc>>

MainJoin ==
  /\ proc = "running" /\ main = "join" /\ thread[RootTask] = "exited"
  /\ main' = "free"
  /\ UNCHANGED <<taskVars, regs, spawnVars, thread, ioVars, proc>>

\* module_free: the code block and the init task.
MainFree ==
  /\ proc = "running" /\ main = "free"
  /\ heap' = heap \ {RootTask}
  /\ main' = "exit"
  /\ UNCHANGED <<parent, regs, spawnVars, thread, ioVars, proc>>

\* main returns, which ends every thread.
MainExit ==
  /\ proc = "running" /\ main = "exit"
  /\ proc' = "exited"
  /\ UNCHANGED <<taskVars, regs, spawnVars, thread, ioVars, main>>

-----------------------------------------------------------------------------
Init ==
  /\ heap = {}
  /\ parent = [t \in Tasks |-> NoTask]
  /\ ip = [t \in Tasks |-> 0]
  /\ stack = [t \in Tasks |-> [j \in 0..StackSize-1 |-> Junk]]
  /\ top = [t \in Tasks |-> 0]
  /\ n_spawn_tasks = [t \in Tasks |-> 0]
  /\ n_spawn_running = [t \in Tasks |-> 0]
  /\ thread = [t \in Tasks |-> "none"]
  /\ i = [t \in Tasks |-> 0]
  /\ print_mtx = NoTask
  /\ out = <<>>
  /\ main = "start"
  /\ proc = "running"

Instruction(t) ==
  \/ PushConst(t) \/ PushVar(t) \/ PopInt(t) \/ UnaryOp(t) \/ BinaryOp(t)
  \/ Jump(t) \/ CondJump(t) \/ TestJump(t) \/ BadInstruction(t)
  \/ PrintInt(t) \/ PrintText(t) \/ BeginAtomicPrint(t) \/ EndAtomicPrint(t)
  \/ BeginSpawn(t) \/ Spawn(t) \/ SpawnNoMemory(t) \/ RunSpawn(t)
  \/ BeginSleep(t) \/ EndTask(t)

InsideCall(t) ==
  \/ CreateThread(t) \/ CountThread(t) \/ BeginJoin(t) \/ JoinThread(t)
  \/ EndJoin(t) \/ BeginWait(t) \/ EndWait(t) \/ EndSleep(t)
  \/ StartTask(t) \/ CheckSiblings(t) \/ CountDown(t) \/ ExitThread(t)

TaskStep(t) == Instruction(t) \/ InsideCall(t) \/ TouchFreed(t)

MainThread == MainStart \/ MainNoModule \/ MainJoin \/ MainFree \/ MainExit

\* The process has ended.
Ended == proc # "running" /\ UNCHANGED vars

Next == (\E t \in Tasks : TaskStep(t)) \/ MainThread \/ Ended

Spec == Init /\ [][Next]_vars

\* The kernel runs every thread that can run, and every sleep ends.
Fairness == WF_vars(MainThread) /\ \A t \in Tasks : WF_vars(TaskStep(t))

FairSpec == Spec /\ Fairness

-----------------------------------------------------------------------------
(* Properties.                                                              *)

ThreadStates ==
  {"none", "created", "run", "spawn", "count", "join", "wait", "sleep",
   "end", "sub", "exiting", "exited"}

Ends == {"exited", "op_bad", "stack", "wild_pointer", "no_memory", "sigfpe",
         "assert_siblings", "assert_join", "use_after_free"}

Output == [by : Tasks, at : DOMAIN Code, what : Int]

\* Every variable has its type; ip stays inside the code block, the stack
\* pointer inside the stack, the counters inside their width.
TypeOK ==
  /\ heap \subseteq Tasks
  /\ parent \in [Tasks -> Tasks \union {NoTask}]
  /\ ip \in [Tasks -> DOMAIN Code]
  /\ stack \in [Tasks -> [0..StackSize-1 -> Word]]
  /\ top \in [Tasks -> 0..StackSize]
  /\ n_spawn_tasks \in [Tasks -> Nat]
  /\ n_spawn_running \in [Tasks -> 0..CounterMod-1]
  /\ thread \in [Tasks -> ThreadStates]
  /\ i \in [Tasks -> Nat]
  /\ print_mtx \in Tasks \union {NoTask}
  /\ out \in Seq(Output)
  /\ main \in {"start", "join", "free", "exit"}
  /\ proc \in Ends \union {"running"}

\* A thread that has not started is at the start of a task, and one inside a
\* blocking instruction is at that instruction.
CallsMatchCode ==
  \A t \in Tasks :
    /\ thread[t] \in {"none", "created"} => ip[t] \in Entries(Code)
    /\ thread[t] \in {"spawn", "count"}  => Op(t) \in {"OP_JOIN", "OP_WAIT_JUMP"}
    /\ thread[t] = "join"  => Op(t) = "OP_JOIN"
    /\ thread[t] = "wait"  => Op(t) = "OP_WAIT_JUMP"
    /\ thread[t] = "sleep" => Op(t) = "OP_SLEEP"

\* A block outside the heap has no thread, and the init task's block is in the
\* heap from its creation to module_free.
BlocksInUse ==
  /\ \A t \in Tasks \ heap : thread[t] \in {"none", "exited"}
  /\ main = "start" => heap = {}
  /\ main \in {"join", "free"} => RootTask \in heap
  /\ main = "free" => thread[RootTask] = "exited"

\* g_print_mtx is held by a task exactly while that task is inside a 'print'
\* statement: by one task at a time, and never by one that sleeps, joins,
\* waits, has ended or has been freed.
PrintMtxHeldInPrint ==
  \A t \in Tasks :
    print_mtx = t <=> thread[t] = "run" /\ ip[t] \in PrintRegion

\* The inductive invariant behind TypeOK and PrintMtxHeldInPrint.
IInv == TypeOK /\ CallsMatchCode /\ BlocksInUse /\ PrintMtxHeldInPrint

\* What a 'print' statement writes is not interrupted by another 'print'.
\* Two consecutive outputs of a task come from one execution of a statement
\* if the code between them stays inside it and runs forward.
StdoutAtomic ==
  \A j, k \in DOMAIN out :
    ( /\ j < k /\ out[j].by = out[k].by
      /\ \A m \in j+1..k-1 : out[m].by # out[j].by
      /\ out[j].at < out[k].at /\ out[j].at..out[k].at \subseteq PrintRegion )
    => \A m \in j+1..k-1 : out[m].at \notin PrintRegion

\* Tasks whose threads will still decrement their parent's counter.
Live(t) == t \in heap /\ thread[t] \notin {"none", "exiting", "exited"}
Outstanding(p) == {c \in Tasks : Live(c) /\ parent[c] = p}

\* task_n_spawn_running of a block that is in use counts the threads its task
\* has started and that have yet to stop; it is one behind between a
\* pthread_create and the increment after it, which can take it below zero.
RunningCountsLive ==
  \A p \in heap :
    n_spawn_running[p] =
      (Cardinality(Outstanding(p)) - Truth(thread[p] = "count")) % CounterMod

\* In a program that joins every spawn, a thread's parent, its module and the
\* init task outlive it, and a task that has exited has no live children.
ParentsOutliveChildren ==
  \A t \in Tasks : Live(t) =>
    /\ main = "join"
    /\ t # RootTask => Live(parent[t]) /\ thread[parent[t]] \in {"spawn", "count", "join"}

\* In a program that joins every spawn and does not divide by zero, the process
\* ends by itself, or by the one assertion that a fast child can reach.
EndsByItself ==
  proc \in {"running", "exited", "assert_siblings"}

\* OP_JOIN is a barrier: when a task goes on after it, all the blocks it has
\* spawned have been freed and its counter is zero.
JoinIsBarrier ==
  [][\A t \in Tasks :
       thread[t] = "join" /\ thread'[t] = "run" =>
         n_spawn_running[t] = 0 /\ \A c \in heap : parent[c] # t]_vars

\* A task's block is freed only after its thread has exited.
FreedAfterExit ==
  [][\A t \in heap : t \notin heap' => thread[t] = "exited"]_vars

\* The operand stack has the depth the compiler intended, at every address.
StackDiscipline ==
  \A t \in Tasks : thread[t] = "run" => top[t] = Depth[ip[t]]

\* A variable of a task that exists changes only by an assignment to it.
VariablesChangeByAssignment ==
  [][\A t \in heap, v \in 0..NVars-1 :
       stack'[t][VarSlot(v)] # stack[t][VarSlot(v)] =>
         thread[t] = "run" /\ Code[ip[t]] = [op |-> "OP_POP_INT", arg |-> v]]_vars

\* The tasks of the spawn statement at whose OP_WAIT_JUMP t sleeps: the words
\* above the stack top still hold their addresses.
WaitedFor(t) ==
  {stack[t][top[t] + n_spawn_tasks[t] - 1 - 2*k][2] : k \in 0..n_spawn_tasks[t]-1}

\* 'wait' reports success only when every task of the statement has stopped.
WaitSuccessMeansStopped ==
  [][\A t \in Tasks :
       (/\ thread[t] = "wait" /\ thread'[t] = "run" /\ n_spawn_running[t] = 0)
         => \A c \in WaitedFor(t) : ~Live(c)]_vars

\* exec_run_spawn finds on the stack, for every task of the statement, a block
\* that is allocated and has no thread yet.
ChildrenFound == proc # "wild_pointer"

\* The operand stack is never popped when it is empty: it ends the process only
\* when an instruction's result does not fit.
StackOnlyOverflows ==
  [][proc = "running" /\ proc' = "stack" =>
       \E t \in Tasks :
         thread[t] = "run" /\ top[t] - Pops(Op(t)) + Pushes(Op(t)) > StackSize]_vars

\* No thread uses a block that was freed, until main has disposed of the module
\* and is about to return.
NothingFreedInUse == proc = "use_after_free" => main = "exit"

\* A task of a 'wait' is not joined: its address is lost ("Lose addresses of tasks
\* since we're not joining on them"), and it needs its module as long as it runs
\* ("Module that this task belongs to").  So when the main thread frees the
\* module, the init task's waits have left no word on its stack, and no task runs.
LostTasksLeaveNothing ==
  [][main = "free" /\ main' = "exit" =>
       top[RootTask] = Depth[ip[RootTask]] /\ \A t \in Tasks : ~Live(t)]_vars

\* assert(n_siblings_running > 0) in OP_END_TASK.
SiblingsAssertion == proc # "assert_siblings"

\* assert(p_parent_task->task_n_spawn_running == 0) in OP_JOIN.
JoinAssertion == proc # "assert_join"

\* A program without endless loops ends.
Terminates == <>(proc # "running")
=============================================================================
