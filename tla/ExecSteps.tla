------------------------------ MODULE ExecSteps -----------------------------
(***************************************************************************)
(* What the steps of the interpreter do to the parts of its state: lemmas  *)
(* that the proofs of its properties share.                                *)
(***************************************************************************)
EXTENDS ExecProof, FiniteSetTheorems

-----------------------------------------------------------------------------
(* Addresses.                                                               *)

\* The number of tasks of a statement is the operand of its OP_BEGIN_SPAWN.
LEMMA SpawnCountNext ==
  ASSUME NEW a \in DOMAIN Code
  PROVE  SpawnCount(Code, a + 1) =
           IF Code[a].op = "OP_BEGIN_SPAWN" THEN Code[a].arg ELSE SpawnCount(Code, a)
<1> DEFINE begins(x) == {b \in DOMAIN Code : b < x /\ Code[b].op = "OP_BEGIN_SPAWN"}
           last(S) == CHOOSE b \in S : \A d \in S : d <= b
<1>1. \A x : SpawnCount(Code, x) = IF begins(x) = {} THEN 0 ELSE Code[last(begins(x))].arg
  BY DEF SpawnCount
<1>2. DOMAIN Code \subseteq Int
  BY CodeAssumption
<1>3. CASE Code[a].op = "OP_BEGIN_SPAWN"
  <2>1. a \in begins(a + 1) /\ \A b \in begins(a + 1) : b \in Int /\ b <= a
    BY <1>2, <1>3
  <2>2. last(begins(a + 1)) = a
    <3>. HIDE DEF begins
    <3>. QED BY <1>2, <2>1
  <2>. HIDE DEF begins, last
  <2>. QED
    BY <1>1, <1>3, <2>1, <2>2
<1>4. CASE Code[a].op # "OP_BEGIN_SPAWN"
  <2>1. begins(a + 1) = begins(a)
    BY <1>2, <1>4
  <2>. HIDE DEF begins, last
  <2>. QED
    BY <1>1, <1>4, <2>1
<1>. QED
  BY <1>3, <1>4

\* How the depth changes from an address to the next one.
LEMMA DepthStep ==
  /\ Depth \in [DOMAIN Code -> Nat]
  /\ \A a \in Entries(Code) : Depth[a] = 0
  /\ \A a \in DOMAIN Code : \A s \in Successors(Code, a) :
       Depth[s] = Depth[a] + DepthChange(Code, a, s)
  BY DepthAssumption DEF DepthOf

-----------------------------------------------------------------------------
(* Counting.                                                                *)

LEMMA ModBelow ==
  ASSUME NEW x \in Int, -1 <= x, x < CounterMod
  PROVE  x % CounterMod = IF x = -1 THEN CounterMod - 1 ELSE x
  BY TaskAssumption

\* The counter's modulus exceeds the number of tasks.
LEMMA OutstandingType ==
  ASSUME NEW p
  PROVE  /\ IsFiniteSet(Outstanding(p)) /\ Cardinality(Outstanding(p)) \in Nat
         /\ Cardinality(Outstanding(p)) < CounterMod
<1>1. Outstanding(p) \subseteq Tasks
  BY DEF Outstanding
<1>2. IsFiniteSet(Outstanding(p)) /\ Cardinality(Outstanding(p)) <= Cardinality(Tasks)
  BY <1>1, TaskAssumption, FS_Subset
<1>3. Cardinality(Outstanding(p)) \in Nat /\ Cardinality(Tasks) \in Nat
  BY <1>2, TaskAssumption, FS_CardinalityType
<1>. QED
  BY <1>2, <1>3, TaskAssumption

LEMMA EmptyCount == Cardinality({}) = 0
  BY FS_EmptySet

\* A counter keeps being right if no child of its task starts or stops.
LEMMA CountKept ==
  ASSUME RunningCountsLive, NEW p \in heap,
         \A d \in Tasks : Live(d)' /\ parent'[d] = p <=> Live(d) /\ parent[d] = p,
         n_spawn_running'[p] = n_spawn_running[p],
         thread'[p] = "count" <=> thread[p] = "count"
  PROVE  n_spawn_running'[p] =
           (Cardinality(Outstanding(p)') - Truth(thread'[p] = "count")) % CounterMod
<1>1. Outstanding(p)' = Outstanding(p)
  BY DEF Outstanding
<1>. QED
  BY <1>1 DEF RunningCountsLive

-----------------------------------------------------------------------------
(* Tasks.                                                                   *)

\* A step that leaves a task where it was.
Same(u) ==
  /\ thread'[u] = thread[u] /\ ip'[u] = ip[u] /\ top'[u] = top[u] /\ stack'[u] = stack[u]
  /\ n_spawn_tasks'[u] = n_spawn_tasks[u] /\ i'[u] = i[u]

\* A task that executes or blocks is in the heap, and so is the init task.
LEMMA InHeap ==
  ASSUME IInv, NEW t \in Tasks, thread[t] \notin {"none", "exited"}
  PROVE  t \in heap /\ main # "start"
  BY DEF IInv, BlocksInUse

LEMMA InHeapTasks == TypeOK => heap \subseteq Tasks
  BY DEF TypeOK

-----------------------------------------------------------------------------
(* The heap, the output, and the other threads.                             *)

\* Only a join and module_free give a block back.
LEMMA HeapStep ==
  ASSUME Next
  PROVE  heap \subseteq heap' \/ MainFree \/ \E t \in Tasks : JoinThread(t)
<1>. USE DEF OnlyRegs, Crash, shared, regs, taskVars, NewTask, vars
<1>1. ASSUME NEW t \in Tasks, Instruction(t)
      PROVE  heap \subseteq heap'
  BY <1>1 DEF Instruction, PushConst, PushVar, PopInt, UnaryOp, BinaryOp, Jump, CondJump,
     TestJump, BadInstruction, PrintInt, PrintText, BeginAtomicPrint, EndAtomicPrint,
     BeginSpawn, Spawn, SpawnNoMemory, RunSpawn, BeginSleep, EndTask
<1>2. ASSUME NEW t \in Tasks, InsideCall(t) \/ TouchFreed(t), ~JoinThread(t)
      PROVE  heap \subseteq heap'
  BY <1>2 DEF InsideCall, CreateThread, CountThread, BeginJoin, EndJoin, BeginWait, EndWait,
     EndSleep, StartTask, CheckSiblings, CountDown, ExitThread, TouchFreed
<1>3. CASE MainThread
  BY <1>3 DEF MainThread, MainStart, MainNoModule, MainJoin, MainExit
<1>. QED
  BY <1>1, <1>2, <1>3 DEF Next, TaskStep, Ended

Prints(t) == PrintInt(t) \/ PrintText(t)

\* Only print instructions print.
LEMMA OutStep ==
  ASSUME Next
  PROVE  UNCHANGED out \/ \E t \in Tasks : Prints(t)
<1>. USE DEF OnlyRegs, Crash, shared, regs, taskVars, ioVars, vars
<1>1. ASSUME NEW t \in Tasks, Instruction(t), ~Prints(t)
      PROVE  UNCHANGED out
  BY <1>1 DEF Prints, Instruction, PushConst, PushVar, PopInt, UnaryOp, BinaryOp, Jump, CondJump,
     TestJump, BadInstruction, BeginAtomicPrint, EndAtomicPrint,
     BeginSpawn, Spawn, SpawnNoMemory, RunSpawn, BeginSleep, EndTask
<1>2. ASSUME NEW t \in Tasks, InsideCall(t) \/ TouchFreed(t)
      PROVE  UNCHANGED out
  BY <1>2 DEF InsideCall, CreateThread, CountThread, BeginJoin, JoinThread, EndJoin, BeginWait,
     EndWait, EndSleep, StartTask, CheckSiblings, CountDown, ExitThread, TouchFreed
<1>3. CASE MainThread
  BY <1>3 DEF MainThread, MainStart, MainNoModule, MainJoin, MainFree, MainExit
<1>. QED
  BY <1>1, <1>2, <1>3 DEF Next, TaskStep, Ended

\* A step of another thread moves t only to the start of a task.
LEMMA Bystander ==
  ASSUME TypeOK, NEW u \in Tasks, TaskStep(u), NEW t \in Tasks \ {u}
  PROVE  \/ thread'[t] = thread[t] /\ ip'[t] = ip[t]
         \/ thread'[t] \in {"none", "created"}
<1>. USE DEF OnlyRegs, Crash, shared, regs, spawnVars, Executes, At, Become, Goto, Advance, TypeOK
<1>1. CASE Instruction(u)
  BY <1>1 DEF Instruction, PushConst, PushVar, PopInt, UnaryOp, BinaryOp, Jump,
     CondJump, TestJump, BadInstruction, PrintInt, PrintText, BeginAtomicPrint, EndAtomicPrint,
     BeginSpawn, Spawn, SpawnNoMemory, RunSpawn, BeginSleep, EndTask
<1>2. CASE InsideCall(u) \/ TouchFreed(u)
  BY <1>2 DEF InsideCall, CreateThread, CountThread, BeginJoin, JoinThread, EndJoin,
     BeginWait, EndWait, EndSleep, StartTask, CheckSiblings, CountDown, ExitThread, TouchFreed
<1>. QED
  BY <1>1, <1>2 DEF TaskStep

-----------------------------------------------------------------------------
(* Instructions that work on their own task.                                *)

\* Thread t executes an instruction that works on its own task and goes on at
\* address s.
LocalStep(t, s) ==
  /\ thread[t] = "run" /\ s \in Successors(Code, ip[t])
  /\ Op(t) \notin BlockingOps \union {"OP_SPAWN", "OP_END_TASK", "OP_BAD"}
  /\ ip' = [ip EXCEPT ![t] = s]
  /\ top' = [top EXCEPT ![t] = top[t] + DepthChange(Code, ip[t], s)]
  /\ \A u \in Tasks \ {t} : stack'[u] = stack[u]
  /\ n_spawn_tasks' = IF Op(t) = "OP_BEGIN_SPAWN"
                        THEN [n_spawn_tasks EXCEPT ![t] = Arg(t)] ELSE n_spawn_tasks
  /\ UNCHANGED <<heap, parent, n_spawn_running, thread, i, main, proc>>

\* Instructions that go on at the next address.
LEMMA AdvanceStep ==
  ASSUME TypeOK, NEW t \in Tasks, Executes(t, Opcodes), Advance(t),
         Op(t) \notin {"OP_JUMP", "OP_SPAWN", "OP_END_TASK", "OP_BAD"}
                        \union CondJumps \union TestJumps \union BlockingOps,
         NEW n \in Int, SetTop(t, n), n = top[t] + Pushes(Op(t)) - Pops(Op(t)),
         \A u \in Tasks \ {t} : stack'[u] = stack[u],
         Op(t) = "OP_BEGIN_SPAWN" => n_spawn_tasks' = [n_spawn_tasks EXCEPT ![t] = Arg(t)],
         Op(t) # "OP_BEGIN_SPAWN" => UNCHANGED n_spawn_tasks,
         UNCHANGED <<heap, parent, n_spawn_running, thread, i, main, proc>>
  PROVE  LocalStep(t, ip[t] + 1)
<1>1. ip[t] \in DOMAIN Code /\ top[t] \in Nat
  BY MemoryAssumption DEF TypeOK
<1>2. ip[t] + 1 \in Successors(Code, ip[t])
  BY <1>1, NextAddress DEF Op
<1>3. DepthChange(Code, ip[t], ip[t] + 1) = Pushes(Op(t)) - Pops(Op(t))
  BY DEF DepthChange, Op, BlockingOps
<1>4. Pushes(Op(t)) \in Int /\ Pops(Op(t)) \in Int
  BY DEF Pushes, Pops
<1>. QED
  BY <1>1, <1>2, <1>3, <1>4 DEF LocalStep, Executes, At, Advance, Goto, SetTop

\* Every instruction is a local step, ends the process, or is one of four.
LEMMA InstructionEffect ==
  ASSUME TypeOK, NEW t \in Tasks, Instruction(t)
  PROVE  \/ \E how \in Ends : Crash(how)
         \/ \E s \in DOMAIN Code : LocalStep(t, s)
         \/ Spawn(t) \/ RunSpawn(t) \/ BeginSleep(t) \/ EndTask(t)
<1>0. /\ ip[t] \in DOMAIN Code /\ TypeOK /\ top[t] \in 0..StackSize
      /\ stack \in [Tasks -> [0..StackSize-1 -> Word]] /\ top \in [Tasks -> 0..StackSize]
  BY DEF TypeOK
<1>r. top[t] \in Nat /\ top[t] - 1 \in Int /\ top[t] + 1 \in Int /\ ip[t] \in Nat
  BY <1>0, MemoryAssumption, CodeAssumption
<1>. USE DEF OnlyRegs, shared, spawnVars, taskVars, Executes, Poke
<1>1. ASSUME PushConst(t) \/ PushVar(t)
      PROVE  LocalStep(t, ip[t] + 1)
  <2>1. /\ Op(t) \in {"OP_PUSH_CONST_INT", "OP_PUSH_VAR"} /\ Executes(t, Opcodes) /\ Advance(t)
        /\ SetTop(t, top[t] + 1)
        /\ \A u \in Tasks \ {t} : stack'[u] = stack[u]
        /\ UNCHANGED <<heap, parent, n_spawn_tasks, n_spawn_running, thread, i, main, proc>>
    BY <1>0, <1>1 DEF PushConst, PushVar, Opcodes
  <2>2. Pushes(Op(t)) = 1 /\ Pops(Op(t)) = 0
    BY <2>1 DEF Pushes, Pops, BinaryOps, UnaryOps, CondJumps, TestJumps
  <2>. QED
    BY <1>0, <1>r, <2>1, <2>2, AdvanceStep DEF CondJumps, TestJumps, BlockingOps
<1>2. ASSUME PopInt(t) \/ PrintInt(t)
      PROVE  LocalStep(t, ip[t] + 1)
  <2>1. /\ Op(t) \in {"OP_POP_INT", "OP_PRINT_INT"} /\ Executes(t, Opcodes) /\ Advance(t)
        /\ SetTop(t, top[t] - 1)
        /\ \A u \in Tasks \ {t} : stack'[u] = stack[u]
        /\ UNCHANGED <<heap, parent, n_spawn_tasks, n_spawn_running, thread, i, main, proc>>
    BY <1>0, <1>2 DEF PopInt, PrintInt, Opcodes, PrintOps
  <2>2. Pushes(Op(t)) = 0 /\ Pops(Op(t)) = 1
    BY <2>1 DEF Pushes, Pops, BinaryOps, UnaryOps, CondJumps, TestJumps
  <2>. QED
    BY <1>0, <1>r, <2>1, <2>2, AdvanceStep DEF CondJumps, TestJumps, BlockingOps
<1>3. ASSUME UnaryOp(t)
      PROVE  LocalStep(t, ip[t] + 1)
  <2>1. /\ Op(t) \in UnaryOps /\ Executes(t, Opcodes) /\ Advance(t)
        /\ SetTop(t, top[t])
        /\ \A u \in Tasks \ {t} : stack'[u] = stack[u]
        /\ UNCHANGED <<heap, parent, n_spawn_tasks, n_spawn_running, thread, i, main, proc>>
    BY <1>0, <1>3 DEF UnaryOp, Opcodes, SetTop
  <2>2. Pushes(Op(t)) = 1 /\ Pops(Op(t)) = 1
    BY <2>1 DEF Pushes, Pops, BinaryOps, UnaryOps, CondJumps, TestJumps
  <2>. QED
    BY <1>0, <1>r, <2>1, <2>2, AdvanceStep DEF CondJumps, TestJumps, BlockingOps, UnaryOps
<1>4. ASSUME BinaryOp(t)
      PROVE  Crash("sigfpe") \/ LocalStep(t, ip[t] + 1)
  <2>1. Op(t) \in BinaryOps /\ Executes(t, Opcodes)
    BY <1>4 DEF BinaryOp, Opcodes
  <2>2. SUFFICES ASSUME ~Crash("sigfpe") PROVE LocalStep(t, ip[t] + 1)
    OBVIOUS
  <2>3. /\ Advance(t)
        /\ SetTop(t, top[t] - 1)
        /\ \A u \in Tasks \ {t} : stack'[u] = stack[u]
        /\ UNCHANGED <<heap, parent, n_spawn_tasks, n_spawn_running, thread, i, main, proc>>
    BY <1>0, <1>4, <2>2 DEF BinaryOp
  <2>4. Pushes(Op(t)) = 1 /\ Pops(Op(t)) = 2
    BY <2>1 DEF Pushes, Pops, BinaryOps, UnaryOps, CondJumps, TestJumps
  <2>. QED
    BY <1>0, <1>r, <2>1, <2>3, <2>4, AdvanceStep DEF CondJumps, TestJumps, BlockingOps, BinaryOps
<1>5. ASSUME PrintText(t) \/ BeginAtomicPrint(t) \/ EndAtomicPrint(t)
      PROVE  LocalStep(t, ip[t] + 1)
  <2>1. /\ Op(t) \in {"OP_PRINT_CHAR", "OP_PRINT_STRING", "OP_BEGIN_ATOMIC_PRINT",
                      "OP_END_ATOMIC_PRINT"}
        /\ Executes(t, Opcodes) /\ Advance(t) /\ SetTop(t, top[t])
        /\ \A u \in Tasks \ {t} : stack'[u] = stack[u]
        /\ UNCHANGED <<heap, parent, n_spawn_tasks, n_spawn_running, thread, i, main, proc>>
    BY <1>0, <1>5 DEF PrintText, BeginAtomicPrint, EndAtomicPrint, Opcodes, PrintOps, SetTop
  <2>2. Pushes(Op(t)) = 0 /\ Pops(Op(t)) = 0
    BY <2>1 DEF Pushes, Pops, BinaryOps, UnaryOps, CondJumps, TestJumps
  <2>3. /\ Op(t) \notin {"OP_JUMP", "OP_SPAWN", "OP_END_TASK", "OP_BAD"}
                          \union CondJumps \union TestJumps \union BlockingOps
        /\ Op(t) # "OP_BEGIN_SPAWN"
    BY <2>1 DEF CondJumps, TestJumps, BlockingOps
  <2>. QED
    BY <1>0, <1>r, <2>1, <2>2, <2>3, AdvanceStep
<1>6. ASSUME BeginSpawn(t)
      PROVE  LocalStep(t, ip[t] + 1)
  <2>1. /\ Op(t) = "OP_BEGIN_SPAWN"
        /\ Executes(t, Opcodes) /\ Advance(t) /\ SetTop(t, top[t])
        /\ \A u \in Tasks \ {t} : stack'[u] = stack[u]
        /\ n_spawn_tasks' = [n_spawn_tasks EXCEPT ![t] = Arg(t)]
        /\ UNCHANGED <<heap, parent, n_spawn_running, thread, i, main, proc>>
    BY <1>0, <1>6 DEF BeginSpawn, Opcodes, SetTop
  <2>2. Pushes(Op(t)) = 0 /\ Pops(Op(t)) = 0
    BY <2>1 DEF Pushes, Pops, BinaryOps, UnaryOps, CondJumps, TestJumps
  <2>3. Op(t) \notin BlockingOps /\ Op(t) \notin CondJumps \union TestJumps
    BY <2>1 DEF CondJumps, TestJumps, BlockingOps
  <2>4. ip[t] + 1 \in Successors(Code, ip[t])
    BY <1>0, <2>1, <2>3, NextAddress DEF Op
  <2>5. DepthChange(Code, ip[t], ip[t] + 1) = 0
    BY <2>1, <2>2, <2>3 DEF DepthChange, Op, BlockingOps
  <2>6. top[t] + DepthChange(Code, ip[t], ip[t] + 1) = top[t]
    BY <1>r, <2>5
  <2>. QED
    BY <2>1, <2>3, <2>4, <2>6 DEF LocalStep, SetTop, At, Advance, Goto
<1>7. ASSUME Jump(t)
      PROVE  LocalStep(t, Arg(t))
  <2>1. Op(t) = "OP_JUMP" /\ Arg(t) \in Successors(Code, ip[t])
    BY <1>0, <1>7, JumpAddress DEF Jump, Op, Arg
  <2>2. DepthChange(Code, ip[t], Arg(t)) = 0
    BY <2>1 DEF DepthChange, Op, Pushes, Pops, BinaryOps, UnaryOps, CondJumps, TestJumps
  <2>. QED
    BY <1>0, <1>r, <1>7, <2>1, <2>2 DEF Jump, SetTop, Goto, LocalStep, At, BlockingOps
<1>8. ASSUME CondJump(t)
      PROVE  LocalStep(t, Arg(t)) \/ LocalStep(t, ip[t] + 1)
  <2>1. Op(t) \in CondJumps /\ {Arg(t), ip[t] + 1} \subseteq Successors(Code, ip[t])
    BY <1>0, <1>8, JumpAddress, NextAddress DEF CondJump, CondJumps, Op, Arg
  <2>2. \A s \in Successors(Code, ip[t]) : DepthChange(Code, ip[t], s) = -1
    BY <2>1 DEF DepthChange, Op, Pushes, Pops, BinaryOps, UnaryOps, CondJumps, TestJumps
  <2>. QED
    BY <1>0, <1>r, <1>8, <2>1, <2>2 DEF CondJump, SetTop, Advance, Goto, LocalStep, At, BlockingOps, CondJumps
<1>9. ASSUME TestJump(t)
      PROVE  LocalStep(t, Arg(t)) \/ LocalStep(t, ip[t] + 1)
  <2>1. Op(t) \in TestJumps /\ {Arg(t), ip[t] + 1} \subseteq Successors(Code, ip[t])
    BY <1>0, <1>9, JumpAddress, NextAddress DEF TestJump, TestJumps, Op, Arg
  <2>2. Arg(t) # ip[t] + 1
    BY <1>0, <2>1, DepthAssumption DEF DepthOf, Op, Arg
  <2>3. DepthChange(Code, ip[t], Arg(t)) = 0 /\ DepthChange(Code, ip[t], ip[t] + 1) = -1
    BY <2>1, <2>2 DEF DepthChange, Op, Arg, TestJumps
  <2>. QED
    BY <1>0, <1>r, <1>9, <2>1, <2>3 DEF TestJump, SetTop, Advance, Goto, LocalStep, At, BlockingOps, TestJumps
<1>10. ASSUME BadInstruction(t) \/ SpawnNoMemory(t)
      PROVE  \E how \in Ends : Crash(how)
  BY <1>10 DEF BadInstruction, SpawnNoMemory, Ends
<1>11. \A s : LocalStep(t, s) => s \in DOMAIN Code
  BY <1>0, CodeAssumption DEF LocalStep, ClosedCode
<1>. QED
  BY <1>1, <1>2, <1>3, <1>4, <1>5, <1>7, <1>8, <1>9, <1>10, <1>11, <1>6 DEF Instruction, Ends

-----------------------------------------------------------------------------
\* A task's block is given back only by the join of its parent, which comes
\* after the end of its thread, or by the main thread, which has joined the
\* init task: no thread ever runs in a freed block, whatever the program.
THEOREM BlocksFreedAfterExit == Spec => FreedAfterExit
<1>1. ASSUME IInv, [Next]_vars
      PROVE  [\A t \in heap : t \notin heap' => thread[t] = "exited"]_vars
  <2>1. CASE UNCHANGED vars
    BY <2>1
  <2>2. CASE MainFree
    BY <1>1, <2>2 DEF IInv, BlocksInUse, MainFree
  <2>3. ASSUME NEW t \in Tasks, JoinThread(t)
        PROVE  \A u \in heap : u \notin heap' => thread[u] = "exited"
    BY <2>3 DEF JoinThread
  <2>. QED
    BY <1>1, <2>1, <2>2, <2>3, HeapStep
<1>. QED
  BY <1>1, Invariant, PTL DEF Spec, FreedAfterExit
=============================================================================
