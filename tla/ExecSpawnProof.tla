--------------------------- MODULE ExecSpawnProof ----------------------------
(***************************************************************************)
(* Theorems about the interpreter on programs that spawn and wait, or      *)
(* spawn and join tasks that do not wait, for every such code block, every *)
(* number of tasks and every word size.                                    *)
(*                                                                         *)
(* SInv is inductive together with IInv.  A step that moves one task and   *)
(* leaves the children on its stack alone, or has dropped them, is one of  *)
(* Moves; the steps that make and free tasks have a lemma each.            *)
(***************************************************************************)
EXTENDS ExecSpawn, ExecSteps

-----------------------------------------------------------------------------
(* Addresses.                                                               *)

StatementOps == {"OP_SPAWN", "OP_JOIN", "OP_WAIT_JUMP"}

\* What SpawnsUnbroken says of an address outside spawn statements ...
LEMMA OutsideCode ==
  ASSUME NEW a \in DOMAIN Code, Held[a] = Outside
  PROVE  Code[a].op \notin StatementOps
  BY SpawnAssumption DEF SpawnsUnbroken, StatementOps

\* ... and inside.
LEMMA InsideCode ==
  ASSUME NEW a \in DOMAIN Code, Held[a] # Outside
  PROVE  /\ Held[a] \in Nat
         /\ Code[a].op \notin {"OP_BEGIN_SPAWN", "OP_POP_INT", "OP_SLEEP", "OP_END_TASK"}
         /\ Depth[a] - Pops(Code[a].op) >= 2 * Held[a]
         /\ Code[a].op \in StatementOps => Depth[a] - Pops(Code[a].op) = 2 * Held[a]
         /\ Code[a].op \in {"OP_JOIN", "OP_WAIT_JUMP"} => Held[a] = SpawnCount(Code, a)
  BY SpawnAssumption DEF SpawnsUnbroken, StatementOps

\* The way from an address to the next.
LEMMA HeldStep ==
  ASSUME NEW a \in DOMAIN Code, NEW s \in Successors(Code, a)
  PROVE  /\ s \in DOMAIN Code /\ Held[s] = HeldAfter(Code, Held[a], a)
         /\ Held[a] # Outside /\ Held[s] # Outside => SpawnCount(Code, s) = SpawnCount(Code, a)
         /\ Code[s].op \in {"OP_SPAWN", "OP_JOIN"} => Code[a].op \in {"OP_BEGIN_SPAWN", "OP_SPAWN"}
         /\ a \in JoinedCode <=> s \in JoinedCode
  BY SpawnAssumption, JoinedAssumption, CodeAssumption
     DEF SpawnsUnbroken, JoinedNeverWait, ClosedCode

\* Tasks start outside spawn statements.
LEMMA HeldAtEntries ==
  /\ \A a \in Entries(Code) : Held[a] = Outside
  /\ \A a \in DOMAIN Code : Held[a] \in Nat \union {Outside}
  BY SpawnAssumption DEF SpawnsUnbroken

LEMMA HeldStays ==
  ASSUME NEW a \in DOMAIN Code, NEW h, Code[a].op \notin StatementOps \union {"OP_BEGIN_SPAWN"}
  PROVE  HeldAfter(Code, h, a) = h
  BY DEF HeldAfter, StatementOps

\* Statements that end with OP_JOIN.
LEMMA JoinedCodeFacts ==
  /\ \A a \in DOMAIN Code : JoinedAt(Code, a) => Code[a].op \in {"OP_SPAWN", "OP_JOIN"}
  /\ \A a \in DOMAIN Code : Code[a].op = "OP_JOIN" => JoinedAt(Code, a)
  /\ \A a \in DOMAIN Code : Code[a].op = "OP_SPAWN" /\ JoinedAt(Code, a + 1) => JoinedAt(Code, a)
  /\ \A a \in DOMAIN Code : Code[a].op = "OP_SPAWN" /\ JoinedAt(Code, a) => Code[a].arg \in JoinedCode
  /\ \A a \in JoinedCode : Code[a].op # "OP_WAIT_JUMP"
<1>1. \A a \in DOMAIN Code : a \in Nat
  BY CodeAssumption
<1>2. ASSUME NEW a \in DOMAIN Code, JoinedAt(Code, a)
      PROVE  Code[a].op \in {"OP_SPAWN", "OP_JOIN"}
  <2>1. PICK b \in DOMAIN Code :
          a <= b /\ Code[b].op = "OP_JOIN" /\ \A d \in a..b-1 : Code[d].op = "OP_SPAWN"
    BY <1>2 DEF JoinedAt
  <2>2. a = b \/ a \in a..b-1
    BY <1>1, <2>1
  <2>. QED
    BY <2>1, <2>2
<1>3. ASSUME NEW a \in DOMAIN Code, Code[a].op = "OP_JOIN"
      PROVE  JoinedAt(Code, a)
  <2>1. a <= a /\ a..a-1 = {}
    BY <1>1
  <2>. QED
    BY <1>3, <2>1 DEF JoinedAt
<1>4. ASSUME NEW a \in DOMAIN Code, Code[a].op = "OP_SPAWN", JoinedAt(Code, a + 1)
      PROVE  JoinedAt(Code, a)
  <2>1. PICK b \in DOMAIN Code :
          a + 1 <= b /\ Code[b].op = "OP_JOIN" /\ \A d \in a+1..b-1 : Code[d].op = "OP_SPAWN"
    BY <1>4 DEF JoinedAt
  <2>2. a <= b /\ \A d \in a..b-1 : d = a \/ d \in a+1..b-1
    BY <1>1, <2>1
  <2>. QED
    BY <1>4, <2>1, <2>2 DEF JoinedAt
<1>. QED
  BY <1>2, <1>3, <1>4, JoinedAssumption DEF JoinedNeverWait

-----------------------------------------------------------------------------
(* Tasks.                                                                   *)

LEMMA SameTask ==
  ASSUME NEW u, Same(u)
  PROVE  /\ (Inside(u)' <=> Inside(u)) /\ Words(u)' = Words(u) /\ Base(u)' = Base(u)
         /\ Holding(u)' = Holding(u) /\ Unstarted(u)' = Unstarted(u)
         /\ \A k : Kid(u, k)' = Kid(u, k)
<1>1. Inside(u)' <=> Inside(u)
  BY DEF Same, Inside
<1>2. Words(u)' = Words(u)
  BY DEF Same, Words
<1>3. Base(u)' = Base(u)
  BY <1>2 DEF Same, Base
<1>4. Holding(u)' = Holding(u)
  BY <1>1 DEF Same, Holding
<1>5. Unstarted(u)' = Unstarted(u)
  BY <1>4 DEF Same, Unstarted
<1>. QED
  BY <1>1, <1>2, <1>3, <1>4, <1>5 DEF Same, Kid

\* A task outside spawn statements holds nobody.
LEMMA HoldingOutside ==
  ASSUME NEW u
  PROVE  /\ ~Inside(u) => Holding(u) = 0
         /\ thread[u] \notin {"run", "spawn", "count", "join", "wait"} => ~Inside(u)
         /\ thread[u] = "run" => (Inside(u) <=> Held[ip[u]] # Outside)
  BY DEF Holding, Inside

\* The numbers of a task.
LEMMA TaskTypes ==
  ASSUME TypeOK, SInv, NEW t \in Tasks
  PROVE  /\ ip[t] \in DOMAIN Code /\ top[t] \in Nat /\ top[t] <= StackSize
         /\ n_spawn_tasks[t] \in Nat /\ i[t] \in Nat
         /\ Words(t) \in Int /\ Base(t) \in Nat /\ Words(t) = top[t] - Base(t)
         /\ Holding(t) \in Nat /\ Unstarted(t) \in Int
<1>1. /\ ip[t] \in DOMAIN Code /\ top[t] \in Nat /\ top[t] <= StackSize
      /\ n_spawn_tasks[t] \in Nat /\ i[t] \in Nat
  BY MemoryAssumption DEF TypeOK
<1>2. Depth[ip[t]] \in Nat
  BY <1>1, DepthStep
<1>3. Words(t) \in Int
  BY <1>1, <1>2 DEF Words
<1>4. Base(t) \in Nat /\ Words(t) = top[t] - Base(t)
  BY <1>1, <1>3 DEF Base, SInv, DeepEnough
<1>5. Held[ip[t]] # Outside => Held[ip[t]] \in Nat
  BY <1>1, InsideCode
<1>6. thread[t] = "join" => n_spawn_tasks[t] - i[t] \in Nat
  BY <1>1 DEF SInv, LoopsInBounds
<1>7. Holding(t) \in Nat
  BY <1>1, <1>5, <1>6 DEF Holding, Inside
<1>8. Unstarted(t) \in Int
  BY <1>1, <1>7 DEF Unstarted
<1>. QED
  BY <1>1, <1>3, <1>4, <1>7, <1>8

\* The k-th child of a task.
LEMMA KidFacts ==
  ASSUME SInv, NEW t \in Tasks, NEW k \in 0..Holding(t)-1
  PROVE  /\ stack[t][Base(t) + 2*k] = <<"lo", Kid(t, k)>>
         /\ stack[t][Base(t) + 2*k + 1] = <<"hi", Kid(t, k)>>
         /\ Kid(t, k) \in heap \ {RootTask} /\ parent[Kid(t, k)] = t
         /\ thread[Kid(t, k)] = "none" <=> k < Unstarted(t)
         /\ JoinedAt(Code, ip[t]) => ip[Kid(t, k)] \in JoinedCode
         /\ \A j \in 0..Holding(t)-1 : Kid(t, j) = Kid(t, k) => j = k
  BY DEF SInv, KidsOnStack, KidOnStack

\* A task inside a blocking instruction of a spawn statement.
LEMMA CallFacts ==
  ASSUME IInv, SInv, NEW t \in Tasks, thread[t] \in {"spawn", "count", "join", "wait"}
  PROVE  /\ Inside(t) /\ t \in heap /\ Held[ip[t]] # Outside /\ Op(t) \in {"OP_JOIN", "OP_WAIT_JUMP"}
         /\ n_spawn_tasks[t] = SpawnCount(Code, ip[t]) /\ Held[ip[t]] = n_spawn_tasks[t]
         /\ Holding(t) = IF thread[t] = "join" THEN n_spawn_tasks[t] - i[t] ELSE n_spawn_tasks[t]
         /\ Depth[ip[t]] - Pops(Op(t)) = 2 * n_spawn_tasks[t]
<1>1. Inside(t) /\ t \in heap /\ Op(t) \in {"OP_JOIN", "OP_WAIT_JUMP"} /\ ip[t] \in DOMAIN Code
  BY InHeap DEF Inside, IInv, TypeOK, CallsMatchCode
<1>2. Held[ip[t]] # Outside
  BY <1>1, OutsideCode DEF Op, StatementOps
<1>3. n_spawn_tasks[t] = SpawnCount(Code, ip[t])
  BY <1>1 DEF SInv, LoopsInBounds
<1>4. Held[ip[t]] = n_spawn_tasks[t] /\ Depth[ip[t]] - Pops(Op(t)) = 2 * n_spawn_tasks[t]
  BY <1>1, <1>2, <1>3, InsideCode DEF Op, StatementOps
<1>5. Holding(t) = IF thread[t] = "join" THEN n_spawn_tasks[t] - i[t] ELSE n_spawn_tasks[t]
  BY <1>1 DEF Holding
<1>. QED
  BY <1>1, <1>2, <1>3, <1>4, <1>5

\* Nobody is the child of a block outside the heap, while main uses the module.
LEMMA NoOrphans ==
  ASSUME IInv, SInv, main # "exit", NEW t \in heap, main # "start",
         NEW d \in heap, NEW c \in Tasks \ heap
  PROVE  c # RootTask /\ parent[d] # c
<1>1. RootTask \in heap
  BY DEF IInv, BlocksInUse, TypeOK
<1>. QED
  BY <1>1, TaskAssumption DEF SInv, Families

-----------------------------------------------------------------------------
(* Steps that move one task.                                                *)

\* Task t goes on with the same children on its stack, of which as many have no
\* thread as before.
KidsKept(t) ==
  /\ Holding(t)' = Holding(t) /\ Unstarted(t)' = Unstarted(t)
  /\ \A k \in 0..Holding(t)-1 :
       /\ stack'[t][Base(t)' + 2*k] = stack[t][Base(t) + 2*k]
       /\ stack'[t][Base(t)' + 2*k + 1] = stack[t][Base(t) + 2*k + 1]
  /\ JoinedAt(Code, ip'[t]) => JoinedAt(Code, ip[t])

\* Task t holds nobody now, and if it did before it is not one that is joined.
KidsLeft(t) == Holding(t)' = 0 /\ (Holding(t) = 0 \/ ip[t] \notin JoinedCode)

\* Thread t goes from one place in the code to another.
Moves(t) ==
  /\ \A u \in Tasks \ {t} : Same(u)
  /\ UNCHANGED <<heap, parent>>
  /\ thread[t] # "none" /\ thread'[t] \notin {"none", "count"}
  /\ t = RootTask => thread'[t] \notin {"end", "sub"}
  /\ Words(t)' <= top'[t]
  /\ Inside(t)' => n_spawn_tasks'[t] = SpawnCount(Code, ip'[t])
  /\ thread'[t] \in {"spawn", "join"} => i'[t] <= n_spawn_tasks'[t]
  /\ ip'[t] \in JoinedCode <=> ip[t] \in JoinedCode
  /\ KidsKept(t) \/ KidsLeft(t)

LEMMA MovesKeep ==
  ASSUME TypeOK, SInv, NEW t \in Tasks, Moves(t)
  PROVE  DeepEnough' /\ LoopsInBounds' /\ KidsOnStack' /\ Families'
<1>. USE DEF Moves, SInv
<1>0. \A u \in Tasks : /\ thread'[u] = "none" <=> thread[u] = "none"
                       /\ ip'[u] \in JoinedCode <=> ip[u] \in JoinedCode
  BY DEF Same
<1>1. DeepEnough'
  BY SameTask DEF DeepEnough, Same
<1>2. LoopsInBounds'
  BY SameTask DEF LoopsInBounds, Same
<1>3. KidsOnStack'
  <2>1. ASSUME NEW u \in Tasks, NEW k \in 0..Holding(u)-1, Holding(u)' = Holding(u),
               Unstarted(u)' = Unstarted(u),
               stack'[u][Base(u)' + 2*k] = stack[u][Base(u) + 2*k],
               stack'[u][Base(u)' + 2*k + 1] = stack[u][Base(u) + 2*k + 1],
               JoinedAt(Code, ip'[u]) => JoinedAt(Code, ip[u])
        PROVE  KidOnStack(u, k)' /\ Kid(u, k)' = Kid(u, k)
    <3>1. Kid(u, k)' = Kid(u, k)
      BY <2>1 DEF Kid
    <3>2. Kid(u, k) \in Tasks
      BY KidFacts, InHeapTasks
    <3>. QED
      BY <1>0, <2>1, <3>1, <3>2, KidFacts DEF KidOnStack
  <2>2. ASSUME NEW u \in Tasks, ~KidsLeft(t) \/ u # t
        PROVE  /\ Holding(u)' = Holding(u)
               /\ \A k \in 0..Holding(u)-1 : KidOnStack(u, k)' /\ Kid(u, k)' = Kid(u, k)
    <3>1. CASE u = t
      BY <2>1, <2>2, <3>1 DEF KidsKept
    <3>2. CASE u # t
      <4>1. Same(u)
        BY <3>2
      <4>. QED
        BY <2>1, <4>1, SameTask DEF Same
    <3>. QED
      BY <3>1, <3>2
  <2>3. ASSUME NEW u \in Tasks
        PROVE  /\ \A k \in 0..Holding(u)'-1 : KidOnStack(u, k)'
               /\ \A j, k \in 0..Holding(u)'-1 : Kid(u, j)' = Kid(u, k)' => j = k
    <3>1. CASE KidsLeft(t) /\ u = t
      BY <3>1 DEF KidsLeft
    <3>2. CASE ~KidsLeft(t) \/ u # t
      BY <2>2, <3>2 DEF KidsOnStack
    <3>. QED
      BY <3>1, <3>2
  <2>. QED
    BY <2>3 DEF KidsOnStack
<1>4. Families'
  <2>1. parent'[RootTask] = NoTask /\ thread'[RootTask] \notin {"end", "sub"}
    BY TaskAssumption DEF Families, Same
  <2>2. ASSUME NEW c \in heap \ {RootTask}, parent[c] \in heap, ip'[parent[c]] \in JoinedCode
        PROVE  \E k \in 0..Holding(parent[c])'-1 : c = Kid(parent[c], k)'
    <3>1. PICK u \in Tasks : u = parent[c]
      BY <2>2, InHeapTasks
    <3>2. PICK k \in 0..Holding(u)-1 : c = Kid(u, k)
      BY <1>0, <2>2, <3>1 DEF Families
    <3>3. CASE u # t
      <4>1. Same(u)
        BY <3>3
      <4>. QED
        BY <3>1, <3>2, <4>1, SameTask
    <3>4. CASE u = t
      <4>1. KidsKept(t)
        BY <1>0, <2>2, <3>1, <3>2, <3>4, TaskTypes DEF KidsLeft
      <4>2. Kid(t, k)' = Kid(t, k)
        BY <3>2, <3>4, <4>1 DEF KidsKept, Kid
      <4>. QED
        BY <3>1, <3>2, <3>4, <4>1, <4>2 DEF KidsKept
    <3>. QED
      BY <3>3, <3>4
  <2>. QED
    BY <2>1, <2>2 DEF Families
<1>. QED
  BY <1>1, <1>2, <1>3, <1>4

\* Counters that nobody touches stay right while no thread starts or stops.
LEMMA QuietCounts ==
  ASSUME TypeOK, RunningCountsLive, NEW t \in Tasks, \A u \in Tasks \ {t} : Same(u),
         UNCHANGED <<heap, parent, n_spawn_running>>,
         thread[t] # "count" /\ thread'[t] # "count",
         Live(t)' = Live(t) \/ parent[t] = NoTask
  PROVE  RunningCountsLive'
<1>. SUFFICES ASSUME NEW p \in heap
              PROVE  n_spawn_running'[p] =
                       (Cardinality(Outstanding(p)') - Truth(thread'[p] = "count")) % CounterMod
  BY DEF RunningCountsLive
<1>1. \A d \in Tasks : Live(d)' /\ parent'[d] = p <=> Live(d) /\ parent[d] = p
  BY InHeapTasks, TaskAssumption DEF Live, Same
<1>2. thread'[p] = "count" <=> thread[p] = "count"
  BY InHeapTasks DEF Same
<1>. QED
  BY <1>1, <1>2, CountKept

\* A step that changes no task.
LEMMA StillKeepsSInv ==
  ASSUME SInv, UNCHANGED <<heap, parent, regs, spawnVars, thread>>
  PROVE  SInv'
<1>. USE DEF regs, spawnVars
<1>1. \A u : Same(u)
  BY DEF Same
<1>2. \A u : /\ (Inside(u)' <=> Inside(u)) /\ Words(u)' = Words(u) /\ Base(u)' = Base(u)
             /\ Holding(u)' = Holding(u) /\ Unstarted(u)' = Unstarted(u)
             /\ \A k : Kid(u, k)' = Kid(u, k)
  BY <1>1, SameTask
<1>3. \A p : Outstanding(p)' = Outstanding(p)
  BY DEF Outstanding, Live
<1>. QED
  BY <1>2, <1>3 DEF SInv, DeepEnough, LoopsInBounds, KidsOnStack, KidOnStack, Families,
     RunningCountsLive

\* A crash changes nothing but proc.
LEMMA CrashKeepsSInv ==
  ASSUME SInv, NEW how, Crash(how)
  PROVE  SInv'
  BY StillKeepsSInv DEF Crash, taskVars

-----------------------------------------------------------------------------
(* Instructions that work on their own task.                                *)

\* But for an assignment, such an instruction writes no word below those it pops.
LEMMA LocalWrites ==
  ASSUME TypeOK, NEW t \in Tasks, Instruction(t), NEW s, LocalStep(t, s), Op(t) # "OP_POP_INT",
         NEW j \in Nat, j < top[t] - Pops(Op(t))
  PROVE  stack'[t][j] = stack[t][j]
<1>1. /\ stack \in [Tasks -> [0..StackSize-1 -> Word]] /\ stack[t] \in [0..StackSize-1 -> Word]
      /\ top[t] \in Nat /\ top[t] <= StackSize /\ j \in 0..StackSize-1
  <2>1. /\ stack \in [Tasks -> [0..StackSize-1 -> Word]] /\ stack[t] \in [0..StackSize-1 -> Word]
        /\ top[t] \in Nat /\ top[t] <= StackSize
    BY MemoryAssumption DEF TypeOK
  <2>2. Pops(Op(t)) \in Nat
    BY DEF Pops
  <2>. QED
    BY <2>1, <2>2, MemoryAssumption
<1>2. ASSUME NEW m, NEW w, Poke(t, m, w), m # j
      PROVE  stack'[t][j] = stack[t][j]
  BY <1>1, <1>2 DEF Poke
<1>. USE DEF Executes
<1>3. CASE PushConst(t) \/ PushVar(t)
  <2>1. Op(t) \in {"OP_PUSH_CONST_INT", "OP_PUSH_VAR"} /\ \E w : Poke(t, top[t], w)
    BY <1>3 DEF PushConst, PushVar
  <2>2. Pops(Op(t)) = 0
    BY <2>1 DEF Pops, BinaryOps, UnaryOps, CondJumps, TestJumps
  <2>. QED
    BY <1>1, <1>2, <2>1, <2>2
<1>4. CASE UnaryOp(t)
  <2>1. Op(t) \in UnaryOps /\ \E w : Poke(t, top[t] - 1, w)
    BY <1>4 DEF UnaryOp
  <2>2. Pops(Op(t)) = 1
    BY <2>1 DEF Pops, BinaryOps, UnaryOps, CondJumps, TestJumps
  <2>. QED
    BY <1>1, <1>2, <2>1, <2>2
<1>5. CASE BinaryOp(t)
  <2>1. Op(t) \in BinaryOps /\ (UNCHANGED stack \/ \E w : Poke(t, top[t] - 2, w))
    BY <1>5 DEF BinaryOp, Crash, regs
  <2>2. Pops(Op(t)) = 2
    BY <2>1 DEF Pops, BinaryOps, UnaryOps, CondJumps, TestJumps
  <2>3. top[t] - 2 # j
    BY <1>1, <2>2
  <2>4. CASE UNCHANGED stack
    BY <2>4
  <2>. QED
    BY <1>2, <2>1, <2>3, <2>4
<1>6. ~PopInt(t) /\ ~Spawn(t) /\ ~SpawnNoMemory(t) /\ ~EndTask(t)
  BY DEF PopInt, Spawn, SpawnNoMemory, EndTask, LocalStep
<1>7. ~RunSpawn(t) /\ ~BeginSleep(t)
  BY DEF RunSpawn, BeginSleep, LocalStep, BlockingOps
<1>. QED
  BY <1>3, <1>4, <1>5, <1>6, <1>7 DEF Instruction, Jump, CondJump, TestJump, BadInstruction,
     PrintInt, PrintText, BeginAtomicPrint, EndAtomicPrint, BeginSpawn, Crash, regs

\* Outside spawn statements such an instruction stays there, or begins one;
\* inside it works above the children's addresses.
LEMMA LocalMoves ==
  ASSUME IInv, SInv, NEW t \in Tasks, Instruction(t), NEW s \in DOMAIN Code, LocalStep(t, s)
  PROVE  Moves(t)
<1>. USE DEF LocalStep
<1>1. /\ TypeOK /\ ip[t] \in DOMAIN Code /\ s \in Successors(Code, ip[t])
      /\ ip'[t] = s /\ top'[t] = top[t] + DepthChange(Code, ip[t], s)
      /\ thread[t] = "run" /\ thread'[t] = "run"
      /\ top[t] \in Nat /\ Depth[s] \in Nat /\ Depth[ip[t]] \in Nat
      /\ Depth[s] = Depth[ip[t]] + DepthChange(Code, ip[t], s)
      /\ DepthChange(Code, ip[t], s) \in Int
  <2>1. TypeOK /\ ip[t] \in DOMAIN Code /\ ip'[t] = s
    BY DEF IInv, TypeOK
  <2>2. top'[t] = top[t] + DepthChange(Code, ip[t], s)
    BY <2>1 DEF TypeOK
  <2>3. SpawnCount(Code, ip[t]) \in Int \/ Op(t) \notin {"OP_JOIN", "OP_WAIT_JUMP"}
    BY DEF BlockingOps
  <2>4. DepthChange(Code, ip[t], s) \in Int
    BY <2>3 DEF DepthChange, Op, Pushes, Pops, BlockingOps
  <2>. QED
    BY <2>1, <2>2, <2>4, DepthStep, TaskTypes DEF IInv
<1>2. \A u \in Tasks \ {t} : Same(u)
  BY <1>1 DEF Same, TypeOK
<1>3. /\ Words(t) = Depth[ip[t]] /\ Words(t)' = Depth[s] /\ Words(t) <= top[t]
      /\ Base(t) = top[t] - Depth[ip[t]] /\ Base(t)' = top'[t] - Depth[s]
  BY <1>1 DEF Words, Base, SInv, DeepEnough
<1>4. Words(t)' <= top'[t] /\ Base(t)' = Base(t)
  BY <1>1, <1>3
<1>5. /\ Held[s] = HeldAfter(Code, Held[ip[t]], ip[t])
      /\ s \in JoinedCode <=> ip[t] \in JoinedCode
  BY <1>1, HeldStep
<1>6. /\ Inside(t) <=> Held[ip[t]] # Outside
      /\ Inside(t)' <=> Held[s] # Outside
      /\ Held[ip[t]] # Outside => Holding(t) = Held[ip[t]]
      /\ Held[s] # Outside => Holding(t)' = Held[s]
      /\ Held[s] = Outside => Holding(t)' = 0
      /\ Unstarted(t) = Holding(t) /\ Unstarted(t)' = Holding(t)'
  BY <1>1 DEF Inside, Holding, Unstarted
<1>7. CASE Held[ip[t]] = Outside
  <2>1. Op(t) \notin StatementOps
    BY <1>1, <1>7, OutsideCode DEF Op
  <2>2. CASE Op(t) = "OP_BEGIN_SPAWN"
    <3>1. Held[s] = 0 /\ s = ip[t] + 1 /\ n_spawn_tasks'[t] = Arg(t)
      BY <1>1, <1>5, <2>2 DEF HeldAfter, Op, Successors, CondJumps, TestJumps, TypeOK
    <3>2. SpawnCount(Code, s) = Arg(t)
      BY <1>1, <2>2, <3>1, SpawnCountNext DEF Op, Arg
    <3>3. KidsLeft(t)
      BY <1>6, <1>7, <3>1, HoldingOutside DEF KidsLeft, Outside
    <3>. QED
      BY <1>1, <1>2, <1>4, <1>5, <3>1, <3>2, <3>3 DEF Moves
  <2>3. CASE Op(t) # "OP_BEGIN_SPAWN"
    <3>1. Held[s] = Outside
      BY <1>1, <1>5, <1>7, <2>1, <2>3, HeldStays DEF Op
    <3>2. KidsLeft(t)
      BY <1>6, <1>7, <3>1, HoldingOutside DEF KidsLeft
    <3>. QED
      BY <1>1, <1>2, <1>4, <1>5, <1>6, <3>1, <3>2 DEF Moves
  <2>. QED
    BY <2>2, <2>3
<1>8. CASE Held[ip[t]] # Outside
  <2>1. /\ Op(t) \notin StatementOps \union {"OP_BEGIN_SPAWN", "OP_POP_INT"}
        /\ Held[ip[t]] \in Nat /\ Depth[ip[t]] - Pops(Op(t)) >= 2 * Held[ip[t]]
    BY <1>1, <1>8, InsideCode DEF Op, StatementOps, BlockingOps
  <2>2. Held[s] = Held[ip[t]] /\ Holding(t)' = Holding(t) /\ Holding(t) = Held[ip[t]]
    BY <1>1, <1>5, <1>6, <1>8, <2>1, HeldStays DEF Op
  <2>3. n_spawn_tasks'[t] = SpawnCount(Code, s)
    BY <1>1, <1>6, <1>8, <2>1, <2>2, HeldStep DEF SInv, LoopsInBounds
  <2>4. ASSUME NEW k \in 0..Holding(t)-1
        PROVE  /\ stack'[t][Base(t)' + 2*k] = stack[t][Base(t) + 2*k]
               /\ stack'[t][Base(t)' + 2*k + 1] = stack[t][Base(t) + 2*k + 1]
    <3>1. Base(t) \in Nat /\ Pops(Op(t)) \in Nat
      BY <1>1, TaskTypes DEF Pops
    <3>2. /\ Base(t) + 2*k \in Nat /\ Base(t) + 2*k < top[t] - Pops(Op(t))
          /\ Base(t) + 2*k + 1 \in Nat /\ Base(t) + 2*k + 1 < top[t] - Pops(Op(t))
      BY <1>1, <1>3, <2>1, <2>2, <3>1
    <3>3. \A j \in Nat : j < top[t] - Pops(Op(t)) => stack'[t][j] = stack[t][j]
      BY <1>1, <2>1, LocalWrites
    <3>. QED
      BY <1>4, <3>2, <3>3
  <2>5. ~JoinedAt(Code, s)
    <3>1. Code[s].op \notin {"OP_SPAWN", "OP_JOIN"}
      BY <1>1, <2>1, HeldStep DEF Op, StatementOps
    <3>. QED
      BY <3>1, JoinedCodeFacts
  <2>6. KidsKept(t)
    BY <1>1, <1>6, <2>2, <2>4, <2>5 DEF KidsKept
  <2>. QED
    BY <1>1, <1>2, <1>4, <1>5, <2>3, <2>6 DEF Moves
<1>. QED
  BY <1>7, <1>8

\* A step that moves a task and leaves the counters alone.
LEMMA QuietMove ==
  ASSUME TypeOK, SInv, NEW t \in Tasks, Moves(t), UNCHANGED n_spawn_running,
         thread[t] # "count", Live(t)' = Live(t) \/ parent[t] = NoTask
  PROVE  SInv'
<1>1. RunningCountsLive'
  BY QuietCounts DEF SInv, Moves
<1>. QED
  BY <1>1, MovesKeep DEF SInv

LEMMA LocalKeepsSInv ==
  ASSUME IInv, SInv, NEW t \in Tasks, Instruction(t), NEW s \in DOMAIN Code, LocalStep(t, s)
  PROVE  SInv'
<1>1. Moves(t) /\ TypeOK
  BY LocalMoves DEF IInv
<1>2. UNCHANGED <<n_spawn_running, heap, thread>> /\ thread[t] = "run"
  BY DEF LocalStep
<1>. QED
  BY <1>1, <1>2, QuietMove DEF Live

-----------------------------------------------------------------------------
(* The other steps that move one task.                                      *)

\* A task that is outside spawn statements before and after.
LEMMA OutsideMove ==
  ASSUME TypeOK, SInv, NEW t \in Tasks, ~Inside(t), ~Inside(t)',
         \A u \in Tasks \ {t} : Same(u), UNCHANGED <<heap, parent>>,
         thread[t] # "none",
         thread'[t] \notin {"none", "spawn", "count", "join"}, Words(t)' <= top'[t],
         t = RootTask => thread'[t] \notin {"end", "sub"},
         ip'[t] \in JoinedCode <=> ip[t] \in JoinedCode
  PROVE  Moves(t)
<1>1. Holding(t) = 0 /\ Holding(t)' = 0
  BY DEF Holding
<1>. QED
  BY <1>1 DEF Moves, KidsLeft

LEMMA OutsideMoves ==
  ASSUME IInv, SInv, NEW t \in Tasks,
         \/ BeginSleep(t) \/ EndSleep(t) \/ StartTask(t) \/ EndTask(t)
         \/ (CheckSiblings(t) /\ ~Crash("assert_siblings")) \/ CountDown(t) \/ ExitThread(t)
  PROVE  Moves(t)
<1>. USE DEF shared, regs, spawnVars, At, Become
<1>1. /\ TypeOK /\ ip[t] \in DOMAIN Code /\ top[t] \in Nat
      /\ thread \in [Tasks -> ThreadStates] /\ top \in [Tasks -> 0..StackSize]
      /\ ip \in [Tasks -> DOMAIN Code] /\ Depth[ip[t]] \in Nat /\ Words(t) <= top[t]
  BY TaskTypes, DepthStep DEF IInv, TypeOK, SInv, DeepEnough
<1>. USE DEF Words, Inside
<1>2. CASE BeginSleep(t)
  <2>1. /\ Op(t) = "OP_SLEEP" /\ thread[t] = "run" /\ thread'[t] = "sleep" /\ top'[t] = top[t] - 1
        /\ ip'[t] = ip[t]
    BY <1>1, <1>2 DEF BeginSleep, Executes, SetTop
  <2>2. Held[ip[t]] = Outside
    BY <1>1, <2>1, InsideCode DEF Op
  <2>3. \A u \in Tasks \ {t} : Same(u)
    BY <1>1, <1>2 DEF BeginSleep, SetTop, Same
  <2>4. Words(t)' <= top'[t]
    BY <1>1, <2>1
  <2>. QED
    BY <1>1, <1>2, <2>1, <2>2, <2>3, <2>4, OutsideMove DEF BeginSleep
<1>3. CASE EndSleep(t)
  <2>1. /\ Op(t) = "OP_SLEEP" /\ thread[t] = "sleep" /\ thread'[t] = "run"
        /\ ip'[t] = ip[t] + 1 /\ top'[t] = top[t]
    BY <1>1, <1>3 DEF EndSleep, IInv, CallsMatchCode, Advance, Goto
  <2>2. ip[t] + 1 \in Successors(Code, ip[t])
    BY <1>1, <2>1, NextAddress DEF Op
  <2>3. Held[ip[t]] = Outside
    BY <1>1, <2>1, InsideCode DEF Op
  <2>4. Held[ip[t] + 1] = Outside /\ (ip[t] + 1 \in JoinedCode <=> ip[t] \in JoinedCode)
    BY <1>1, <2>1, <2>2, <2>3, HeldStep, HeldStays DEF Op, StatementOps
  <2>5. \A u \in Tasks \ {t} : Same(u)
    BY <1>1, <1>3 DEF EndSleep, Advance, Goto, Same
  <2>6. DepthChange(Code, ip[t], ip[t] + 1) = -1
    BY <2>1 DEF DepthChange, Op, Pushes, Pops, BinaryOps, UnaryOps, CondJumps, TestJumps
  <2>7. Words(t)' <= top'[t]
    BY <1>1, <2>1, <2>2, <2>6, DepthStep
  <2>. QED
    BY <1>1, <1>3, <2>1, <2>3, <2>4, <2>5, <2>7, OutsideMove DEF EndSleep
<1>4. CASE StartTask(t)
  <2>1. /\ thread[t] = "created" /\ thread'[t] = "run" /\ ip[t] \in Entries(Code)
        /\ ip'[t] = ip[t] /\ top'[t] = top[t]
    BY <1>1, <1>4 DEF StartTask, IInv, CallsMatchCode
  <2>2. \A u \in Tasks \ {t} : Same(u)
    BY <1>1, <1>4 DEF StartTask, Same
  <2>3. Words(t)' <= top'[t]
    BY <1>1, <2>1, DepthStep
  <2>. QED
    BY <1>1, <1>4, <2>1, <2>2, <2>3, OutsideMove, HeldAtEntries DEF StartTask
<1>5. CASE EndTask(t)
  <2>1. /\ Op(t) = "OP_END_TASK" /\ thread[t] = "run" /\ top'[t] = top[t] /\ ip'[t] = ip[t]
        /\ thread'[t] = IF parent[t] = NoTask THEN "exiting" ELSE "end"
    BY <1>1, <1>5 DEF EndTask, Executes
  <2>2. Held[ip[t]] = Outside
    BY <1>1, <2>1, InsideCode DEF Op
  <2>3. \A u \in Tasks \ {t} : Same(u)
    BY <1>1, <1>5 DEF EndTask, Same
  <2>4. t = RootTask => parent[t] = NoTask
    BY DEF SInv, Families
  <2>5. Words(t)' <= top'[t]
    BY <1>1, <2>1
  <2>. QED
    BY <1>1, <1>5, <2>1, <2>2, <2>3, <2>4, <2>5, OutsideMove DEF EndTask
<1>6. CASE CheckSiblings(t) /\ ~Crash("assert_siblings")
  <2>1. /\ thread[t] = "end" /\ thread' = [thread EXCEPT ![t] = "sub"]
        /\ UNCHANGED <<shared, regs, spawnVars>>
    BY <1>6 DEF CheckSiblings
  <2>2. thread'[t] = "sub" /\ \A u \in Tasks \ {t} : Same(u)
    BY <1>1, <2>1 DEF Same
  <2>3. t # RootTask
    BY <2>1 DEF SInv, Families
  <2>4. Words(t)' <= top'[t]
    BY <1>1, <2>1, <2>2
  <2>. QED
    BY <1>1, <2>1, <2>2, <2>3, <2>4, OutsideMove
<1>7. CASE CountDown(t) \/ ExitThread(t)
  <2>1. /\ thread[t] \in {"sub", "exiting"} /\ thread'[t] \in {"exiting", "exited"}
        /\ UNCHANGED <<heap, parent, ip, stack, top, n_spawn_tasks, i>>
        /\ \A u \in Tasks \ {t} : Same(u)
    BY <1>1, <1>7 DEF CountDown, ExitThread, Same
  <2>2. Words(t)' <= top'[t]
    BY <1>1, <2>1
  <2>. QED
    BY <1>1, <2>1, <2>2, OutsideMove
<1>. QED
  BY <1>2, <1>3, <1>4, <1>5, <1>6, <1>7

\* The steps inside OP_JOIN and OP_WAIT_JUMP that leave the children where they
\* are.
LEMMA CallMove ==
  ASSUME IInv, SInv, NEW t \in Tasks, Inside(t),
         \A u \in Tasks \ {t} : Same(u), UNCHANGED <<heap, parent, ip, stack, n_spawn_tasks>>,
         thread[t] # "none", thread'[t] \in {"spawn", "join", "wait"},
         thread'[t] \in {"spawn", "join"} => i'[t] <= n_spawn_tasks[t],
         Words(t)' <= top'[t], Base(t)' = Base(t),
         Holding(t)' = Holding(t), Unstarted(t)' = Unstarted(t)
  PROVE  Moves(t)
<1>1. KidsKept(t)
  BY DEF KidsKept
<1>2. n_spawn_tasks[t] = SpawnCount(Code, ip[t])
  BY DEF SInv, LoopsInBounds
<1>. QED
  BY <1>1, <1>2 DEF Moves

LEMMA CallMoves ==
  ASSUME IInv, SInv, NEW t \in Tasks,
         RunSpawn(t) \/ CountThread(t) \/ BeginJoin(t) \/ (BeginWait(t) /\ ~Crash("stack"))
  PROVE  Moves(t)
<1>. USE DEF shared, regs, spawnVars, At, Become, SetTop
<1>1. /\ TypeOK /\ ip[t] \in DOMAIN Code /\ top[t] \in Nat
      /\ n_spawn_tasks[t] \in Nat /\ i[t] \in Nat
      /\ thread \in [Tasks -> ThreadStates] /\ top \in [Tasks -> 0..StackSize]
      /\ i \in [Tasks -> Nat] /\ Words(t) <= top[t]
  BY TaskTypes DEF IInv, TypeOK, SInv, DeepEnough
<1>2. CASE RunSpawn(t)
  <2>1. /\ Op(t) \in {"OP_JOIN", "OP_WAIT_JUMP"} /\ thread[t] = "run" /\ thread'[t] = "spawn"
        /\ top'[t] = top[t] - Pops(Op(t)) /\ i'[t] = 0
        /\ UNCHANGED <<heap, parent, ip, stack, n_spawn_tasks>>
    BY <1>1, <1>2 DEF RunSpawn, Executes
  <2>2. Held[ip[t]] # Outside
    BY <1>1, <2>1, OutsideCode DEF Op, StatementOps
  <2>3. Inside(t) /\ Holding(t) = Held[ip[t]] /\ Unstarted(t) = Held[ip[t]]
    BY <2>1, <2>2 DEF Inside, Holding, Unstarted
  <2>4. Held[ip[t]] = n_spawn_tasks[t] /\ Depth[ip[t]] - Pops(Op(t)) = 2 * n_spawn_tasks[t]
    BY <1>1, <2>1, <2>2, <2>3, InsideCode DEF Op, StatementOps, SInv, LoopsInBounds
  <2>5. Holding(t)' = n_spawn_tasks[t] /\ Unstarted(t)' = n_spawn_tasks[t]
    BY <1>1, <2>1 DEF Holding, Inside, Unstarted
  <2>6. Words(t) = Depth[ip[t]] /\ Words(t)' = 2 * n_spawn_tasks[t]
    BY <2>1 DEF Words
  <2>7. Depth[ip[t]] \in Nat /\ Pops(Op(t)) \in Nat
    BY <1>1, DepthStep DEF Pops
  <2>8. Words(t)' <= top'[t] /\ Base(t)' = Base(t)
    BY <1>1, <2>1, <2>4, <2>6, <2>7 DEF Base
  <2>9. \A u \in Tasks \ {t} : Same(u)
    BY <1>1, <1>2 DEF RunSpawn, Same
  <2>. QED
    BY <1>1, <2>1, <2>3, <2>4, <2>5, <2>8, <2>9, CallMove
<1>3. CASE CountThread(t)
  <2>1. /\ thread[t] = "count" /\ thread'[t] = "spawn" /\ top'[t] = top[t] /\ i'[t] = i[t] + 1
        /\ UNCHANGED <<heap, parent, ip, stack, n_spawn_tasks>> /\ i[t] < n_spawn_tasks[t]
    BY <1>1, <1>3 DEF CountThread, SInv, LoopsInBounds
  <2>2. Inside(t) /\ Holding(t)' = Holding(t) /\ Words(t)' = Words(t) /\ Base(t)' = Base(t)
    BY <2>1 DEF Inside, Holding, Words, Base
  <2>3. Unstarted(t)' = Unstarted(t)
    BY <1>1, <2>1 DEF Unstarted
  <2>4. i'[t] <= n_spawn_tasks[t] /\ Words(t)' <= top'[t]
    BY <1>1, <2>1, <2>2
  <2>5. \A u \in Tasks \ {t} : Same(u)
    BY <1>1, <1>3 DEF CountThread, Same
  <2>. QED
    BY <2>1, <2>2, <2>3, <2>4, <2>5, CallMove
<1>4. CASE BeginJoin(t)
  <2>1. /\ thread[t] = "spawn" /\ thread'[t] = "join" /\ top'[t] = top[t] /\ i'[t] = 0
        /\ UNCHANGED <<heap, parent, ip, stack, n_spawn_tasks>> /\ i[t] = n_spawn_tasks[t]
    BY <1>1, <1>4 DEF BeginJoin
  <2>2. Inside(t) /\ Holding(t)' = Holding(t) /\ Words(t)' = Words(t)
    BY <1>1, <2>1 DEF Inside, Holding, Words
  <2>3. Unstarted(t)' = Unstarted(t)
    BY <1>1, <2>1 DEF Unstarted
  <2>4. i'[t] <= n_spawn_tasks[t] /\ Words(t)' <= top'[t] /\ Base(t)' = Base(t)
    BY <1>1, <2>1, <2>2 DEF Base
  <2>5. \A u \in Tasks \ {t} : Same(u)
    BY <1>1, <1>4 DEF BeginJoin, Same
  <2>. QED
    BY <2>1, <2>2, <2>3, <2>4, <2>5, CallMove
<1>5. CASE BeginWait(t) /\ ~Crash("stack")
  <2>1. /\ thread[t] = "spawn" /\ thread'[t] = "wait" /\ top'[t] = top[t] - n_spawn_tasks[t]
        /\ UNCHANGED <<heap, parent, ip, stack, n_spawn_tasks, i>> /\ i[t] = n_spawn_tasks[t]
    BY <1>1, <1>5 DEF BeginWait
  <2>2. /\ Inside(t) /\ Holding(t)' = Holding(t)
        /\ Words(t) = 2 * n_spawn_tasks[t] /\ Words(t)' = n_spawn_tasks[t]
    BY <2>1 DEF Inside, Holding, Words
  <2>3. Unstarted(t)' = Unstarted(t)
    BY <1>1, <2>1 DEF Unstarted
  <2>4. Words(t)' <= top'[t] /\ Base(t)' = Base(t)
    BY <1>1, <2>1, <2>2 DEF Base
  <2>5. \A u \in Tasks \ {t} : Same(u)
    BY <1>1, <1>5 DEF BeginWait, Same
  <2>. QED
    BY <2>1, <2>2, <2>3, <2>4, <2>5, CallMove
<1>. QED
  BY <1>2, <1>3, <1>4, <1>5

\* The end of OP_JOIN finds the children joined, that of OP_WAIT_JUMP leaves
\* them behind; neither leaves a word of the statement on the stack.
LEMMA EndMoves ==
  ASSUME IInv, SInv, NEW t \in Tasks, EndWait(t) \/ (EndJoin(t) /\ ~Crash("assert_join"))
  PROVE  Moves(t)
<1>. USE DEF shared, spawnVars, At, Become, Advance, Goto
<1>1. /\ TypeOK /\ ip[t] \in DOMAIN Code /\ top[t] \in Nat /\ n_spawn_tasks[t] \in Nat
      /\ thread \in [Tasks -> ThreadStates] /\ ip \in [Tasks -> DOMAIN Code]
  BY TaskTypes DEF IInv, TypeOK
<1>2. PICK s \in {ip[t] + 1, Arg(t)} :
        /\ ip' = [ip EXCEPT ![t] = s] /\ thread' = [thread EXCEPT ![t] = "run"]
        /\ thread[t] \in {"wait", "join"}
        /\ UNCHANGED <<heap, parent, stack, top, n_spawn_tasks, i>>
        /\ thread[t] = "join" => s = ip[t] + 1 /\ i[t] = n_spawn_tasks[t]
  BY DEF EndWait, EndJoin
<1>3. /\ Op(t) = IF thread[t] = "wait" THEN "OP_WAIT_JUMP" ELSE "OP_JOIN"
      /\ Op(t) \in {"OP_JOIN", "OP_WAIT_JUMP"}
  BY <1>2 DEF IInv, CallsMatchCode
<1>4. s \in Successors(Code, ip[t])
  BY <1>1, <1>2, <1>3, NextAddress, JumpAddress DEF Op, Arg
<1>5. /\ s \in DOMAIN Code /\ Held[s] = Outside
      /\ s \in JoinedCode <=> ip[t] \in JoinedCode
  <2>1. HeldAfter(Code, Held[ip[t]], ip[t]) = Outside
    BY <1>3 DEF HeldAfter, Op
  <2>. QED
    BY <1>1, <1>4, <2>1, HeldStep
<1>6. Depth[s] = 0
  <2>1. /\ n_spawn_tasks[t] = SpawnCount(Code, ip[t])
        /\ Depth[ip[t]] - Pops(Op(t)) = 2 * n_spawn_tasks[t]
    BY <1>2, CallFacts
  <2>2. DepthChange(Code, ip[t], s) = -Pops(Op(t)) - 2 * n_spawn_tasks[t]
    BY <1>3, <2>1 DEF DepthChange, Op, TestJumps
  <2>3. Depth[ip[t]] \in Nat /\ Pops(Op(t)) \in Nat
    BY <1>1, DepthStep DEF Pops
  <2>. QED
    BY <1>1, <1>4, <2>1, <2>2, <2>3, DepthStep
<1>7. /\ ip'[t] = s /\ thread'[t] = "run" /\ top'[t] = top[t]
      /\ \A u \in Tasks \ {t} : Same(u)
  BY <1>1, <1>2 DEF Same
<1>8. ~Inside(t)' /\ Holding(t)' = 0 /\ Words(t)' = 0
  BY <1>5, <1>6, <1>7 DEF Inside, Holding, Words
<1>9. Holding(t) = 0 \/ ip[t] \notin JoinedCode
  <2>1. CASE thread[t] = "wait"
    BY <1>3, <2>1, JoinedCodeFacts DEF Op
  <2>2. CASE thread[t] = "join"
    BY <1>1, <1>2, <2>2, CallFacts
  <2>. QED
    BY <1>2, <2>1, <2>2
<1>10. KidsLeft(t)
  BY <1>8, <1>9 DEF KidsLeft
<1>. QED
  BY <1>1, <1>2, <1>5, <1>7, <1>8, <1>10 DEF Moves

-----------------------------------------------------------------------------
(* The counters.                                                            *)

\* The increment makes up for the thread that was not counted before it.
LEMMA CountThreadCounts ==
  ASSUME TypeOK, RunningCountsLive, NEW t \in Tasks, CountThread(t)
  PROVE  RunningCountsLive'
<1>. USE DEF CountThread, shared, regs
<1>1. /\ thread[t] = "count" /\ thread' = [thread EXCEPT ![t] = "spawn"]
      /\ UNCHANGED <<heap, parent>> /\ thread'[t] = "spawn"
  BY DEF TypeOK, At, Become
<1>2. \A p : Outstanding(p)' = Outstanding(p)
  <2>1. \A d \in Tasks : Live(d)' = Live(d)
    BY <1>1 DEF Live, TypeOK
  <2>. QED
    BY <1>1, <2>1 DEF Outstanding
<1>. SUFFICES ASSUME NEW p \in heap
              PROVE  n_spawn_running'[p] =
                       (Cardinality(Outstanding(p)) - Truth(thread'[p] = "count")) % CounterMod
  BY <1>1, <1>2 DEF RunningCountsLive
<1>3. p \in Tasks /\ n_spawn_running[p] =
        (Cardinality(Outstanding(p)) - Truth(thread[p] = "count")) % CounterMod
  BY InHeapTasks DEF RunningCountsLive
<1>4. CASE p # t
  BY <1>1, <1>3, <1>4 DEF TypeOK
<1>5. CASE p = t
  <2> DEFINE n == Cardinality(Outstanding(t))
  <2>1. n \in Nat /\ n < CounterMod
    BY OutstandingType
  <2>. HIDE DEF n
  <2>2. n_spawn_running[t] = (n - 1) % CounterMod
    BY <1>1, <1>3, <1>5 DEF Truth, n
  <2>3. n_spawn_running[t] = IF n = 0 THEN CounterMod - 1 ELSE n - 1
    <3>1. n - 1 \in Int /\ -1 <= n - 1 /\ n - 1 < CounterMod
      BY <2>1, TaskAssumption
    <3>2. (n - 1) % CounterMod = IF n - 1 = -1 THEN CounterMod - 1 ELSE n - 1
      BY <3>1, ModBelow
    <3>. QED
      BY <2>1, <2>2, <3>2
  <2>4. n_spawn_running'[t] = n
    BY <2>1, <2>3, TaskAssumption DEF TypeOK
  <2>5. n % CounterMod = n /\ Truth(thread'[t] = "count") = 0 /\ n - 0 = n
    BY <1>1, <2>1, ModBelow DEF Truth
  <2>. QED
    BY <1>5, <2>4, <2>5 DEF n
<1>. QED
  BY <1>4, <1>5

\* The end of a thread: its parent's counter goes down with its children.
LEMMA CountDownCounts ==
  ASSUME IInv, RunningCountsLive, NEW t \in Tasks, CountDown(t)
  PROVE  RunningCountsLive'
<1>. USE DEF shared, regs
<1>1. PICK q \in heap :
        /\ q = parent[t]
        /\ n_spawn_running' = [n_spawn_running EXCEPT
             ![q] = IF n_spawn_running[q] = 0 THEN CounterMod - 1 ELSE n_spawn_running[q] - 1]
  BY DEF CountDown
<1>2. /\ TypeOK /\ thread[t] = "sub" /\ thread' = [thread EXCEPT ![t] = "exiting"]
      /\ UNCHANGED <<heap, parent, ip, stack, top, n_spawn_tasks, i>>
      /\ t \in heap /\ heap \subseteq Tasks
  BY InHeap, InHeapTasks DEF CountDown, At, Become, IInv
<1>3. thread'[t] = "exiting" /\ \A u \in Tasks \ {t} : Same(u)
  BY <1>2 DEF Same, TypeOK
<1>. SUFFICES ASSUME NEW r \in heap
              PROVE  n_spawn_running'[r] =
                       (Cardinality(Outstanding(r)') - Truth(thread'[r] = "count")) % CounterMod
  BY <1>2 DEF RunningCountsLive
<1>4. /\ \A d \in Tasks \ {t} : Live(d)' <=> Live(d)
      /\ Live(t) /\ ~Live(t)'
  BY <1>2, <1>3 DEF Live, Same
<1>5. thread'[r] = "count" <=> thread[r] = "count"
  BY <1>2, <1>3 DEF Same
<1>6. CASE r # q
  <2>1. n_spawn_running'[r] = n_spawn_running[r]
    BY <1>1, <1>2, <1>6 DEF TypeOK
  <2>. QED
    BY <1>1, <1>2, <1>4, <1>5, <1>6, <2>1, CountKept
<1>7. CASE r = q
  <2>1. Outstanding(q)' = Outstanding(q) \ {t} /\ t \in Outstanding(q)
    BY <1>1, <1>2, <1>4 DEF Outstanding
  <2>2. /\ Cardinality(Outstanding(q)') = Cardinality(Outstanding(q)) - 1
        /\ Cardinality(Outstanding(q)') \in Nat
    BY <2>1, OutstandingType, FS_RemoveElement, FS_CardinalityType
  <2>3. PICK n \in Int, x \in {0, 1} :
          /\ n = Cardinality(Outstanding(q)) - x /\ x = Truth(thread[q] = "count")
          /\ 0 <= n /\ n < CounterMod /\ Cardinality(Outstanding(q)') - x = n - 1
    <3> DEFINE m == Cardinality(Outstanding(q))
    <3>1. m \in Nat /\ m < CounterMod
      BY OutstandingType
    <3>2. PICK x \in {0, 1} : x = Truth(thread[q] = "count")
      BY DEF Truth
    <3>3. Cardinality(Outstanding(q)') = m - 1 /\ m - 1 \in Nat
      BY <2>2
    <3>. HIDE DEF m
    <3>4. /\ m - x \in Int /\ 0 <= m - x /\ m - x < CounterMod
          /\ Cardinality(Outstanding(q)') - x = (m - x) - 1
      BY <3>1, <3>3, TaskAssumption
    <3>. QED
      BY <3>2, <3>4 DEF m
  <2>4. n_spawn_running[q] = n
    <3>1. n % CounterMod = n
      BY <2>3, ModBelow
    <3>. QED
      BY <2>3, <3>1 DEF RunningCountsLive
  <2>5. (n - 1) % CounterMod = IF n = 0 THEN CounterMod - 1 ELSE n - 1
    <3>1. n - 1 \in Int /\ -1 <= n - 1 /\ n - 1 < CounterMod
      BY <2>3, TaskAssumption
    <3>2. (n - 1) % CounterMod = IF n - 1 = -1 THEN CounterMod - 1 ELSE n - 1
      BY <3>1, ModBelow
    <3>. QED
      BY <2>3, <3>2
  <2>6. n_spawn_running'[q] = (n - 1) % CounterMod
    BY <1>1, <1>2, <2>4, <2>5 DEF TypeOK
  <2>7. Truth(thread'[q] = "count") = x
    BY <1>5, <1>7, <2>3 DEF Truth
  <2>. QED
    BY <1>7, <2>3, <2>6, <2>7
<1>. QED
  BY <1>6, <1>7

\* A new block's counter is zero, and it has no children.
LEMMA NewBlockCounts ==
  ASSUME TypeOK, RunningCountsLive, NEW c \in Tasks \ heap, NEW q \in Tasks \union {NoTask},
         NewTask(c, q), thread'[c] \in {"none", "created"}, q # c,
         \A u \in Tasks \ {c} : thread'[u] = thread[u],
         \A d \in heap : parent[d] # c,
         q \in Tasks => thread'[c] = "none"
  PROVE  RunningCountsLive'
<1>. USE DEF NewTask
<1>1. /\ heap \subseteq Tasks /\ parent'[c] = q /\ n_spawn_running'[c] = 0
      /\ \A u \in Tasks \ {c} : /\ parent'[u] = parent[u]
                                /\ n_spawn_running'[u] = n_spawn_running[u]
  BY DEF TypeOK
<1>2. \A d \in Tasks \ {c} : Live(d)' <=> Live(d)
  BY <1>1 DEF Live
<1>. SUFFICES ASSUME NEW p \in heap'
              PROVE  n_spawn_running'[p] =
                       (Cardinality(Outstanding(p)') - Truth(thread'[p] = "count")) % CounterMod
  BY DEF RunningCountsLive
<1>3. CASE p = c
  <2>1. \A d \in Tasks : ~(Live(d)' /\ parent'[d] = c)
    BY <1>1, <1>2 DEF Live
  <2>2. Outstanding(c)' = {}
    BY <2>1 DEF Outstanding
  <2>3. Cardinality(Outstanding(c)') - Truth(thread'[c] = "count") = 0
    BY <2>2, EmptyCount DEF Truth
  <2>4. 0 % CounterMod = 0
    BY ModBelow, TaskAssumption
  <2>. QED
    BY <1>1, <1>3, <2>3, <2>4
<1>4. CASE p # c
  <2>1. p \in heap /\ p \in Tasks
    BY <1>1, <1>4
  <2>2. ~(Live(c)' /\ parent'[c] = p) /\ ~Live(c)
    BY <1>1, <2>1, TaskAssumption DEF Live
  <2>3. \A d \in Tasks : Live(d)' /\ parent'[d] = p <=> Live(d) /\ parent[d] = p
    BY <1>1, <1>2, <2>2
  <2>. QED
    BY <1>1, <1>4, <2>1, <2>3, CountKept
<1>. QED
  BY <1>3, <1>4

-----------------------------------------------------------------------------
(* These steps keep the invariant.                                          *)

LEMMA MovesKeepSInv ==
  ASSUME IInv, SInv, NEW t \in Tasks,
         \/ BeginSleep(t) \/ EndSleep(t) \/ StartTask(t) \/ EndTask(t) \/ CheckSiblings(t)
         \/ CountDown(t) \/ ExitThread(t) \/ RunSpawn(t) \/ CountThread(t) \/ BeginJoin(t)
         \/ BeginWait(t) \/ EndWait(t) \/ EndJoin(t)
  PROVE  SInv'
<1>. USE DEF shared, regs, spawnVars, At, Become
<1>1. TypeOK /\ RunningCountsLive /\ thread \in [Tasks -> ThreadStates]
  BY DEF IInv, TypeOK, SInv
<1>2. ASSUME NEW how, Crash(how)
      PROVE  SInv'
  BY <1>2, CrashKeepsSInv
<1>3. CASE BeginSleep(t) \/ EndSleep(t) \/ StartTask(t) \/ EndTask(t) \/ ExitThread(t)
  <2>1. Moves(t)
    BY <1>3, OutsideMoves
  <2>2. /\ UNCHANGED <<heap, n_spawn_running>> /\ thread[t] # "count"
        /\ Live(t)' = Live(t) \/ parent[t] = NoTask
    BY <1>1, <1>3 DEF BeginSleep, EndSleep, StartTask, EndTask, ExitThread, Live, Executes
  <2>. QED
    BY <1>1, <2>1, <2>2, QuietMove
<1>4. CASE CheckSiblings(t) /\ ~Crash("assert_siblings")
  <2>1. Moves(t)
    BY <1>4, OutsideMoves
  <2>2. UNCHANGED <<heap, n_spawn_running>> /\ thread[t] # "count" /\ Live(t)' = Live(t)
    BY <1>1, <1>4 DEF CheckSiblings, Live
  <2>. QED
    BY <1>1, <2>1, <2>2, QuietMove
<1>5. CASE CountDown(t) \/ CountThread(t)
  <2>1. Moves(t)
    BY <1>5, OutsideMoves, CallMoves
  <2>. QED
    BY <1>1, <1>5, <2>1, MovesKeep, CountDownCounts, CountThreadCounts DEF SInv
<1>6. CASE RunSpawn(t) \/ BeginJoin(t) \/ (BeginWait(t) /\ ~Crash("stack"))
  <2>1. Moves(t)
    BY <1>6, CallMoves
  <2>2. UNCHANGED <<heap, n_spawn_running>> /\ thread[t] # "count" /\ Live(t)' = Live(t)
    BY <1>1, <1>6 DEF RunSpawn, BeginJoin, BeginWait, Live, Executes
  <2>. QED
    BY <1>1, <2>1, <2>2, QuietMove
<1>7. CASE EndWait(t) \/ (EndJoin(t) /\ ~Crash("assert_join"))
  <2>1. Moves(t)
    BY <1>7, EndMoves
  <2>2. UNCHANGED <<heap, n_spawn_running>> /\ thread[t] # "count" /\ Live(t)' = Live(t)
    BY <1>1, <1>7 DEF EndWait, EndJoin, Live
  <2>. QED
    BY <1>1, <2>1, <2>2, QuietMove
<1>. QED
  BY <1>2, <1>3, <1>4, <1>5, <1>6, <1>7

-----------------------------------------------------------------------------
(* Children that start and are joined.                                      *)

\* The pointers exec_run_spawn and exec_run_then_join_spawn read back from the
\* stack are those of the children, the youngest first.
LEMMA ChildIsKid ==
  ASSUME IInv, SInv, NEW t \in Tasks, thread[t] \in {"spawn", "join"}, NEW k \in 0..Holding(t)-1
  PROVE  Child(t, k) = Kid(t, Holding(t) - 1 - k) /\ Holding(t) - 1 - k \in 0..Holding(t)-1
<1>1. /\ Holding(t) \in Nat /\ Base(t) \in Nat /\ top[t] \in Nat
      /\ Words(t) = top[t] - Base(t)
  BY TaskTypes DEF IInv
<1>2. Words(t) = 2 * Holding(t)
  BY CallFacts DEF Words
<1> DEFINE j == Holding(t) - 1 - k
<1>3. j \in 0..Holding(t)-1 /\ k \in Nat
  BY <1>1
<1>4. /\ top[t] >= 2*k + 2 /\ top[t] - 1 - 2*k = Base(t) + 2*j + 1
      /\ top[t] - 1 - (2*k + 1) = Base(t) + 2*j
  BY <1>1, <1>2, <1>3
<1>5. stack[t][Base(t) + 2*j] = <<"lo", Kid(t, j)>> /\ stack[t][Base(t) + 2*j + 1] = <<"hi", Kid(t, j)>>
  BY <1>3, KidFacts
<1>6. Peek(t, 2*k) = <<"hi", Kid(t, j)>> /\ Peek(t, 2*k + 1) = <<"lo", Kid(t, j)>>
  BY <1>4, <1>5 DEF Peek
<1>7. Peek(t, 2*k)[1] = "hi" /\ Peek(t, 2*k)[2] = Kid(t, j)
  BY <1>6
<1>8. Child(t, k) = Kid(t, j)
  BY <1>4, <1>6, <1>7 DEF Child
<1>. QED
  BY <1>3, <1>8

\* exec_run_spawn creates a thread for the youngest child that has none.
LEMMA CreateThreadEffect ==
  ASSUME IInv, SInv, NEW t \in Tasks, CreateThread(t)
  PROVE  /\ thread[t] = "spawn" /\ i[t] < n_spawn_tasks[t]
         /\ \E k \in 0..Holding(t)-1 :
              /\ k = n_spawn_tasks[t] - 1 - i[t] /\ Holding(t) = n_spawn_tasks[t]
              /\ thread[Kid(t, k)] = "none" /\ Kid(t, k) # t
              /\ thread' = [thread EXCEPT ![Kid(t, k)] = "created", ![t] = "count"]
         /\ UNCHANGED <<shared, regs, spawnVars>>
<1>1. thread[t] = "spawn" /\ i[t] < n_spawn_tasks[t] /\ TypeOK
  BY DEF CreateThread, At, IInv
<1>2. Holding(t) = n_spawn_tasks[t] /\ n_spawn_tasks[t] \in Nat /\ i[t] \in 0..Holding(t)-1
  BY <1>1, CallFacts, TaskTypes
<1>3. /\ Child(t, i[t]) = Kid(t, Holding(t) - 1 - i[t])
      /\ Holding(t) - 1 - i[t] \in 0..Holding(t)-1
  BY <1>1, <1>2, ChildIsKid
<1>4. Holding(t) - 1 - i[t] < Unstarted(t)
  BY <1>1, <1>2 DEF Unstarted
<1>5. Child(t, i[t]) \in heap /\ thread[Child(t, i[t])] = "none"
  BY <1>1, <1>3, <1>4, KidFacts
<1>. QED
  BY <1>1, <1>2, <1>3, <1>5 DEF CreateThread

\* The new thread is not counted until the increment.
LEMMA CreateThreadKeepsSInv ==
  ASSUME IInv, SInv, NEW t \in Tasks, CreateThread(t)
  PROVE  SInv'
<1>. USE DEF SInv, shared, regs, spawnVars
<1>1. PICK k \in 0..Holding(t)-1, c \in Tasks :
        /\ k = n_spawn_tasks[t] - 1 - i[t] /\ c = Kid(t, k) /\ c # t
        /\ thread[c] = "none" /\ thread' = [thread EXCEPT ![c] = "created", ![t] = "count"]
  BY CreateThreadEffect, KidFacts, InHeapTasks DEF IInv
<1>2. /\ TypeOK /\ thread[t] = "spawn" /\ i[t] < n_spawn_tasks[t]
      /\ UNCHANGED <<heap, parent, ip, stack, top, n_spawn_tasks, n_spawn_running, i>>
      /\ n_spawn_tasks[t] \in Nat /\ i[t] \in Nat /\ Holding(t) = n_spawn_tasks[t]
  BY CreateThreadEffect, TaskTypes DEF IInv
<1>3. c \in heap \ {RootTask} /\ c \in Tasks /\ parent[c] = t /\ heap \subseteq Tasks
  BY <1>1, <1>2, KidFacts, InHeapTasks
<1>4. /\ thread'[c] = "created" /\ thread'[t] = "count" /\ c # t
      /\ \A u \in Tasks \ {c, t} : thread'[u] = thread[u]
  BY <1>1, <1>2, <1>3 DEF TypeOK
<1>5. \A u \in Tasks \ {c, t} : Same(u)
  BY <1>2, <1>4 DEF Same
<1>6. \A u \in Tasks : /\ (Inside(u)' <=> Inside(u)) /\ Words(u)' = Words(u) /\ Base(u)' = Base(u)
                       /\ Holding(u)' = Holding(u) /\ \A m : Kid(u, m)' = Kid(u, m)
  <2>1. ASSUME NEW u \in {c, t}
        PROVE  /\ (Inside(u)' <=> Inside(u)) /\ Words(u)' = Words(u) /\ Holding(u)' = Holding(u)
    BY <1>1, <1>2, <1>4 DEF Inside, Words, Holding
  <2>2. ASSUME NEW u \in {c, t}
        PROVE  Base(u)' = Base(u) /\ \A m : Kid(u, m)' = Kid(u, m)
    BY <1>2, <2>1 DEF Base, Kid
  <2>. QED
    BY <1>5, <2>1, <2>2, SameTask
<1>7. DeepEnough'
  BY <1>2, <1>6 DEF DeepEnough
<1>8. LoopsInBounds'
  BY <1>2, <1>4, <1>5, <1>6 DEF LoopsInBounds, Same
<1>9. KidsOnStack'
  <2>1. ASSUME NEW u \in Tasks, NEW m \in 0..Holding(u)-1
        PROVE  KidOnStack(u, m)'
    <3>1. Kid(u, m) \in Tasks /\ Kid(u, m) \in heap /\ parent[Kid(u, m)] = u
      BY <1>3, KidFacts
    <3>2. thread'[Kid(u, m)] = "none" <=> m < Unstarted(u)'
      <4>1. CASE u = t
        <5>1. Unstarted(t) = n_spawn_tasks[t] - i[t] /\ Unstarted(t)' = n_spawn_tasks[t] - i[t] - 1
          BY <1>2, <1>4 DEF Unstarted
        <5>2. CASE m = k
          BY <1>1, <1>2, <1>4, <4>1, <5>1, <5>2
        <5>3. CASE m # k
          <6>1. Kid(t, m) # c
            BY <1>1, <4>1, <5>3, KidFacts
          <6>2. thread'[Kid(t, m)] = "none" <=> thread[Kid(t, m)] = "none"
            BY <1>2, <1>4, <3>1, <4>1, <6>1
          <6>3. thread[Kid(t, m)] = "none" <=> m < Unstarted(t)
            BY <4>1, KidFacts
          <6>. QED
            BY <1>1, <1>2, <4>1, <5>1, <5>3, <6>2, <6>3
        <5>. QED
          BY <5>2, <5>3
      <4>2. CASE u # t
        <5>1. Unstarted(u)' = Unstarted(u)
          <6>1. CASE u = c
            BY <1>1, <1>4, <6>1 DEF Unstarted
          <6>2. CASE u # c
            BY <1>5, <4>2, <6>2, SameTask
          <6>. QED
            BY <6>1, <6>2
        <5>2. Kid(u, m) # c
          BY <1>3, <3>1, <4>2
        <5>3. thread'[Kid(u, m)] = "none" <=> thread[Kid(u, m)] = "none"
          BY <1>2, <1>4, <3>1, <5>2
        <5>. QED
          BY <5>1, <5>3, KidFacts
      <4>. QED
        BY <4>1, <4>2
    <3>. QED
      BY <1>2, <1>6, <3>2, KidFacts DEF KidOnStack
  <2>. QED
    BY <1>6, <2>1, KidFacts DEF KidsOnStack
<1>10. Families'
  <2>1. thread'[RootTask] \notin {"end", "sub"}
    BY <1>3, <1>4, TaskAssumption DEF Families
  <2>. QED
    BY <1>2, <1>3, <1>6, <2>1 DEF Families
<1>11. RunningCountsLive'
  <2>. SUFFICES ASSUME NEW p \in heap
                PROVE  n_spawn_running'[p] =
                         (Cardinality(Outstanding(p)') - Truth(thread'[p] = "count")) % CounterMod
    BY <1>2 DEF RunningCountsLive
  <2>1. /\ \A d \in Tasks \ {c} : Live(d)' /\ parent'[d] = p <=> Live(d) /\ parent[d] = p
        /\ ~Live(c) /\ Live(c)' /\ parent'[c] = t
    BY <1>1, <1>2, <1>3, <1>4 DEF Live
  <2>2. CASE p # t
    <3>1. thread'[p] = "count" <=> thread[p] = "count"
      BY <1>1, <1>3, <1>4, <2>2
    <3>. QED
      BY <1>2, <1>3, <2>1, <2>2, <3>1, CountKept
  <2>3. CASE p = t
    <3>1. Outstanding(t)' = Outstanding(t) \union {c} /\ c \notin Outstanding(t)
      BY <1>3, <2>1, <2>3 DEF Outstanding
    <3>2. Cardinality(Outstanding(t)') = Cardinality(Outstanding(t)) + 1
      BY <3>1, OutstandingType, FS_AddElement
    <3>3. Truth(thread[t] = "count") = 0 /\ Truth(thread'[t] = "count") = 1
      BY <1>2, <1>4 DEF Truth
    <3>4. Cardinality(Outstanding(t)') - 1 = Cardinality(Outstanding(t)) - 0
      BY <3>2, OutstandingType
    <3>5. n_spawn_running[t] = (Cardinality(Outstanding(t)) - 0) % CounterMod
      BY <2>3, <3>3 DEF RunningCountsLive
    <3>. QED
      BY <1>2, <2>3, <3>3, <3>4, <3>5
  <2>. QED
    BY <2>2, <2>3
<1>. QED
  BY <1>7, <1>8, <1>9, <1>10, <1>11

\* OP_JOIN frees the youngest child, which has no children of its own.
LEMMA JoinThreadEffect ==
  ASSUME IInv, SInv, NEW t \in Tasks, JoinThread(t)
  PROVE  /\ thread[t] = "join" /\ i[t] < n_spawn_tasks[t]
         /\ \E n \in Nat, c \in heap \ {RootTask} :
              /\ Holding(t) = n + 1 /\ n = n_spawn_tasks[t] - i[t] - 1 /\ c = Kid(t, n)
              /\ parent[c] = t /\ thread[c] = "exited" /\ c # t
              /\ \A d \in heap : parent[d] # c
              /\ heap' = heap \ {c} /\ top' = [top EXCEPT ![t] = top[t] - 2]
              /\ i' = [i EXCEPT ![t] = i[t] + 1]
         /\ UNCHANGED <<parent, ip, stack, n_spawn_tasks, n_spawn_running, thread>>
<1>1. /\ TypeOK /\ thread[t] = "join" /\ i[t] < n_spawn_tasks[t]
      /\ thread[Child(t, 0)] = "exited" /\ heap' = heap \ {Child(t, 0)}
      /\ top' = [top EXCEPT ![t] = top[t] - 2] /\ i' = [i EXCEPT ![t] = i[t] + 1]
      /\ UNCHANGED <<parent, ip, stack, n_spawn_tasks, n_spawn_running, thread>>
  BY DEF JoinThread, At, SetTop, TypeOK, IInv
<1>2. /\ Holding(t) = n_spawn_tasks[t] - i[t] /\ n_spawn_tasks[t] \in Nat /\ i[t] \in Nat
      /\ ip[t] \in DOMAIN Code /\ Op(t) = "OP_JOIN"
  BY <1>1, CallFacts, TaskTypes DEF IInv, CallsMatchCode
<1>3. PICK n \in Nat : n = Holding(t) - 1
  BY <1>1, <1>2
<1>4. /\ Holding(t) = n + 1 /\ 0 \in 0..Holding(t)-1 /\ n \in 0..Holding(t)-1
      /\ Holding(t) - 1 - 0 = n /\ n = n_spawn_tasks[t] - i[t] - 1
  BY <1>2, <1>3
<1>5. Child(t, 0) = Kid(t, n)
  BY <1>1, <1>4, ChildIsKid
<1>6. PICK c \in heap \ {RootTask} : c = Kid(t, n) /\ parent[c] = t /\ ip[c] \in JoinedCode
  BY <1>2, <1>4, KidFacts, JoinedCodeFacts DEF Op
<1>7. c # t /\ thread[c] = "exited"
  BY <1>1, <1>5, <1>6
<1>8. Holding(c) = 0
  BY <1>7, HoldingOutside
<1>9. \A d \in heap : parent[d] # c
  BY <1>6, <1>8, TaskAssumption, InHeapTasks, <1>1 DEF SInv, Families
<1>. QED
  BY <1>1, <1>4, <1>5, <1>6, <1>7, <1>9

LEMMA JoinThreadKeepsSInv ==
  ASSUME IInv, SInv, NEW t \in Tasks, JoinThread(t)
  PROVE  SInv'
<1>. USE DEF SInv
<1>1. PICK n \in Nat, c \in heap \ {RootTask} :
        /\ Holding(t) = n + 1 /\ n = n_spawn_tasks[t] - i[t] - 1 /\ c = Kid(t, n)
        /\ parent[c] = t /\ thread[c] = "exited" /\ c # t
        /\ \A d \in heap : parent[d] # c
        /\ heap' = heap \ {c} /\ top' = [top EXCEPT ![t] = top[t] - 2]
        /\ i' = [i EXCEPT ![t] = i[t] + 1]
  BY JoinThreadEffect
<1>2. /\ TypeOK /\ thread[t] = "join" /\ i[t] < n_spawn_tasks[t]
      /\ UNCHANGED <<parent, ip, stack, n_spawn_tasks, n_spawn_running, thread>>
      /\ heap \subseteq Tasks /\ n_spawn_tasks[t] \in Nat /\ i[t] \in Nat
      /\ top[t] \in Nat /\ Base(t) \in Nat /\ Words(t) = top[t] - Base(t)
  BY JoinThreadEffect, TaskTypes, InHeapTasks DEF IInv
<1>3. top'[t] = top[t] - 2 /\ i'[t] = i[t] + 1 /\ \A u \in Tasks \ {t} : Same(u)
  BY <1>1, <1>2 DEF Same, TypeOK
<1>4. Inside(t) /\ Inside(t)' /\ Holding(t)' = n /\ Unstarted(t) = 0 /\ Unstarted(t)' = 0
  <2>1. n_spawn_tasks[t] - (i[t] + 1) = n
    BY <1>1, <1>2
  <2>. QED
    BY <1>2, <1>3, <2>1 DEF Inside, Holding, Unstarted
<1>5. Base(t)' = Base(t) /\ Words(t)' <= top'[t] /\ \A k : Kid(t, k)' = Kid(t, k)
  <2>1. Words(t) = 2 * (n_spawn_tasks[t] - i[t]) /\ Words(t)' = 2 * (n_spawn_tasks[t] - (i[t] + 1))
    BY <1>2, <1>3 DEF Words
  <2>2. Base(t)' = Base(t) /\ Words(t)' <= top'[t]
    BY <1>2, <1>3, <2>1 DEF Base
  <2>. QED
    BY <1>2, <2>2 DEF Kid
<1>6. \A u \in Tasks \ {t} : /\ (Inside(u)' <=> Inside(u)) /\ Unstarted(u)' = Unstarted(u)
                             /\ Words(u)' = Words(u) /\ Base(u)' = Base(u)
                             /\ Holding(u)' = Holding(u) /\ \A k : Kid(u, k)' = Kid(u, k)
  BY <1>3, SameTask
<1>7. DeepEnough'
  BY <1>3, <1>5, <1>6 DEF DeepEnough, Same
<1>8. LoopsInBounds'
  <2>1. i'[t] <= n_spawn_tasks[t] /\ n_spawn_tasks[t] = SpawnCount(Code, ip[t])
    BY <1>2, <1>3, <1>4 DEF LoopsInBounds
  <2>. QED
    BY <1>2, <1>3, <1>6, <2>1 DEF LoopsInBounds, Same
<1>9. KidsOnStack'
  <2>1. 0..n-1 \subseteq 0..Holding(t)-1 /\ n \in 0..Holding(t)-1 /\ n \notin 0..n-1
    BY <1>1
  <2>2. ASSUME NEW u \in Tasks, NEW k \in 0..Holding(u)'-1
        PROVE  k \in 0..Holding(u)-1 /\ Kid(u, k) # c
    <3>1. k \in 0..Holding(u)-1
      BY <1>4, <1>6, <2>1, <2>2
    <3>2. CASE u = t
      BY <1>1, <1>4, <2>1, <2>2, <3>2, KidFacts
    <3>3. CASE u # t
      BY <1>1, <3>1, <3>3, KidFacts
    <3>. QED
      BY <3>1, <3>2, <3>3
  <2>3. \A u \in Tasks : /\ Unstarted(u)' = Unstarted(u) /\ Base(u)' = Base(u)
                         /\ \A k : Kid(u, k)' = Kid(u, k)
    BY <1>4, <1>5, <1>6
  <2>4. ASSUME NEW u \in Tasks, NEW k \in 0..Holding(u)'-1
        PROVE  KidOnStack(u, k)'
    <3>1. k \in 0..Holding(u)-1 /\ Kid(u, k) # c
      BY <2>2, <2>4
    <3>. QED
      BY <1>1, <1>2, <2>3, <3>1, KidFacts DEF KidOnStack
  <2>. QED
    BY <2>2, <2>3, <2>4, KidFacts DEF KidsOnStack
<1>10. Families'
  <2>1. ASSUME NEW d \in heap' \ {RootTask}
        PROVE  parent'[d] \in heap' \union {RootTask}
    BY <1>1, <1>2, <2>1 DEF Families
  <2>2. ASSUME NEW d \in heap' \ {RootTask}, parent'[d] \in heap', ip'[parent'[d]] \in JoinedCode
        PROVE  \E k \in 0..Holding(parent[d])'-1 : d = Kid(parent[d], k)'
    <3>1. PICK u \in Tasks, k \in Nat : u = parent[d] /\ k \in 0..Holding(u)-1 /\ d = Kid(u, k)
      BY <1>1, <1>2, <2>2 DEF Families
    <3>2. CASE u = t
      <4>1. k # n
        BY <1>1, <2>2, <3>1, <3>2
      <4>2. k \in 0..n-1
        BY <1>1, <3>1, <3>2, <4>1
      <4>. QED
        BY <1>2, <1>4, <1>5, <3>1, <3>2, <4>2
    <3>3. CASE u # t
      BY <1>2, <1>6, <3>1, <3>3
    <3>. QED
      BY <3>2, <3>3
  <2>. QED
    BY <1>2, <2>1, <2>2 DEF Families
<1>11. RunningCountsLive'
  <2>. SUFFICES ASSUME NEW p \in heap'
                PROVE  n_spawn_running'[p] =
                         (Cardinality(Outstanding(p)') - Truth(thread'[p] = "count")) % CounterMod
    BY DEF RunningCountsLive
  <2>1. \A d \in Tasks : Live(d)' <=> Live(d)
    BY <1>1, <1>2 DEF Live
  <2>. QED
    BY <1>1, <1>2, <2>1, CountKept
<1>. QED
  BY <1>7, <1>8, <1>9, <1>10, <1>11

\* OP_SPAWN adds a child on top of the stack.
LEMMA SpawnEffect ==
  ASSUME IInv, SInv, NEW t \in Tasks, Spawn(t)
  PROVE  \E n \in Nat, c \in Tasks \ heap :
           /\ c # t /\ c # RootTask /\ t \in heap /\ \A d \in heap : parent[d] # c
           /\ NewTask(c, t) /\ parent'[c] = t /\ ip'[c] = Arg(t)
           /\ thread'[c] = "none" /\ top'[c] = 0
           /\ \A u \in Tasks \ {c} : thread'[u] = thread[u] /\ parent'[u] = parent[u]
           /\ \A u \in Tasks \ {c, t} : Same(u)
           /\ UNCHANGED <<n_spawn_tasks, i>>
           /\ thread[t] = "run" /\ Op(t) = "OP_SPAWN"
           /\ ip'[t] = ip[t] + 1 /\ ip[t] \in DOMAIN Code /\ ip[t] + 1 \in Successors(Code, ip[t])
           /\ Inside(t) /\ Inside(t)' /\ Words(t)' <= top'[t] /\ Base(t)' = Base(t)
           /\ Holding(t) = n /\ Holding(t)' = n + 1 /\ Unstarted(t) = n /\ Unstarted(t)' = n + 1
           /\ stack'[t][Base(t) + 2*n] = <<"lo", c>> /\ stack'[t][Base(t) + 2*n + 1] = <<"hi", c>>
           /\ \A j \in 0..Base(t)+2*n-1 : stack'[t][j] = stack[t][j]
<1>1. PICK c \in Tasks \ heap :
        /\ NewTask(c, t)
        /\ thread' = [thread EXCEPT ![c] = "none"]
        /\ ip' = [ip EXCEPT ![c] = Arg(t), ![t] = ip[t] + 1]
        /\ top' = [top EXCEPT ![c] = 0, ![t] = top[t] + 2]
        /\ stack' = [stack EXCEPT ![c] = FreshStack,
                                  ![t][top[t]] = <<"lo", c>>, ![t][top[t] + 1] = <<"hi", c>>]
  BY DEF Spawn
<1>2. /\ TypeOK /\ Op(t) = "OP_SPAWN" /\ thread[t] = "run" /\ t \in heap /\ main # "start"
      /\ main # "exit" /\ UNCHANGED <<n_spawn_tasks, i>> /\ ip[t] \in DOMAIN Code
      /\ heap \subseteq Tasks
  BY InHeap, InHeapTasks, TaskTypes DEF Spawn, Executes, At, IInv
<1>3. c # t /\ c # RootTask /\ \A d \in heap : parent[d] # c
  BY <1>2, NoOrphans
<1>4. /\ parent'[c] = t /\ ip'[c] = Arg(t) /\ thread'[c] = "none" /\ top'[c] = 0
      /\ \A u \in Tasks \ {c} : thread'[u] = thread[u] /\ parent'[u] = parent[u]
      /\ thread'[t] = "run" /\ ip'[t] = ip[t] + 1 /\ top'[t] = top[t] + 2
  BY <1>1, <1>2, <1>3 DEF TypeOK, NewTask
<1>5. \A u \in Tasks \ {c, t} : Same(u)
  BY <1>1, <1>2 DEF Same, TypeOK
<1>6. ip[t] + 1 \in Successors(Code, ip[t])
  BY <1>2, NextAddress DEF Op
<1>7. PICK n \in Nat :
        /\ Held[ip[t]] = n /\ Held[ip[t]] # Outside /\ Depth[ip[t]] = 2 * n /\ Inside(t)
        /\ Holding(t) = n /\ Unstarted(t) = n
  <2>1. Held[ip[t]] # Outside
    BY <1>2, OutsideCode DEF Op, StatementOps
  <2>2. Pops(Op(t)) = 0
    BY <1>2 DEF Pops, BinaryOps, UnaryOps, CondJumps, TestJumps
  <2>3. Held[ip[t]] \in Nat /\ Depth[ip[t]] - 0 = 2 * Held[ip[t]] /\ Depth[ip[t]] \in Nat
    BY <1>2, <2>1, <2>2, InsideCode, DepthStep DEF Op, StatementOps
  <2>. QED
    BY <1>2, <2>1, <2>3 DEF Inside, Holding, Unstarted
<1>8. Held[ip[t] + 1] = n + 1 /\ Held[ip[t] + 1] # Outside /\ Depth[ip[t] + 1] = 2 * n + 2
  <2>1. HeldAfter(Code, Held[ip[t]], ip[t]) = n + 1
    BY <1>2, <1>7 DEF HeldAfter, Op
  <2>2. DepthChange(Code, ip[t], ip[t] + 1) = 2
    BY <1>2 DEF DepthChange, Op, Pushes, Pops, BinaryOps, UnaryOps, CondJumps, TestJumps
  <2>. QED
    BY <1>2, <1>6, <1>7, <2>1, <2>2, HeldStep, DepthStep DEF Outside
<1>9. Inside(t)' /\ Holding(t)' = n + 1 /\ Unstarted(t)' = n + 1
  BY <1>4, <1>8 DEF Inside, Holding, Unstarted
<1>10. /\ Words(t)' <= top'[t] /\ Base(t)' = Base(t) /\ Base(t) \in Nat
       /\ top[t] = Base(t) + 2*n
  <2>1. Words(t) = 2 * n /\ Words(t)' = 2 * n + 2
    BY <1>2, <1>4, <1>7, <1>8 DEF Words
  <2>2. Base(t) \in Nat /\ top[t] \in Nat /\ Words(t) = top[t] - Base(t)
    BY <1>2, TaskTypes
  <2>3. Base(t)' = Base(t)
    BY <1>4, <2>1, <2>2 DEF Base
  <2>. QED
    BY <1>4, <2>1, <2>2, <2>3
<1>11. /\ stack'[t][Base(t) + 2*n] = <<"lo", c>> /\ stack'[t][Base(t) + 2*n + 1] = <<"hi", c>>
       /\ \A j \in 0..Base(t)+2*n-1 : stack'[t][j] = stack[t][j]
  <2>1. stack[t] \in [0..StackSize-1 -> Word] /\ stack \in [Tasks -> [0..StackSize-1 -> Word]]
    BY <1>2 DEF TypeOK
  <2>2. stack'[t] = [stack[t] EXCEPT ![top[t]] = <<"lo", c>>, ![top[t] + 1] = <<"hi", c>>]
    BY <1>1, <1>3, <2>1
  <2>3. top[t] \in 0..StackSize-1 /\ top[t] + 1 \in 0..StackSize-1
    BY <1>2, StackEffect DEF Spawn, Executes
  <2>4. /\ stack'[t][top[t]] = <<"lo", c>> /\ stack'[t][top[t] + 1] = <<"hi", c>>
        /\ \A j \in 0..top[t]-1 : stack'[t][j] = stack[t][j]
    <3>1. /\ \A j \in 0..top[t]-1 : j \in 0..StackSize-1 /\ j # top[t] /\ j # top[t] + 1
          /\ top[t] # top[t] + 1
      BY <2>3, MemoryAssumption
    <3>. QED
      BY <2>1, <2>2, <2>3, <3>1
  <2>. QED
    BY <1>10, <2>4
<1>. QED
  BY <1>1, <1>2, <1>3, <1>4, <1>5, <1>6, <1>7, <1>9, <1>10, <1>11

LEMMA SpawnKeepsSInv ==
  ASSUME IInv, SInv, NEW t \in Tasks, Spawn(t)
  PROVE  SInv'
<1>. USE DEF SInv
<1>1. PICK n \in Nat, c \in Tasks \ heap :
        /\ c # t /\ c # RootTask /\ t \in heap /\ \A d \in heap : parent[d] # c
        /\ NewTask(c, t) /\ parent'[c] = t /\ ip'[c] = Arg(t)
        /\ thread'[c] = "none" /\ top'[c] = 0
        /\ \A u \in Tasks \ {c} : thread'[u] = thread[u] /\ parent'[u] = parent[u]
        /\ \A u \in Tasks \ {c, t} : Same(u)
        /\ UNCHANGED <<n_spawn_tasks, i>>
        /\ thread[t] = "run" /\ Op(t) = "OP_SPAWN"
        /\ ip'[t] = ip[t] + 1 /\ ip[t] \in DOMAIN Code /\ ip[t] + 1 \in Successors(Code, ip[t])
        /\ Inside(t) /\ Inside(t)' /\ Words(t)' <= top'[t] /\ Base(t)' = Base(t)
        /\ Holding(t) = n /\ Holding(t)' = n + 1 /\ Unstarted(t) = n /\ Unstarted(t)' = n + 1
        /\ stack'[t][Base(t) + 2*n] = <<"lo", c>> /\ stack'[t][Base(t) + 2*n + 1] = <<"hi", c>>
        /\ \A j \in 0..Base(t)+2*n-1 : stack'[t][j] = stack[t][j]
  BY SpawnEffect
<1>2. /\ TypeOK /\ heap \subseteq Tasks /\ heap' = heap \union {c} /\ thread'[t] = "run"
      /\ Base(t) \in Nat
  BY <1>1, InHeapTasks, TaskTypes DEF IInv, NewTask
<1>3. ~Inside(c)' /\ Holding(c)' = 0 /\ Words(c)' = 0
  BY <1>1 DEF Inside, Holding, Words
<1>4. \A u \in Tasks \ {c, t} :
        /\ (Inside(u)' <=> Inside(u)) /\ Words(u)' = Words(u) /\ Base(u)' = Base(u)
        /\ Holding(u)' = Holding(u) /\ Unstarted(u)' = Unstarted(u)
        /\ \A k : Kid(u, k)' = Kid(u, k)
  BY <1>1, SameTask
<1>5. /\ Kid(t, n)' = c /\ \A k \in 0..n-1 : Kid(t, k)' = Kid(t, k)
      /\ \A k \in 0..n-1 : /\ stack'[t][Base(t) + 2*k] = stack[t][Base(t) + 2*k]
                           /\ stack'[t][Base(t) + 2*k + 1] = stack[t][Base(t) + 2*k + 1]
  <2>1. \A k \in 0..n-1 : Base(t) + 2*k \in 0..Base(t)+2*n-1 /\ Base(t) + 2*k + 1 \in 0..Base(t)+2*n-1
    BY <1>2
  <2>2. \A k \in 0..n-1 : /\ stack'[t][Base(t) + 2*k] = stack[t][Base(t) + 2*k]
                          /\ stack'[t][Base(t) + 2*k + 1] = stack[t][Base(t) + 2*k + 1]
    BY <1>1, <2>1
  <2>3. stack'[t][Base(t)' + 2*n][2] = c
    BY <1>1
  <2>. QED
    BY <1>1, <2>2, <2>3 DEF Kid
<1>6. /\ JoinedAt(Code, ip'[t]) => JoinedAt(Code, ip[t])
      /\ JoinedAt(Code, ip'[t]) => ip'[c] \in JoinedCode
      /\ ip'[t] \in JoinedCode <=> ip[t] \in JoinedCode
  BY <1>1, JoinedCodeFacts, HeldStep DEF Op, Arg
<1>7. DeepEnough'
  BY <1>1, <1>3, <1>4 DEF DeepEnough, Same
<1>8. LoopsInBounds'
  <2>1. n_spawn_tasks'[t] = SpawnCount(Code, ip'[t])
    <3>1. SpawnCount(Code, ip[t] + 1) = SpawnCount(Code, ip[t])
      BY <1>1, SpawnCountNext DEF Op
    <3>. QED
      BY <1>1, <3>1 DEF LoopsInBounds
  <2>2. ASSUME NEW u \in Tasks \ {c, t}
        PROVE  /\ Inside(u)' => n_spawn_tasks'[u] = SpawnCount(Code, ip'[u])
               /\ thread'[u] \in {"spawn", "join"} => i'[u] <= n_spawn_tasks'[u]
               /\ thread'[u] = "count" => i'[u] < n_spawn_tasks'[u]
    BY <1>1, <1>4 DEF LoopsInBounds, Same
  <2>. QED
    BY <1>1, <1>2, <1>3, <2>1, <2>2 DEF LoopsInBounds
<1>9. KidsOnStack'
  <2>1. ASSUME NEW u \in Tasks, NEW k \in 0..Holding(u)-1
        PROVE  /\ Kid(u, k) # c /\ Kid(u, k) \in Tasks /\ Kid(u, k) \in heap' \ {RootTask}
               /\ parent'[Kid(u, k)] = u /\ thread'[Kid(u, k)] = thread[Kid(u, k)]
               /\ ip[Kid(u, k)] \in JoinedCode => ip'[Kid(u, k)] \in JoinedCode
    <3>1. Kid(u, k) # c /\ Kid(u, k) \in heap \ {RootTask} /\ parent[Kid(u, k)] = u
      BY <1>1, KidFacts
    <3>2. ip[Kid(u, k)] \in JoinedCode => ip'[Kid(u, k)] \in JoinedCode
      BY <1>1, <1>2, <1>6, <3>1 DEF Same
    <3>. QED
      BY <1>1, <1>2, <3>1, <3>2
  <2>2. ASSUME NEW u \in Tasks \ {c, t}
        PROVE  /\ \A k \in 0..Holding(u)'-1 : KidOnStack(u, k)'
               /\ \A j, k \in 0..Holding(u)'-1 : Kid(u, j)' = Kid(u, k)' => j = k
    <3>1. Same(u)
      BY <1>1
    <3>. QED
      BY <1>4, <2>1, <3>1, KidFacts DEF KidOnStack, Same
  <2>3. 0..Holding(t)'-1 = 0..n-1 \union {n} /\ 0..n-1 = 0..Holding(t)-1
    BY <1>1
  <2>4. ASSUME NEW k \in 0..n-1
        PROVE  KidOnStack(t, k)' /\ Kid(t, k)' # c
    <3>1. k < n /\ k < n + 1
      OBVIOUS
    <3>2. thread[Kid(t, k)] = "none"
      BY <1>1, <2>3, <3>1, KidFacts
    <3>. QED
      BY <1>1, <1>5, <1>6, <2>1, <2>3, <3>1, <3>2, KidFacts DEF KidOnStack
  <2>5. KidOnStack(t, n)'
    <3>1. n < n + 1 /\ c \in heap'
      BY <1>2
    <3>. QED
      BY <1>1, <1>5, <1>6, <3>1 DEF KidOnStack
  <2>6. \A j, k \in 0..n-1 : Kid(t, j)' = Kid(t, k)' => j = k
    BY <1>5, <2>3, KidFacts
  <2>7. /\ \A k \in 0..Holding(t)'-1 : KidOnStack(t, k)'
        /\ \A j, k \in 0..Holding(t)'-1 : Kid(t, j)' = Kid(t, k)' => j = k
    BY <1>5, <2>3, <2>4, <2>5, <2>6
  <2>. QED
    BY <1>3, <2>2, <2>7 DEF KidsOnStack
<1>10. Families'
  <2>1. parent'[RootTask] = NoTask /\ thread'[RootTask] \notin {"end", "sub"}
    BY <1>1, TaskAssumption DEF Families
  <2>2. ASSUME NEW d \in heap' \ {RootTask}
        PROVE  parent'[d] \in heap' \union {RootTask}
    BY <1>1, <1>2, <2>2 DEF Families
  <2>3. ASSUME NEW d \in heap' \ {RootTask}, NEW u \in Tasks, u = parent'[d],
               u \in heap', ip'[u] \in JoinedCode
        PROVE  \E k \in 0..Holding(u)'-1 : d = Kid(u, k)'
    <3>1. CASE d = c
      <4>1. u = t /\ n \in 0..Holding(t)'-1
        BY <1>1, <2>3, <3>1
      <4>. QED
        BY <1>5, <3>1, <4>1
    <3>2. CASE d # c
      <4>1. /\ d \in heap \ {RootTask} /\ u = parent[d] /\ u # c /\ u \in heap
            /\ ip[u] \in JoinedCode
        BY <1>1, <1>2, <1>6, <2>3, <3>2 DEF Same
      <4>2. PICK k \in 0..Holding(u)-1 : d = Kid(u, k)
        BY <4>1 DEF Families
      <4>3. CASE u = t
        BY <1>1, <1>5, <4>2, <4>3
      <4>4. CASE u # t
        BY <1>4, <4>1, <4>2, <4>4
      <4>. QED
        BY <4>3, <4>4
    <3>. QED
      BY <3>1, <3>2
  <2>. QED
    BY <1>2, <2>1, <2>2, <2>3, TaskAssumption DEF Families
<1>11. RunningCountsLive'
  BY <1>1, <1>2, NewBlockCounts
<1>. QED
  BY <1>7, <1>8, <1>9, <1>10, <1>11

-----------------------------------------------------------------------------
(* The main thread.                                                         *)

LEMMA MainStartKeepsSInv ==
  ASSUME IInv, SInv, MainStart
  PROVE  SInv'
<1>. USE DEF SInv
<1>1. /\ TypeOK /\ heap = {} /\ heap' = {RootTask} /\ RootTask \in Tasks
      /\ NewTask(RootTask, NoTask)
      /\ top' = [top EXCEPT ![RootTask] = 0] /\ thread' = [thread EXCEPT ![RootTask] = "created"]
      /\ \A u \in Tasks : thread[u] \in {"none", "exited"}
  BY TaskAssumption DEF MainStart, NewTask, Become, BlocksInUse, IInv
<1>2. /\ \A u \in Tasks : thread'[u] \in {"none", "exited", "created"}
      /\ thread'[RootTask] = "created" /\ parent'[RootTask] = NoTask
      /\ \A u \in Tasks \ {RootTask} : thread'[u] = thread[u]
      /\ \A u \in Tasks : top'[u] \in Nat
  BY <1>1, MemoryAssumption DEF TypeOK, NewTask
<1>3. \A u \in Tasks : ~Inside(u)' /\ Holding(u)' = 0 /\ Words(u)' = 0
  BY <1>2 DEF Inside, Holding, Words
<1>4. DeepEnough' /\ LoopsInBounds' /\ KidsOnStack'
  BY <1>2, <1>3 DEF DeepEnough, LoopsInBounds, KidsOnStack
<1>5. Families'
  BY <1>1, <1>2 DEF Families
<1>6. RunningCountsLive'
  BY <1>1, <1>2, NewBlockCounts, TaskAssumption
<1>. QED
  BY <1>4, <1>5, <1>6

\* The init task's thread has exited: nobody holds its address.
LEMMA MainFreeKeepsSInv ==
  ASSUME IInv, SInv, MainFree
  PROVE  SInv'
<1>. USE DEF SInv, regs, spawnVars
<1>1. /\ heap' = heap \ {RootTask} /\ thread[RootTask] = "exited" /\ heap \subseteq Tasks
      /\ UNCHANGED <<parent, ip, stack, top, n_spawn_tasks, n_spawn_running, i, thread>>
  BY InHeapTasks DEF MainFree, BlocksInUse, IInv
<1>2. \A u : Same(u)
  BY <1>1 DEF Same
<1>3. \A u : /\ (Inside(u)' <=> Inside(u)) /\ Words(u)' = Words(u) /\ Base(u)' = Base(u)
             /\ Holding(u)' = Holding(u) /\ Unstarted(u)' = Unstarted(u)
             /\ \A k : Kid(u, k)' = Kid(u, k)
  BY <1>2, SameTask
<1>4. DeepEnough' /\ LoopsInBounds'
  BY <1>1, <1>3 DEF DeepEnough, LoopsInBounds
<1>5. KidsOnStack'
  BY <1>1, <1>3 DEF KidsOnStack, KidOnStack
<1>6. Families'
  BY <1>1, <1>3 DEF Families
<1>7. RunningCountsLive'
  <2>. SUFFICES ASSUME NEW p \in heap'
                PROVE  n_spawn_running'[p] =
                         (Cardinality(Outstanding(p)') - Truth(thread'[p] = "count")) % CounterMod
    BY DEF RunningCountsLive
  <2>1. \A d \in Tasks : Live(d)' <=> Live(d)
    BY <1>1 DEF Live
  <2>. QED
    BY <1>1, <2>1, CountKept
<1>. QED
  BY <1>4, <1>5, <1>6, <1>7

-----------------------------------------------------------------------------
(* The invariant.                                                           *)

LEMMA InitSInv == Init => SInv
<1>. SUFFICES ASSUME Init PROVE SInv
  OBVIOUS
<1>. USE DEF Init
<1>1. \A t \in Tasks : /\ thread[t] = "none" /\ top[t] = 0 /\ parent[t] = NoTask
                       /\ ~Inside(t) /\ Holding(t) = 0 /\ Words(t) = 0
  BY DEF Inside, Holding, Words
<1>2. DeepEnough /\ LoopsInBounds /\ KidsOnStack
  BY <1>1 DEF DeepEnough, LoopsInBounds, KidsOnStack
<1>3. Families /\ RunningCountsLive
  BY <1>1, TaskAssumption DEF Families, RunningCountsLive
<1>. QED
  BY <1>2, <1>3 DEF SInv

LEMMA NextSInv ==
  ASSUME IInv, SInv, [Next]_vars
  PROVE  SInv'
<1>1. ASSUME NEW t \in Tasks, Instruction(t)
      PROVE  SInv'
  BY <1>1, InstructionEffect, CrashKeepsSInv, LocalKeepsSInv, SpawnKeepsSInv, MovesKeepSInv
     DEF IInv
<1>2. ASSUME NEW t \in Tasks, InsideCall(t)
      PROVE  SInv'
  BY <1>2, CreateThreadKeepsSInv, JoinThreadKeepsSInv, MovesKeepSInv DEF InsideCall
<1>3. ASSUME NEW t \in Tasks, TouchFreed(t)
      PROVE  SInv'
  BY <1>3, CrashKeepsSInv DEF TouchFreed
<1>4. CASE MainThread
  BY <1>4, MainStartKeepsSInv, MainFreeKeepsSInv, StillKeepsSInv
     DEF MainThread, MainNoModule, MainJoin, MainExit, taskVars
<1>5. CASE UNCHANGED vars
  BY <1>5, StillKeepsSInv DEF vars, regs, spawnVars
<1>. QED
  BY <1>1, <1>2, <1>3, <1>4, <1>5 DEF Next, TaskStep, Ended

\* The inductive invariant of programs in which joined tasks do not wait: what
\* the compiler intends lies on top of each stack, the addresses of a spawn
\* statement are those of children, and the counters count them.
THEOREM SpawnInvariant == Spec => [](IInv /\ SInv)
<1>1. Init => IInv /\ SInv
  BY InitInvariant, InitSInv
<1>2. (IInv /\ SInv) /\ [Next]_vars => (IInv /\ SInv)'
  BY NextInvariant, NextSInv
<1>. QED
  BY <1>1, <1>2, PTL DEF Spec

-----------------------------------------------------------------------------
(* Theorems.                                                                *)

\* task_n_spawn_running of a task counts its threads that have yet to stop,
\* also when it does not wait for them to stop: neither a decrement in a block
\* that has been given to another task nor one that comes before its increment
\* makes the counter wrong.
THEOREM WaitCountersCount == Spec => []RunningCountsLive
<1>1. SInv => RunningCountsLive
  BY DEF SInv
<1>. QED
  BY <1>1, SpawnInvariant, PTL

\* exec_run_spawn never follows a word that is no pointer to a task without a
\* thread, however many words the loops of 'wait' have left on the stack.
THEOREM SpawnFindsChildren == Spec => []ChildrenFound
<1>1. Init => ChildrenFound
  BY DEF Init, ChildrenFound
<1>2. ASSUME IInv, SInv, ChildrenFound, [Next]_vars
      PROVE  ChildrenFound'
  <2>. USE DEF ChildrenFound, OnlyRegs, shared, Crash
  <2>1. ASSUME NEW t \in Tasks, Instruction(t)
        PROVE  proc' # "wild_pointer"
    BY <1>2, <2>1 DEF Instruction, PushConst, PushVar, PopInt, UnaryOp, BinaryOp, Jump, CondJump,
       TestJump, BadInstruction, PrintInt, PrintText, BeginAtomicPrint, EndAtomicPrint,
       BeginSpawn, Spawn, SpawnNoMemory, RunSpawn, BeginSleep, EndTask
  <2>2. ASSUME NEW t \in Tasks, InsideCall(t) \/ TouchFreed(t)
        PROVE  proc' # "wild_pointer"
    <3>1. CASE CreateThread(t)
      BY <1>2, <3>1, CreateThreadEffect
    <3>. QED
      BY <1>2, <2>2, <3>1 DEF InsideCall, CountThread, BeginJoin, JoinThread, EndJoin, BeginWait,
         EndWait, EndSleep, StartTask, CheckSiblings, CountDown, ExitThread, TouchFreed
  <2>. QED
    BY <1>2, <2>1, <2>2 DEF Next, TaskStep, Ended, vars, MainThread, MainStart, MainNoModule,
       MainJoin, MainFree, MainExit
<1>. QED
  BY <1>1, <1>2, SpawnInvariant, PTL DEF Spec

\* The process ends for want of stack only when an instruction's result does
\* not fit: no instruction of such a program, and no loop of 'wait', pops a word
\* that is not there.
THEOREM StackNeverUnderflows == Spec => StackOnlyOverflows
<1>1. ASSUME IInv, SInv, [Next]_vars, proc = "running", proc' = "stack"
      PROVE  \E t \in Tasks :
               thread[t] = "run" /\ top[t] - Pops(Op(t)) + Pushes(Op(t)) > StackSize
  <2>. USE DEF OnlyRegs, shared, Crash
  <2>1. ASSUME NEW t \in Tasks, InsideCall(t) \/ TouchFreed(t)
        PROVE  FALSE
    <3>1. CASE BeginWait(t)
      <4>1. thread[t] = "spawn" /\ top[t] < n_spawn_tasks[t]
        BY <1>1, <3>1, TaskTypes DEF BeginWait, At, IInv
      <4>2. Words(t) = 2 * n_spawn_tasks[t] /\ Words(t) <= top[t]
        BY <1>1, <4>1 DEF Words, SInv, DeepEnough
      <4>. QED
        BY <1>1, <4>1, <4>2, TaskTypes DEF IInv
    <3>. QED
      BY <1>1, <2>1, <3>1 DEF InsideCall, CreateThread, CountThread, BeginJoin, JoinThread,
         EndJoin, EndWait, EndSleep, StartTask, CheckSiblings, CountDown, ExitThread, TouchFreed
  <2>2. PICK t \in Tasks : Instruction(t)
    BY <1>1, <2>1 DEF Next, TaskStep, Ended, vars, MainThread, MainStart, MainNoModule,
       MainJoin, MainFree, MainExit
  <2>3. thread[t] = "run" /\ ~StackOK(t)
    BY <1>1, <2>2 DEF Instruction, PushConst, PushVar, PopInt, UnaryOp, BinaryOp, Jump, CondJump,
       TestJump, BadInstruction, PrintInt, PrintText, BeginAtomicPrint, EndAtomicPrint,
       BeginSpawn, Spawn, SpawnNoMemory, RunSpawn, BeginSleep, EndTask, At
  <2>4. /\ ip[t] \in DOMAIN Code /\ top[t] \in Nat /\ Depth[ip[t]] \in Nat
        /\ Words(t) = Depth[ip[t]] /\ Words(t) <= top[t]
    BY <1>1, <2>3, TaskTypes, DepthStep DEF IInv, Words, SInv, DeepEnough
  <2>5. Depth[ip[t]] >= Pops(Op(t)) /\ Pops(Op(t)) \in Nat /\ Pushes(Op(t)) \in Nat
    BY <2>4, DepthAssumption DEF DepthOf, Op, Pops, Pushes
  <2>6. top[t] >= Pops(Op(t))
    BY <2>4, <2>5
  <2>. QED
    BY <2>3, <2>4, <2>5, <2>6, MemoryAssumption DEF StackOK
<1>. QED
  BY <1>1, SpawnInvariant, PTL DEF Spec, StackOnlyOverflows

\* No thread loads or decrements the counter of a block that was freed, and none
\* reads the module's code after it was freed, until main has disposed of the
\* module and is about to return.
THEOREM FreedBlocksUnused == Spec => []NothingFreedInUse
<1>1. Init => NothingFreedInUse
  BY DEF Init, NothingFreedInUse
<1>2. ASSUME IInv, SInv, NothingFreedInUse, [Next]_vars
      PROVE  NothingFreedInUse'
  <2>. USE DEF NothingFreedInUse, OnlyRegs, shared, Crash
  <2>1. ASSUME NEW t \in Tasks, Instruction(t)
        PROVE  UNCHANGED main /\ (UNCHANGED proc \/ proc' # "use_after_free")
    BY <2>1 DEF Instruction, PushConst, PushVar, PopInt, UnaryOp, BinaryOp, Jump, CondJump,
       TestJump, BadInstruction, PrintInt, PrintText, BeginAtomicPrint, EndAtomicPrint,
       BeginSpawn, Spawn, SpawnNoMemory, RunSpawn, BeginSleep, EndTask
  <2>2. ASSUME NEW t \in Tasks, InsideCall(t)
        PROVE  UNCHANGED main /\ (UNCHANGED proc \/ proc' # "use_after_free")
    BY <2>2 DEF InsideCall, CreateThread, CountThread, BeginJoin, JoinThread, EndJoin, BeginWait,
       EndWait, EndSleep, StartTask, CheckSiblings, CountDown, ExitThread
  <2>3. ASSUME NEW t \in Tasks, TouchFreed(t)
        PROVE  main' = "exit"
    <3>1. CASE main = "exit"
      BY <2>3, <3>1 DEF TouchFreed
    <3>2. CASE main # "exit"
      <4>1. thread[t] \in {"end", "sub"} /\ parent[t] \notin heap
        BY <2>3, <3>2 DEF TouchFreed
      <4>2. t \in heap /\ main # "start" /\ t # RootTask
        BY <1>2, <4>1, InHeap DEF SInv, Families
      <4>3. RootTask \in heap
        BY <1>2, <3>2, <4>2 DEF IInv, TypeOK, BlocksInUse
      <4>. QED
        BY <1>2, <4>1, <4>2, <4>3 DEF SInv, Families
    <3>. QED
      BY <3>1, <3>2
  <2>4. CASE MainThread
    BY <1>2, <2>4 DEF MainThread, MainStart, MainNoModule, MainJoin, MainFree, MainExit
  <2>. QED
    BY <1>2, <2>1, <2>2, <2>3, <2>4 DEF Next, TaskStep, Ended, vars
<1>. QED
  BY <1>1, <1>2, SpawnInvariant, PTL DEF Spec

\* When 'wait' reports success, no task of its statement runs: the counter is
\* zero, it counts the threads of the task, and the words that 'wait' has
\* dropped from the stack are addresses of such threads.
THEOREM WaitSucceedsProperly == Spec => WaitSuccessMeansStopped
<1>1. ASSUME IInv, SInv, NEW t \in Tasks, thread[t] = "wait", n_spawn_running[t] = 0,
             NEW c \in WaitedFor(t)
      PROVE  ~Live(c)
  <2>1. /\ t \in heap /\ Holding(t) = n_spawn_tasks[t] /\ n_spawn_tasks[t] \in Nat
        /\ Base(t) \in Nat /\ Words(t) = n_spawn_tasks[t] /\ Words(t) = top[t] - Base(t)
        /\ top[t] \in Nat
    BY <1>1, CallFacts, TaskTypes DEF IInv, Words
  <2>2. PICK k \in 0..n_spawn_tasks[t]-1 : c = stack[t][top[t] + n_spawn_tasks[t] - 1 - 2*k][2]
    BY <1>1 DEF WaitedFor
  <2> DEFINE j == n_spawn_tasks[t] - 1 - k
  <2>3. j \in 0..Holding(t)-1 /\ top[t] + n_spawn_tasks[t] - 1 - 2*k = Base(t) + 2*j + 1
    BY <2>1
  <2>4. stack[t][Base(t) + 2*j + 1] = <<"hi", Kid(t, j)>> /\ parent[Kid(t, j)] = t
    BY <1>1, <2>3, KidFacts
  <2>5. c = Kid(t, j) /\ parent[c] = t
    BY <2>2, <2>3, <2>4
  <2>6. Outstanding(t) = {}
    <3> DEFINE n == Cardinality(Outstanding(t))
    <3>1. n \in Nat /\ n < CounterMod /\ IsFiniteSet(Outstanding(t))
      BY OutstandingType
    <3>2. n_spawn_running[t] = (n - 0) % CounterMod
      BY <1>1, <2>1 DEF SInv, RunningCountsLive, Truth
    <3>3. n = 0
      <4>. HIDE DEF n
      <4>1. n - 0 = n /\ n % CounterMod = n
        BY <3>1, ModBelow
      <4>. QED
        BY <1>1, <3>2, <4>1
    <3>. QED
      BY <3>1, <3>3, FS_EmptySet
  <2>. QED
    BY <1>1, <2>5, <2>6, InHeapTasks DEF Outstanding, Live, IInv
<1>2. ASSUME IInv, SInv, [Next]_vars
      PROVE  [\A t \in Tasks :
                (/\ thread[t] = "wait" /\ thread'[t] = "run" /\ n_spawn_running[t] = 0)
                  => \A c \in WaitedFor(t) : ~Live(c)]_vars
  BY <1>1, <1>2
<1>. QED
  BY <1>2, SpawnInvariant, PTL DEF Spec, WaitSuccessMeansStopped
=============================================================================
