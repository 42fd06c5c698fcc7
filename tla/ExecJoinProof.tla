--------------------------- MODULE ExecJoinProof ----------------------------
(***************************************************************************)
(* Theorems about the interpreter on programs that join every spawn, for   *)
(* every such code block, every number of tasks and every word size.       *)
(*                                                                         *)
(* JInv is inductive together with IInv.  Most steps are of a task that    *)
(* does not fork: QuietStep.  The steps of OP_SPAWN and OP_JOIN have a     *)
(* lemma each.                                                             *)
(***************************************************************************)
EXTENDS ExecJoin, ExecSteps

-----------------------------------------------------------------------------
(* Code that joins every spawn.                                             *)

\* The instructions between OP_BEGIN_SPAWN and the end of OP_JOIN.
ForkOps == {"OP_SPAWN", "OP_JOIN"}

\* What JoinsEverySpawn says of the addresses, in the words used below.
LEMMA JoinCode ==
  /\ \A a \in DOMAIN Code : Code[a].op # "OP_WAIT_JUMP"
  /\ \A a \in Entries(Code) : Code[a].op \notin ForkOps
  /\ \A a \in DOMAIN Code : \A s \in Successors(Code, a) :
       /\ Code[s].op \in ForkOps => Code[a].op \in {"OP_BEGIN_SPAWN", "OP_SPAWN"}
       /\ Code[a].op = "OP_SPAWN" => Code[s].op \in ForkOps
  /\ \A a \in DOMAIN Code : Code[a].op = "OP_BEGIN_SPAWN" => Depth[a] = 0
  /\ \A a \in DOMAIN Code : Code[a].op = "OP_JOIN" => Depth[a] = 2 * SpawnCount(Code, a)
  BY JoinAssumption DEF JoinsEverySpawn, ForkOps

-----------------------------------------------------------------------------
(* Tasks.                                                                   *)

LEMMA SameTask ==
  ASSUME NEW u, Same(u)
  PROVE  /\ (Forking(u)' <=> Forking(u)) /\ Unstarted(u)' = Unstarted(u)
         /\ Pending(u)' = Pending(u) /\ \A k : Kid(u, k)' = Kid(u, k)
  BY DEF Same, Forking, InJoin, Op, Unstarted, Pending, Kid

\* Only a forking task has children.
LEMMA NoKids ==
  ASSUME ParentsFork, ParentsRooted, NEW t \in Tasks, NEW c \in heap, parent[c] = t
  PROVE  /\ c # RootTask /\ t \in heap /\ Forking(t)
         /\ \E k \in 0..Pending(t)-1 : c = Kid(t, k)
  BY TaskAssumption DEF ParentsFork, ParentsRooted

\* No task is its own parent.
LEMMA NotOwnParent ==
  ASSUME ParentsRooted, TypeOK, NEW c \in heap
  PROVE  parent[c] # c
<1>1. CASE c = RootTask
  BY <1>1, TaskAssumption DEF ParentsRooted
<1>2. CASE c # RootTask
  <2>1. {c} \in SUBSET (heap \ {RootTask}) /\ {c} # {}
    BY <1>2
  <2>. QED
    BY <2>1 DEF ParentsRooted
<1>. QED
  BY <1>1, <1>2

\* Without tasks but the init task, when it does not fork.
LEMMA RootAloneInHeap ==
  ASSUME ParentsFork, ParentsRooted, ~Forking(RootTask)
  PROVE  heap \subseteq {RootTask}
<1>. SUFFICES ASSUME heap \ {RootTask} # {} PROVE FALSE
  OBVIOUS
<1>1. PICK c \in heap \ {RootTask} : parent[c] \notin heap \ {RootTask}
  BY DEF ParentsRooted
<1>. QED
  BY <1>1 DEF ParentsFork

-----------------------------------------------------------------------------
(* Steps of tasks that do not fork.                                         *)

\* A step of one task that has no children and does not start or stop a thread.
LEMMA ChildlessStep ==
  ASSUME TypeOK, JInv, NEW t \in Tasks, \A c \in heap : parent[c] # t, thread[t] # "count",
         \A u \in Tasks \ {t} : Same(u),
         UNCHANGED <<heap, parent, n_spawn_running>>,
         thread[t] # "none", thread'[t] \notin {"none", "created", "spawn", "count", "join"},
         Live(t)' = Live(t) \/ parent[t] = NoTask,
         Forking(t)' => top'[t] = 0 /\ n_spawn_tasks'[t] = SpawnCount(Code, ip'[t]),
         thread'[t] = "run" => top'[t] = Depth[ip'[t]],
         thread'[t] = "sleep" => top'[t] = Depth[ip'[t]] - 1,
         t = RootTask => thread'[t] \notin {"end", "sub"}
  PROVE  JInv'
<1>. USE DEF JInv
<1>0. thread[t] # "count" /\ \A c \in heap : parent[c] # t
  OBVIOUS
<1>1. DepthInCalls'
  BY DEF DepthInCalls, Same
<1>2. LoopsInBounds'
  BY SameTask DEF LoopsInBounds, Same
<1>3. ChildrenOnStack'
  <2>. SUFFICES ASSUME NEW u \in Tasks, Forking(u)'
                PROVE  ( /\ top[u] = 2 * Pending(u)
                         /\ \A k \in 0..Pending(u)-1 :
                              /\ stack[u][2*k] = <<"lo", Kid(u, k)>>
                              /\ stack[u][2*k + 1] = <<"hi", Kid(u, k)>>
                              /\ Kid(u, k) \in heap \ {RootTask} /\ parent[Kid(u, k)] = u
                              /\ thread[Kid(u, k)] = "none" <=> k < Unstarted(u)
                         /\ \A j, k \in 0..Pending(u)-1 : Kid(u, j) = Kid(u, k) => j = k )'
    BY DEF ChildrenOnStack
  <2>1. CASE u = t
    <3>1. Pending(u)' = 0 /\ top'[u] = 0
      BY <2>1 DEF Pending
    <3>. QED
      BY <3>1
  <2>2. CASE u # t
    <3>1. Same(u) /\ Forking(u)
      BY <2>2, SameTask
    <3>2. \A c \in Tasks : thread'[c] = "none" <=> thread[c] = "none"
      BY DEF Same
    <3>3. \A k \in 0..Pending(u)-1 : Kid(u, k) \in Tasks
      BY <3>1, InHeapTasks DEF ChildrenOnStack
    <3>. QED
      BY <3>1, <3>2, <3>3, SameTask DEF ChildrenOnStack, Same
  <2>. QED
    BY <2>1, <2>2
<1>4. ParentsFork'
  BY <1>0, SameTask, InHeapTasks DEF ParentsFork
<1>5. ParentsRooted'
  BY TaskAssumption DEF ParentsRooted, Same
<1>6. RunningCountsLive'
  <2>. SUFFICES ASSUME NEW p \in heap
                PROVE  n_spawn_running'[p] =
                         (Cardinality(Outstanding(p)') - Truth(thread'[p] = "count")) % CounterMod
    BY DEF RunningCountsLive
  <2>1. \A d \in Tasks : Live(d)' /\ parent'[d] = p <=> Live(d) /\ parent[d] = p
    BY InHeapTasks, TaskAssumption DEF Live, Same
  <2>2. thread'[p] = "count" <=> thread[p] = "count"
    BY <1>0, InHeapTasks DEF Same
  <2>. QED
    BY <2>1, <2>2, CountKept
<1>. QED
  BY <1>1, <1>2, <1>3, <1>4, <1>5, <1>6

\* A task that does not fork has none.
LEMMA QuietStep ==
  ASSUME TypeOK, JInv, NEW t \in Tasks, ~Forking(t), \A u \in Tasks \ {t} : Same(u),
         UNCHANGED <<heap, parent, n_spawn_running>>,
         thread[t] # "none", thread'[t] \notin {"none", "created", "spawn", "count", "join"},
         Live(t)' = Live(t) \/ parent[t] = NoTask,
         Forking(t)' => top'[t] = 0 /\ n_spawn_tasks'[t] = SpawnCount(Code, ip'[t]),
         thread'[t] = "run" => top'[t] = Depth[ip'[t]],
         thread'[t] = "sleep" => top'[t] = Depth[ip'[t]] - 1,
         t = RootTask => thread'[t] \notin {"end", "sub"}
  PROVE  JInv'
<1>1. thread[t] # "count" /\ \A c \in heap : parent[c] # t
  BY NoKids DEF JInv, Forking, InJoin
<1>. QED
  BY <1>1, ChildlessStep

\* A step that changes no task.
LEMMA StillKeepsJInv ==
  ASSUME JInv, UNCHANGED <<heap, parent, regs, spawnVars, thread>>
  PROVE  JInv'
<1>. USE DEF regs, spawnVars
<1>1. \A u : Same(u)
  BY DEF Same
<1>2. \A u : /\ (Forking(u)' <=> Forking(u)) /\ Unstarted(u)' = Unstarted(u)
             /\ Pending(u)' = Pending(u) /\ \A k : Kid(u, k)' = Kid(u, k)
  BY <1>1, SameTask
<1>3. \A p : Outstanding(p)' = Outstanding(p)
  BY DEF Outstanding, Live
<1>. QED
  BY <1>2, <1>3 DEF JInv, DepthInCalls, LoopsInBounds, ChildrenOnStack, ParentsFork,
     ParentsRooted, RunningCountsLive

\* A crash changes nothing but proc.
LEMMA CrashKeepsJInv ==
  ASSUME JInv, NEW how, Crash(how)
  PROVE  JInv'
  BY StillKeepsJInv DEF Crash, taskVars

\* An instruction that works on its own task.
LEMMA LocalKeepsJInv ==
  ASSUME IInv, JInv, NEW t \in Tasks, NEW s \in DOMAIN Code, LocalStep(t, s)
  PROVE  JInv'
<1>. USE DEF LocalStep
<1>1. /\ TypeOK /\ ip[t] \in DOMAIN Code /\ t \in heap
      /\ ip'[t] = s /\ top'[t] = top[t] + DepthChange(Code, ip[t], s) /\ thread'[t] = "run"
  BY InHeap, MemoryAssumption DEF IInv, TypeOK
<1>2. ~Forking(t)
  BY DEF Forking, InJoin, BlockingOps
<1>3. \A u \in Tasks \ {t} : Same(u)
  BY <1>1 DEF Same, TypeOK
<1>4. Live(t)' = Live(t)
  BY DEF Live
<1>5. top'[t] = Depth[s]
  BY <1>1, DepthStep DEF JInv, DepthInCalls
<1>6. ASSUME Forking(t)'
      PROVE  top'[t] = 0 /\ n_spawn_tasks'[t] = SpawnCount(Code, s)
  <2>1. Code[s].op \in ForkOps
    BY <1>1, <1>6 DEF Forking, InJoin, Op, ForkOps
  <2>2. Op(t) = "OP_BEGIN_SPAWN"
    BY <1>1, <2>1, JoinCode DEF Op
  <2>3. s = ip[t] + 1
    BY <1>1, <2>2 DEF Successors, Op, CondJumps, TestJumps
  <2>4. SpawnCount(Code, s) = Arg(t)
    BY <1>1, <2>2, <2>3, SpawnCountNext DEF Op, Arg
  <2>5. DepthChange(Code, ip[t], s) = 0 /\ Depth[ip[t]] = 0
    BY <1>1, <2>2, JoinCode DEF DepthChange, Op, Pushes, Pops, BinaryOps, UnaryOps, CondJumps, TestJumps
  <2>. QED
    BY <1>1, <2>2, <2>4, <2>5 DEF JInv, DepthInCalls, TypeOK
<1>. QED
  BY <1>1, <1>2, <1>3, <1>4, <1>5, <1>6, QuietStep

\* The other steps of a task that does not fork.
LEMMA OutsideForkKeepsJInv ==
  ASSUME IInv, JInv, NEW t \in Tasks,
         BeginSleep(t) \/ EndSleep(t) \/ StartTask(t) \/ EndTask(t) \/ CheckSiblings(t)
           \/ ExitThread(t)
  PROVE  JInv'
<1>. USE DEF shared, regs, spawnVars, At, Become
<1>1. /\ TypeOK /\ ip[t] \in DOMAIN Code /\ t \in Tasks
      /\ thread \in [Tasks -> ThreadStates] /\ top \in [Tasks -> 0..StackSize]
      /\ ip \in [Tasks -> DOMAIN Code] /\ StackSize \in Nat
  BY MemoryAssumption DEF IInv, TypeOK
<1>2. CASE BeginSleep(t)
  <2>1. Op(t) = "OP_SLEEP" /\ thread[t] = "run" /\ thread'[t] = "sleep" /\ top'[t] = top[t] - 1
    BY <1>1, <1>2 DEF BeginSleep, Executes, SetTop
  <2>2. ~Forking(t) /\ ~Forking(t)' /\ Live(t)' = Live(t)
    BY <1>2, <2>1 DEF BeginSleep, Forking, InJoin, Live
  <2>3. \A u \in Tasks \ {t} : Same(u)
    BY <1>1, <1>2 DEF BeginSleep, SetTop, Same
  <2>4. top'[t] = Depth[ip'[t]] - 1
    BY <1>2, <2>1 DEF BeginSleep, JInv, DepthInCalls
  <2>. QED
    BY <1>1, <1>2, <2>1, <2>2, <2>3, <2>4, QuietStep DEF BeginSleep
<1>3. CASE EndSleep(t)
  <2>1. /\ Op(t) = "OP_SLEEP" /\ thread[t] = "sleep" /\ thread'[t] = "run"
        /\ ip'[t] = ip[t] + 1 /\ top'[t] = top[t]
    BY <1>1, <1>3 DEF EndSleep, IInv, CallsMatchCode, Advance, Goto
  <2>2. ip[t] + 1 \in Successors(Code, ip[t]) /\ ip[t] + 1 \in DOMAIN Code
    BY <1>1, <2>1, NextAddress DEF Op
  <2>3. ~Forking(t) /\ ~Forking(t)' /\ Live(t)' = Live(t)
    BY <1>1, <1>3, <2>1, <2>2, JoinCode DEF EndSleep, Forking, InJoin, Live, Op, ForkOps
  <2>4. \A u \in Tasks \ {t} : Same(u)
    BY <1>1, <1>3 DEF EndSleep, Advance, Goto, Same
  <2>5. DepthChange(Code, ip[t], ip[t] + 1) = -1
    BY <2>1 DEF DepthChange, Op, Pushes, Pops, BinaryOps, UnaryOps, CondJumps, TestJumps
  <2>6. top'[t] = Depth[ip'[t]]
    BY <1>1, <2>1, <2>2, <2>5, DepthStep DEF JInv, DepthInCalls
  <2>. QED
    BY <1>1, <1>3, <2>1, <2>3, <2>4, <2>6, QuietStep DEF EndSleep
<1>4. CASE StartTask(t)
  <2>1. /\ thread[t] = "created" /\ thread'[t] = "run" /\ ip[t] \in Entries(Code)
        /\ ip'[t] = ip[t] /\ top'[t] = top[t]
    BY <1>1, <1>4 DEF StartTask, IInv, CallsMatchCode
  <2>2. ~Forking(t) /\ ~Forking(t)' /\ Live(t)' = Live(t)
    BY <1>4, <2>1, JoinCode DEF StartTask, Forking, InJoin, Live, Op, ForkOps
  <2>3. \A u \in Tasks \ {t} : Same(u)
    BY <1>1, <1>4 DEF StartTask, Same
  <2>4. top'[t] = Depth[ip'[t]]
    BY <2>1, DepthStep DEF JInv, DepthInCalls
  <2>. QED
    BY <1>1, <1>4, <2>1, <2>2, <2>3, <2>4, QuietStep DEF StartTask
<1>5. CASE EndTask(t)
  <2>1. /\ Op(t) = "OP_END_TASK" /\ thread[t] = "run"
        /\ thread'[t] = IF parent[t] = NoTask THEN "exiting" ELSE "end"
    BY <1>1, <1>5 DEF EndTask, Executes
  <2>2. ~Forking(t) /\ ~Forking(t)' /\ (Live(t)' = Live(t) \/ parent[t] = NoTask)
    BY <1>5, <2>1 DEF EndTask, Forking, InJoin, Live
  <2>3. \A u \in Tasks \ {t} : Same(u)
    BY <1>1, <1>5 DEF EndTask, Same
  <2>4. t = RootTask => parent[t] = NoTask
    BY DEF JInv, ParentsRooted
  <2>. QED
    BY <1>1, <1>5, <2>1, <2>2, <2>3, <2>4, QuietStep DEF EndTask
<1>6. CASE CheckSiblings(t)
  <2>1. CASE Crash("assert_siblings")
    BY <2>1, CrashKeepsJInv
  <2>2. CASE ~Crash("assert_siblings")
    <3>1. /\ thread[t] = "end" /\ thread' = [thread EXCEPT ![t] = "sub"]
          /\ UNCHANGED <<shared, regs, spawnVars>>
      BY <1>6, <2>2 DEF CheckSiblings
    <3>2. ~Forking(t) /\ ~Forking(t)' /\ Live(t)' = Live(t)
      BY <1>1, <3>1 DEF Forking, InJoin, Live
    <3>3. \A u \in Tasks \ {t} : Same(u)
      BY <1>1, <3>1 DEF Same
    <3>4. t # RootTask
      BY <3>1 DEF JInv, ParentsRooted
    <3>. QED
      BY <1>1, <3>1, <3>2, <3>3, <3>4, QuietStep
  <2>. QED
    BY <2>1, <2>2
<1>7. CASE ExitThread(t)
  <2>1. thread[t] = "exiting" /\ thread'[t] = "exited"
    BY <1>1, <1>7 DEF ExitThread
  <2>2. ~Forking(t) /\ ~Forking(t)' /\ Live(t)' = Live(t)
    BY <2>1 DEF Forking, InJoin, Live
  <2>3. \A u \in Tasks \ {t} : Same(u)
    BY <1>1, <1>7 DEF ExitThread, Same
  <2>. QED
    BY <1>1, <1>7, <2>1, <2>2, <2>3, QuietStep DEF ExitThread
<1>. QED
  BY <1>2, <1>3, <1>4, <1>5, <1>6, <1>7

-----------------------------------------------------------------------------
(* Steps inside a fork.                                                     *)

\* What is known of a task while it forks.
LEMMA ForkFacts ==
  ASSUME IInv, JInv, NEW t \in Tasks, Forking(t)
  PROVE  /\ t \in heap /\ ip[t] \in DOMAIN Code
         /\ n_spawn_tasks[t] \in Nat /\ i[t] \in Nat /\ top[t] \in Nat
         /\ Pending(t) \in Nat /\ top[t] = 2 * Pending(t) /\ Unstarted(t) \in Int
         /\ thread[t] \in {"spawn", "count"} => Op(t) = "OP_JOIN" /\ Pending(t) = n_spawn_tasks[t]
         /\ thread[t] = "run" /\ Op(t) = "OP_JOIN" => Pending(t) = n_spawn_tasks[t]
         /\ thread[t] = "join" => Op(t) = "OP_JOIN" /\ Pending(t) = n_spawn_tasks[t] - i[t]
<1>. USE DEF IInv, JInv
<1>1. /\ ip[t] \in DOMAIN Code /\ n_spawn_tasks[t] \in Nat /\ i[t] \in Nat /\ top[t] \in Nat
  BY MemoryAssumption DEF TypeOK
<1>2. t \in heap
  BY InHeap DEF Forking, InJoin
<1>3. Pending(t) \in Nat /\ top[t] = 2 * Pending(t)
  BY <1>1 DEF ChildrenOnStack, Pending
<1>4. Unstarted(t) \in Int
  BY <1>1, <1>3 DEF Unstarted
<1>5. thread[t] \in {"spawn", "count", "join"} => Op(t) = "OP_JOIN"
  BY <1>1, JoinCode DEF CallsMatchCode, Op
<1>6. /\ n_spawn_tasks[t] = SpawnCount(Code, ip[t])
      /\ Op(t) = "OP_JOIN" => Depth[ip[t]] = 2 * SpawnCount(Code, ip[t])
  BY <1>1, JoinCode DEF LoopsInBounds, Op
<1>7. thread[t] \in {"run", "spawn", "count"} => top[t] = Depth[ip[t]]
  BY DEF DepthInCalls
<1>8. thread[t] = "join" => top[t] = 2 * (n_spawn_tasks[t] - i[t])
  BY DEF DepthInCalls
<1>. QED
  BY <1>1, <1>2, <1>3, <1>4, <1>5, <1>6, <1>7, <1>8

\* The k-th child of a forking task.
LEMMA KidFacts ==
  ASSUME JInv, NEW t \in Tasks, Forking(t), NEW k \in 0..Pending(t)-1
  PROVE  /\ stack[t][2*k] = <<"lo", Kid(t, k)>> /\ stack[t][2*k + 1] = <<"hi", Kid(t, k)>>
         /\ Kid(t, k) \in heap \ {RootTask} /\ parent[Kid(t, k)] = t
         /\ thread[Kid(t, k)] = "none" <=> k < Unstarted(t)
         /\ \A j \in 0..Pending(t)-1 : Kid(t, j) = Kid(t, k) => j = k
  BY DEF JInv, ChildrenOnStack

\* A step inside OP_JOIN that only counts.
LEMMA LoopStep ==
  ASSUME IInv, JInv, NEW t \in Tasks, Forking(t), \A u \in Tasks \ {t} : Same(u),
         UNCHANGED <<heap, parent, ip, stack, top, n_spawn_tasks>>,
         thread'[t] \in {"spawn", "join"}, Unstarted(t)' = Unstarted(t),
         i'[t] <= n_spawn_tasks[t],
         thread'[t] = "spawn" => top[t] = Depth[ip[t]],
         thread'[t] = "join" => top[t] = 2 * (n_spawn_tasks[t] - i'[t]),
         \A p \in heap : n_spawn_running'[p] =
           (Cardinality(Outstanding(p)) - Truth(thread'[p] = "count")) % CounterMod
  PROVE  JInv'
<1>. USE DEF IInv, JInv
<1>0. thread[t] \notin {"none", "created", "exiting", "exited", "end", "sub"} /\ heap \subseteq Tasks
  BY InHeapTasks DEF Forking, InJoin
<1>1. Forking(t)' /\ Pending(t)' = Pending(t) /\ \A k : Kid(t, k)' = Kid(t, k)
  BY DEF Forking, InJoin, Pending, Kid
<1>2. \A u \in Tasks : /\ (Forking(u)' <=> Forking(u)) /\ Unstarted(u)' = Unstarted(u)
                       /\ Pending(u)' = Pending(u) /\ \A k : Kid(u, k)' = Kid(u, k)
  <2>1. ASSUME NEW u \in Tasks, u # t
        PROVE  /\ (Forking(u)' <=> Forking(u)) /\ Unstarted(u)' = Unstarted(u)
               /\ Pending(u)' = Pending(u) /\ \A k : Kid(u, k)' = Kid(u, k)
    BY <2>1, SameTask
  <2>. QED
    BY <1>1, <2>1
<1>3. \A u \in Tasks : thread'[u] = "none" <=> thread[u] = "none"
  BY <1>0 DEF Same
<1>4. DepthInCalls'
  BY DEF DepthInCalls, Same
<1>5. LoopsInBounds'
  BY <1>2 DEF LoopsInBounds, Same
<1>6. ChildrenOnStack'
  <2>. SUFFICES ASSUME NEW u \in Tasks, Forking(u)
                PROVE  ( /\ top[u] = 2 * Pending(u)
                         /\ \A k \in 0..Pending(u)-1 :
                              /\ stack[u][2*k] = <<"lo", Kid(u, k)>>
                              /\ stack[u][2*k + 1] = <<"hi", Kid(u, k)>>
                              /\ Kid(u, k) \in heap \ {RootTask} /\ parent[Kid(u, k)] = u
                              /\ thread[Kid(u, k)] = "none" <=> k < Unstarted(u)
                         /\ \A j, k \in 0..Pending(u)-1 : Kid(u, j) = Kid(u, k) => j = k )'
    BY <1>2 DEF ChildrenOnStack
  <2>. QED
    BY <1>0, <1>2, <1>3, KidFacts DEF ChildrenOnStack
<1>7. ParentsFork'
  BY <1>0, <1>2 DEF ParentsFork
<1>8. ParentsRooted'
  BY <1>3, TaskAssumption DEF ParentsRooted, Same
<1>9. RunningCountsLive'
  <2>1. \A d \in Tasks : Live(d)' = Live(d)
    BY <1>0 DEF Live, Same
  <2>2. \A p : Outstanding(p)' = Outstanding(p)
    BY <2>1 DEF Outstanding
  <2>. QED
    BY <2>2 DEF RunningCountsLive
<1>. QED
  BY <1>4, <1>5, <1>6, <1>7, <1>8, <1>9

LEMMA RunSpawnKeepsJInv ==
  ASSUME IInv, JInv, NEW t \in Tasks, RunSpawn(t)
  PROVE  JInv'
<1>. USE DEF RunSpawn, shared
<1>1. /\ TypeOK /\ Op(t) = "OP_JOIN" /\ thread[t] = "run" /\ Forking(t)
      /\ thread' = [thread EXCEPT ![t] = "spawn"] /\ i' = [i EXCEPT ![t] = 0]
  BY JoinCode DEF IInv, TypeOK, Executes, At, Become, Forking, Op
<1>2. UNCHANGED top
  <2>1. top[t] - Pops(Op(t)) = top[t]
    BY <1>1, ForkFacts DEF Pops, BinaryOps, UnaryOps, CondJumps, TestJumps
  <2>. QED
    BY <1>1, <2>1 DEF SetTop, TypeOK
<1>3. thread'[t] = "spawn" /\ i'[t] = 0 /\ \A u \in Tasks \ {t} : Same(u)
  BY <1>1, <1>2 DEF Same, TypeOK
<1>4. Unstarted(t)' = Unstarted(t)
  BY <1>1, <1>3, ForkFacts DEF Unstarted
<1>5. top[t] = Depth[ip[t]]
  BY <1>1 DEF JInv, DepthInCalls
<1>6. \A p \in heap : thread'[p] = "count" <=> thread[p] = "count"
  BY <1>1 DEF TypeOK
<1>7. \A p \in heap : n_spawn_running'[p] =
           (Cardinality(Outstanding(p)) - Truth(thread'[p] = "count")) % CounterMod
  BY <1>6 DEF JInv, RunningCountsLive
<1>. QED
  BY <1>1, <1>2, <1>3, <1>4, <1>5, <1>7, ForkFacts, LoopStep

LEMMA BeginJoinKeepsJInv ==
  ASSUME IInv, JInv, NEW t \in Tasks, BeginJoin(t)
  PROVE  JInv'
<1>. USE DEF BeginJoin, shared, regs
<1>1. /\ TypeOK /\ thread[t] = "spawn" /\ Forking(t) /\ i[t] = n_spawn_tasks[t]
      /\ thread' = [thread EXCEPT ![t] = "join"] /\ i' = [i EXCEPT ![t] = 0]
  BY DEF IInv, TypeOK, At, Become, Forking, InJoin
<1>2. thread'[t] = "join" /\ i'[t] = 0 /\ \A u \in Tasks \ {t} : Same(u)
  BY <1>1 DEF Same, TypeOK
<1>3. Unstarted(t)' = Unstarted(t)
  BY <1>1, <1>2, ForkFacts DEF Unstarted
<1>4. top[t] = 2 * (n_spawn_tasks[t] - i'[t])
  BY <1>1, <1>2, ForkFacts
<1>5. \A p \in heap : thread'[p] = "count" <=> thread[p] = "count"
  BY <1>1 DEF TypeOK
<1>6. \A p \in heap : n_spawn_running'[p] =
           (Cardinality(Outstanding(p)) - Truth(thread'[p] = "count")) % CounterMod
  BY <1>5 DEF JInv, RunningCountsLive
<1>. QED
  BY <1>1, <1>2, <1>3, <1>4, <1>6, ForkFacts, LoopStep

\* The increment makes up for the thread that was not counted before it.
LEMMA CountThreadKeepsJInv ==
  ASSUME IInv, JInv, NEW t \in Tasks, CountThread(t)
  PROVE  JInv'
<1>. USE DEF CountThread, shared, regs
<1>1. /\ TypeOK /\ thread[t] = "count" /\ Forking(t) /\ i[t] < n_spawn_tasks[t]
      /\ thread' = [thread EXCEPT ![t] = "spawn"] /\ i' = [i EXCEPT ![t] = i[t] + 1]
  BY DEF IInv, JInv, TypeOK, At, Become, Forking, InJoin, LoopsInBounds
<1>2. thread'[t] = "spawn" /\ i'[t] = i[t] + 1 /\ \A u \in Tasks \ {t} : Same(u)
  BY <1>1 DEF Same, TypeOK
<1>3. Unstarted(t)' = Unstarted(t)
  BY <1>1, <1>2, ForkFacts DEF Unstarted
<1>4. top[t] = Depth[ip[t]]
  BY <1>1 DEF JInv, DepthInCalls
<1>5. \A p \in heap : n_spawn_running'[p] =
           (Cardinality(Outstanding(p)) - Truth(thread'[p] = "count")) % CounterMod
  <2>. SUFFICES ASSUME NEW p \in heap
                PROVE  n_spawn_running'[p] =
                         (Cardinality(Outstanding(p)) - Truth(thread'[p] = "count")) % CounterMod
    OBVIOUS
  <2>1. p \in Tasks /\ n_spawn_running[p] =
          (Cardinality(Outstanding(p)) - Truth(thread[p] = "count")) % CounterMod
    BY <1>1, InHeapTasks DEF JInv, RunningCountsLive
  <2>2. CASE p # t
    BY <1>1, <2>1, <2>2 DEF TypeOK
  <2>3. CASE p = t
    <3> DEFINE n == Cardinality(Outstanding(t))
    <3>1. n \in Nat /\ n < CounterMod
      BY OutstandingType
    <3>. HIDE DEF n
    <3>2. n_spawn_running[t] = (n - 1) % CounterMod
      BY <1>1, <2>1, <2>3 DEF Truth, n
    <3>3. n_spawn_running[t] = IF n = 0 THEN CounterMod - 1 ELSE n - 1
      <4>1. n - 1 \in Int /\ -1 <= n - 1 /\ n - 1 < CounterMod
        BY <3>1, TaskAssumption
      <4>2. (n - 1) % CounterMod = IF n - 1 = -1 THEN CounterMod - 1 ELSE n - 1
        BY <4>1, ModBelow
      <4>. QED
        BY <3>1, <3>2, <4>2
    <3>4. n_spawn_running'[t] = n
      BY <1>1, <3>1, <3>3, TaskAssumption DEF TypeOK
    <3>5. n % CounterMod = n /\ Truth(thread'[t] = "count") = 0 /\ n - 0 = n
      BY <1>2, <3>1, ModBelow DEF Truth
    <3>. QED
      BY <2>3, <3>4, <3>5 DEF n
  <2>. QED
    BY <2>2, <2>3
<1>. QED
  BY <1>1, <1>2, <1>3, <1>4, <1>5, ForkFacts, LoopStep

\* The pointers exec_run_spawn and exec_run_then_join_spawn read back from the
\* stack are those of the children, the youngest first.
LEMMA ChildIsKid ==
  ASSUME IInv, JInv, NEW t \in Tasks, Forking(t), NEW k \in 0..Pending(t)-1
  PROVE  Child(t, k) = Kid(t, Pending(t) - 1 - k) /\ Pending(t) - 1 - k \in 0..Pending(t)-1
<1> DEFINE j == Pending(t) - 1 - k
<1>1. /\ Pending(t) \in Nat /\ top[t] = 2 * Pending(t) /\ k \in Nat
      /\ j \in 0..Pending(t)-1
  BY ForkFacts
<1>2. top[t] >= 2*k + 2 /\ top[t] - 1 - 2*k = 2*j + 1 /\ top[t] - 1 - (2*k + 1) = 2*j
  BY <1>1
<1>3. stack[t][2*j] = <<"lo", Kid(t, j)>> /\ stack[t][2*j + 1] = <<"hi", Kid(t, j)>>
  BY <1>1, KidFacts
<1>4. Peek(t, 2*k) = <<"hi", Kid(t, j)>> /\ Peek(t, 2*k + 1) = <<"lo", Kid(t, j)>>
  BY <1>2, <1>3 DEF Peek
<1>5. Peek(t, 2*k)[1] = "hi" /\ Peek(t, 2*k)[2] = Kid(t, j)
  BY <1>4
<1>6. Child(t, k) = Kid(t, j)
  BY <1>2, <1>4, <1>5 DEF Child
<1>. QED
  BY <1>1, <1>6

\* exec_run_spawn creates a thread for the youngest child that has none; the
\* counter is one behind until the increment.
LEMMA CreateThreadEffect ==
  ASSUME IInv, JInv, NEW t \in Tasks, CreateThread(t)
  PROVE  /\ TypeOK /\ Forking(t) /\ thread[t] = "spawn" /\ i[t] < n_spawn_tasks[t]
         /\ \E k \in 0..Pending(t)-1 :
              /\ k = Pending(t) - 1 - i[t] /\ Child(t, i[t]) = Kid(t, k)
              /\ thread[Kid(t, k)] = "none" /\ Kid(t, k) # t
              /\ thread' = [thread EXCEPT ![Kid(t, k)] = "created", ![t] = "count"]
         /\ UNCHANGED <<shared, regs, spawnVars>>
<1>1. TypeOK /\ thread[t] = "spawn" /\ Forking(t) /\ i[t] < n_spawn_tasks[t]
  BY DEF CreateThread, At, Forking, InJoin, IInv
<1>2. Pending(t) = n_spawn_tasks[t] /\ n_spawn_tasks[t] \in Nat /\ i[t] \in 0..Pending(t)-1
  BY <1>1, ForkFacts
<1>3. /\ Child(t, i[t]) = Kid(t, Pending(t) - 1 - i[t])
      /\ Pending(t) - 1 - i[t] \in 0..Pending(t)-1
  BY <1>1, <1>2, ChildIsKid
<1>4. Pending(t) - 1 - i[t] < Unstarted(t)
  BY <1>1, <1>2 DEF Unstarted
<1>5. Child(t, i[t]) \in heap /\ thread[Child(t, i[t])] = "none"
  BY <1>1, <1>3, <1>4, KidFacts
<1>. QED
  BY <1>1, <1>3, <1>5 DEF CreateThread

LEMMA CreateThreadKeepsJInv ==
  ASSUME IInv, JInv, NEW t \in Tasks, CreateThread(t)
  PROVE  JInv'
<1>. USE DEF IInv, JInv, shared, regs, spawnVars
<1>1. PICK k \in 0..Pending(t)-1, c \in Tasks :
        /\ k = Pending(t) - 1 - i[t] /\ c = Kid(t, k) /\ c # t
        /\ thread[c] = "none" /\ thread' = [thread EXCEPT ![c] = "created", ![t] = "count"]
  BY CreateThreadEffect, KidFacts, InHeapTasks
<1>2. /\ Forking(t) /\ thread[t] = "spawn" /\ i[t] < n_spawn_tasks[t]
      /\ UNCHANGED <<heap, parent, ip, stack, top, n_spawn_tasks, n_spawn_running, i>>
      /\ Pending(t) = n_spawn_tasks[t] /\ Pending(t) \in Nat /\ i[t] \in Nat
  BY CreateThreadEffect, ForkFacts
<1>3. c \in heap \ {RootTask} /\ c \in Tasks /\ parent[c] = t /\ heap \subseteq Tasks
  BY <1>1, <1>2, KidFacts, InHeapTasks
<1>4. /\ thread[c] = "none" /\ thread'[c] = "created" /\ thread'[t] = "count" /\ c # t
      /\ \A u \in Tasks \ {c, t} : thread'[u] = thread[u]
  BY <1>1, <1>3 DEF TypeOK
<1>5. ~Forking(c) /\ ~Forking(c)' /\ Forking(t)'
  BY <1>4 DEF Forking, InJoin
<1>6. \A u \in Tasks \ {c, t} : Same(u)
  BY <1>2, <1>4 DEF Same
<1>7. \A u \in Tasks : (Forking(u)' <=> Forking(u))
  BY <1>2, <1>5, <1>6, SameTask
<1>8. \A u \in Tasks : Pending(u)' = Pending(u) /\ \A m : Kid(u, m)' = Kid(u, m)
  BY <1>2 DEF Pending, Kid
<1>9. DepthInCalls'
  BY <1>2, <1>4, <1>6 DEF DepthInCalls, Same
<1>10. LoopsInBounds'
  BY <1>2, <1>4, <1>6, <1>7 DEF LoopsInBounds, Same
<1>11. ChildrenOnStack'
  <2>. SUFFICES ASSUME NEW u \in Tasks, Forking(u), NEW m \in 0..Pending(u)-1
                PROVE  thread'[Kid(u, m)] = "none" <=> m < Unstarted(u)'
    BY <1>2, <1>7, <1>8 DEF ChildrenOnStack
  <2>1. Kid(u, m) \in Tasks /\ Kid(u, m) \in heap /\ parent[Kid(u, m)] = u
    BY <1>3, KidFacts
  <2>2. CASE u = t
    <3>1. Unstarted(t) = n_spawn_tasks[t] - i[t] /\ Unstarted(t)' = n_spawn_tasks[t] - i[t] - 1
      BY <1>2, <1>4 DEF Unstarted
    <3>2. k = n_spawn_tasks[t] - 1 - i[t]
      BY <1>1, <1>2
    <3>3. CASE m = k
      BY <1>1, <1>2, <1>4, <2>2, <3>1, <3>2, <3>3
    <3>4. CASE m # k
      <4>1. Kid(t, m) # c /\ Kid(t, m) # t
        BY <1>1, <1>2, <1>3, <2>1, <2>2, <3>4, NotOwnParent, KidFacts
      <4>2. thread'[Kid(t, m)] = thread[Kid(t, m)]
        BY <1>4, <2>1, <2>2, <4>1
      <4>3. thread[Kid(t, m)] = "none" <=> m < Unstarted(t)
        BY <1>2, <2>2, KidFacts
      <4>. QED
        BY <1>2, <2>2, <3>1, <3>2, <3>4, <4>2, <4>3
    <3>. QED
      BY <3>3, <3>4
  <2>3. CASE u # t
    <3>1. u # c /\ Unstarted(u)' = Unstarted(u)
      BY <1>5, <1>6, <2>3, SameTask
    <3>2. Kid(u, m) # c
      BY <1>3, <2>1, <2>3
    <3>3. thread'[Kid(u, m)] = "none" <=> thread[Kid(u, m)] = "none"
      BY <1>2, <1>4, <2>1, <3>2
    <3>. QED
      BY <3>1, <3>3, KidFacts
  <2>. QED
    BY <2>2, <2>3
<1>12. ParentsFork'
  BY <1>2, <1>3, <1>7, <1>8 DEF ParentsFork
<1>13. ParentsRooted'
  BY <1>2, <1>3, <1>4, TaskAssumption DEF ParentsRooted
<1>14. RunningCountsLive'
  <2>. SUFFICES ASSUME NEW p \in heap
                PROVE  n_spawn_running'[p] =
                         (Cardinality(Outstanding(p)') - Truth(thread'[p] = "count")) % CounterMod
    BY <1>2 DEF RunningCountsLive
  <2>1. /\ \A d \in Tasks \ {c} : Live(d)' /\ parent'[d] = p <=> Live(d) /\ parent[d] = p
        /\ ~Live(c) /\ Live(c)' /\ parent'[c] = t
    BY <1>2, <1>3, <1>4 DEF Live
  <2>2. CASE p # t
    <3>1. thread'[p] = "count" <=> thread[p] = "count"
      BY <1>3, <1>4, <2>2
    <3>. QED
      BY <1>2, <1>3, <2>1, <2>2, <3>1, CountKept
  <2>3. CASE p = t
    <3>1. Outstanding(t)' = Outstanding(t) \union {c} /\ c \notin Outstanding(t)
      BY <1>3, <2>1, <2>3 DEF Outstanding
    <3>2. Cardinality(Outstanding(t)') = Cardinality(Outstanding(t)) + 1
      BY <3>1, OutstandingType, FS_AddElement
    <3>3. Truth(thread[t] = "count") = 0 /\ Truth(thread'[t] = "count") = 1
      BY <1>2, <1>4 DEF Truth
    <3>4. Cardinality(Outstanding(t)') - 1 = Cardinality(Outstanding(t)) - 0
      BY <3>2, OutstandingType
    <3>5. n_spawn_running[t] = (Cardinality(Outstanding(t)) - 0) % CounterMod
      BY <2>3, <3>3 DEF RunningCountsLive
    <3>. QED
      BY <1>2, <2>3, <3>3, <3>4, <3>5
  <2>. QED
    BY <2>2, <2>3
<1>. QED
  BY <1>9, <1>10, <1>11, <1>12, <1>13, <1>14

\* OP_SPAWN adds a child on top of the stack.
LEMMA SpawnKeepsJInv ==
  ASSUME IInv, JInv, NEW t \in Tasks, Spawn(t)
  PROVE  JInv'
<1>. USE DEF IInv, JInv
<1>1. PICK c \in Tasks \ heap :
        /\ heap' = heap \union {c} /\ parent' = [parent EXCEPT ![c] = t]
        /\ n_spawn_running' = [n_spawn_running EXCEPT ![c] = 0]
        /\ thread' = [thread EXCEPT ![c] = "none"]
        /\ ip' = [ip EXCEPT ![c] = Arg(t), ![t] = ip[t] + 1]
        /\ top' = [top EXCEPT ![c] = 0, ![t] = top[t] + 2]
        /\ stack' = [stack EXCEPT ![c] = FreshStack,
                                  ![t][top[t]] = <<"lo", c>>, ![t][top[t] + 1] = <<"hi", c>>]
  BY DEF Spawn, NewTask
<1>2. /\ TypeOK /\ Op(t) = "OP_SPAWN" /\ thread[t] = "run" /\ Forking(t)
      /\ t \in heap /\ c # t /\ heap \subseteq Tasks /\ ip[t] \in DOMAIN Code
      /\ UNCHANGED <<n_spawn_tasks, i>> /\ main # "exit"
  BY <1>1, ForkFacts, InHeapTasks DEF Spawn, Executes, At, Forking, TypeOK
<1>3. c # RootTask
  BY <1>1, <1>2, InHeap DEF BlocksInUse, TypeOK
<1>4. /\ thread'[c] = "none" /\ parent'[c] = t /\ top'[c] = 0 /\ n_spawn_running'[c] = 0
      /\ thread'[t] = "run" /\ ip'[t] = ip[t] + 1 /\ top'[t] = top[t] + 2
      /\ \A u \in Tasks \ {c} : /\ parent'[u] = parent[u] /\ thread'[u] = thread[u]
                                /\ n_spawn_running'[u] = n_spawn_running[u]
  BY <1>1, <1>2 DEF TypeOK
<1>5. \A u \in Tasks \ {c, t} : Same(u)
  BY <1>1, <1>2 DEF Same, TypeOK
<1>6. PICK n \in Nat :
        /\ Pending(t) = n /\ top[t] = 2 * n
        /\ top[t] \in 0..StackSize-1 /\ top[t] + 1 \in 0..StackSize-1
  BY <1>2, ForkFacts, StackEffect DEF Spawn, Executes
<1>7. /\ stack'[t][2 * n] = <<"lo", c>> /\ stack'[t][2 * n + 1] = <<"hi", c>>
      /\ \A j \in 0..top[t]-1 : stack'[t][j] = stack[t][j]
  <2>1. stack[t] \in [0..StackSize-1 -> Word] /\ stack \in [Tasks -> [0..StackSize-1 -> Word]]
    BY DEF TypeOK
  <2>2. stack'[t] = [stack[t] EXCEPT ![top[t]] = <<"lo", c>>, ![top[t] + 1] = <<"hi", c>>]
    BY <1>1, <1>2, <2>1
  <2>3. /\ 2*n \in 0..StackSize-1 /\ 2*n + 1 \in 0..StackSize-1 /\ 2*n # 2*n + 1
        /\ \A j \in 0..top[t]-1 : j \in 0..StackSize-1 /\ j # 2*n /\ j # 2*n + 1
    BY <1>6, MemoryAssumption
  <2>4. stack'[t] = [stack[t] EXCEPT ![2*n] = <<"lo", c>>, ![2*n + 1] = <<"hi", c>>]
    BY <1>6, <2>2
  <2>. QED
    BY <2>1, <2>3, <2>4
<1>8. ip[t] + 1 \in DOMAIN Code /\ Code[ip[t] + 1].op \in ForkOps
  BY <1>2, NextAddress, JoinCode DEF Op
<1>9. ~Forking(c)' /\ Forking(t)'
  BY <1>4, <1>8 DEF Forking, InJoin, Op, ForkOps
<1>10. /\ Pending(t)' = n + 1 /\ Unstarted(t)' = n + 1 /\ Unstarted(t) = n
       /\ Kid(t, n)' = c
       /\ \A k \in 0..n-1 : Kid(t, k)' = Kid(t, k)
  <2>1. Pending(t)' = n + 1
    BY <1>4, <1>6 DEF Pending
  <2>2. Unstarted(t)' = n + 1 /\ Unstarted(t) = n
    BY <1>2, <1>4, <1>6, <2>1 DEF Unstarted
  <2>3. stack'[t][2 * n][2] = c
    BY <1>7
  <2>4. \A k \in 0..n-1 : 2 * k \in 0..top[t]-1
    BY <1>6
  <2>. QED
    BY <1>7, <2>1, <2>2, <2>3, <2>4 DEF Kid
<1>11. DepthInCalls'
  <2>1. top'[t] = Depth[ip'[t]]
    <3>1. DepthChange(Code, ip[t], ip[t] + 1) = 2
      BY <1>2 DEF DepthChange, Op, Pushes, Pops, BinaryOps, UnaryOps, CondJumps, TestJumps
    <3>2. ip[t] + 1 \in Successors(Code, ip[t])
      BY <1>2, NextAddress DEF Op
    <3>3. top[t] = Depth[ip[t]]
      BY <1>2 DEF DepthInCalls
    <3>. QED
      BY <1>2, <1>4, <3>1, <3>2, <3>3, DepthStep
  <2>. QED
    BY <1>4, <1>5, <2>1 DEF DepthInCalls, Same
<1>12. LoopsInBounds'
  <2>1. n_spawn_tasks'[t] = SpawnCount(Code, ip'[t])
    <3>1. SpawnCount(Code, ip[t] + 1) = SpawnCount(Code, ip[t])
      BY <1>2, SpawnCountNext DEF Op
    <3>. QED
      BY <1>2, <1>4, <3>1 DEF LoopsInBounds
  <2>2. ASSUME NEW u \in Tasks \ {c, t}
        PROVE  /\ Forking(u)' => n_spawn_tasks'[u] = SpawnCount(Code, ip'[u])
               /\ thread'[u] \in {"spawn", "join"} => i'[u] <= n_spawn_tasks'[u]
               /\ thread'[u] = "count" => i'[u] < n_spawn_tasks'[u]
    BY <1>5, SameTask DEF LoopsInBounds, Same
  <2>. QED
    BY <1>4, <1>9, <2>1, <2>2 DEF LoopsInBounds
<1>13. ChildrenOnStack'
  <2>. SUFFICES ASSUME NEW u \in Tasks, Forking(u)'
                PROVE  ( /\ top[u] = 2 * Pending(u)
                         /\ \A k \in 0..Pending(u)-1 :
                              /\ stack[u][2*k] = <<"lo", Kid(u, k)>>
                              /\ stack[u][2*k + 1] = <<"hi", Kid(u, k)>>
                              /\ Kid(u, k) \in heap \ {RootTask} /\ parent[Kid(u, k)] = u
                              /\ thread[Kid(u, k)] = "none" <=> k < Unstarted(u)
                         /\ \A j, k \in 0..Pending(u)-1 : Kid(u, j) = Kid(u, k) => j = k )'
    BY DEF ChildrenOnStack
  <2>1. CASE u = t
    <3>1. top'[t] = 2 * Pending(t)' /\ 0..Pending(t)'-1 = 0..n-1 \union {n}
      BY <1>4, <1>6, <1>10
    <3>2. ASSUME NEW k \in 0..n-1
          PROVE  /\ stack'[t][2*k] = <<"lo", Kid(t, k)'>> /\ stack'[t][2*k + 1] = <<"hi", Kid(t, k)'>>
                 /\ Kid(t, k)' \in heap' \ {RootTask} /\ parent'[Kid(t, k)'] = t
                 /\ thread'[Kid(t, k)'] = "none" /\ k < Unstarted(t)' /\ Kid(t, k)' # c
      <4>1. 2*k \in 0..top[t]-1 /\ 2*k + 1 \in 0..top[t]-1 /\ k < n
        BY <1>6
      <4>2. /\ stack[t][2*k] = <<"lo", Kid(t, k)>> /\ stack[t][2*k + 1] = <<"hi", Kid(t, k)>>
            /\ Kid(t, k) \in heap \ {RootTask} /\ parent[Kid(t, k)] = t
            /\ thread[Kid(t, k)] = "none"
        BY <1>2, <1>6, <1>10, <4>1, KidFacts
      <4>3. Kid(t, k) # c /\ Kid(t, k) \in Tasks
        BY <1>1, <1>2, <4>2
      <4>4. parent'[Kid(t, k)] = t /\ thread'[Kid(t, k)] = "none" /\ Kid(t, k) \in heap'
        BY <1>1, <1>4, <4>2, <4>3
      <4>. QED
        BY <1>7, <1>10, <4>1, <4>2, <4>3, <4>4, <1>6
    <3>3. \A k \in 0..Pending(t)'-1 :
            /\ stack'[t][2*k] = <<"lo", Kid(t, k)'>> /\ stack'[t][2*k + 1] = <<"hi", Kid(t, k)'>>
            /\ Kid(t, k)' \in heap' \ {RootTask} /\ parent'[Kid(t, k)'] = t
            /\ thread'[Kid(t, k)'] = "none" /\ k < Unstarted(t)'
      <4>1. /\ c \in heap' \ {RootTask} /\ parent'[c] = t /\ thread'[c] = "none"
            /\ n < Unstarted(t)'
        BY <1>1, <1>3, <1>4, <1>6, <1>10
      <4>. QED
        BY <1>7, <1>10, <3>1, <3>2, <4>1
    <3>4. \A j, k \in 0..n-1 : Kid(t, j)' = Kid(t, k)' => j = k
      BY <1>2, <1>6, <1>10, KidFacts
    <3>5. \A j, k \in 0..Pending(t)'-1 : Kid(t, j)' = Kid(t, k)' => j = k
      BY <1>10, <3>1, <3>2, <3>4
    <3>. QED
      BY <2>1, <3>1, <3>3, <3>5
  <2>2. CASE u # t
    <3>1. u # c /\ Same(u) /\ Forking(u)
      BY <1>5, <1>9, <2>2, SameTask
    <3>2. \A k \in 0..Pending(u)-1 : Kid(u, k) \in Tasks \ {c} /\ Kid(u, k) \in heap'
      BY <1>1, <1>2, <3>1, KidFacts
    <3>3. \A k \in 0..Pending(u)-1 :
            /\ parent'[Kid(u, k)] = parent[Kid(u, k)] /\ thread'[Kid(u, k)] = thread[Kid(u, k)]
      BY <1>4, <3>2
    <3>. QED
      BY <3>1, <3>2, <3>3, SameTask DEF ChildrenOnStack, Same
  <2>. QED
    BY <2>1, <2>2
<1>14. ParentsFork'
  <2>. SUFFICES ASSUME NEW d \in heap' \ {RootTask}
                PROVE  ( /\ parent[d] \in heap /\ Forking(parent[d])
                         /\ \E k \in 0..Pending(parent[d])-1 : d = Kid(parent[d], k) )'
    BY DEF ParentsFork
  <2>1. CASE d = c
    <3>1. n \in 0..Pending(t)'-1
      BY <1>6, <1>10
    <3>. QED
      BY <1>1, <1>2, <1>4, <1>9, <1>10, <2>1, <3>1
  <2>2. CASE d # c
    <3>1. PICK p \in heap, k \in Nat :
            p = parent[d] /\ k \in 0..Pending(p)-1 /\ d = Kid(p, k) /\ Forking(p)
      BY <1>1, <2>2 DEF ParentsFork
    <3>2. parent'[d] = p /\ p \in Tasks /\ p # c /\ p \in heap'
      BY <1>1, <1>2, <1>4, <2>2, <3>1
    <3>3. Forking(p)' /\ d = Kid(p, k)' /\ k \in 0..Pending(p)'-1
      <4>1. CASE p = t
        BY <1>6, <1>9, <1>10, <3>1, <4>1
      <4>2. CASE p # t
        BY <1>5, <3>1, <3>2, <4>2, SameTask
      <4>. QED
        BY <4>1, <4>2
    <3>. QED
      BY <3>2, <3>3
  <2>. QED
    BY <2>1, <2>2
<1>15. ParentsRooted'
  <2>1. parent'[RootTask] = NoTask /\ thread'[RootTask] \notin {"end", "sub"}
    BY <1>3, <1>4, TaskAssumption DEF ParentsRooted
  <2>2. RootTask \in heap' => thread'[RootTask] # "none"
    BY <1>1, <1>3, <1>4, TaskAssumption DEF ParentsRooted
  <2>3. ASSUME NEW S \in SUBSET (heap' \ {RootTask}), S # {}
        PROVE  \E d \in S : parent'[d] \notin S
    <3>1. CASE S = {c}
      BY <1>2, <1>4, <3>1
    <3>2. CASE S # {c}
      <4>1. S \ {c} \in SUBSET (heap \ {RootTask}) /\ S \ {c} # {}
        BY <1>1, <2>3, <3>2
      <4>2. PICK d \in S \ {c} : parent[d] \notin S \ {c}
        BY <4>1 DEF ParentsRooted
      <4>3. parent[d] \in heap /\ d \in Tasks
        BY <1>2, <4>1 DEF ParentsFork
      <4>. QED
        BY <1>1, <1>4, <4>2, <4>3
    <3>. QED
      BY <3>1, <3>2
  <2>. QED
    BY <2>1, <2>2, <2>3 DEF ParentsRooted
<1>16. RunningCountsLive'
  <2>. SUFFICES ASSUME NEW p \in heap'
                PROVE  n_spawn_running'[p] =
                         (Cardinality(Outstanding(p)') - Truth(thread'[p] = "count")) % CounterMod
    BY DEF RunningCountsLive
  <2>1. \A d \in Tasks \ {c} : Live(d)' <=> Live(d)
    BY <1>1, <1>4 DEF Live
  <2>2. ~Live(c) /\ ~Live(c)'
    BY <1>1, <1>4 DEF Live
  <2>3. CASE p = c
    <3>1. \A d \in Tasks : ~(Live(d)' /\ parent'[d] = c)
      <4>1. ASSUME NEW d \in Tasks, Live(d)', parent'[d] = c
            PROVE  FALSE
        <5>1. d # c /\ Live(d) /\ parent[d] = c
          BY <1>4, <2>1, <2>2, <4>1
        <5>2. d \in heap
          BY <5>1 DEF Live
        <5>. QED
          BY <1>1, <5>1, <5>2, NoKids
      <4>. QED
        BY <4>1
    <3>2. Outstanding(c)' = {}
      BY <3>1 DEF Outstanding
    <3>3. Cardinality(Outstanding(c)') - Truth(thread'[c] = "count") = 0
      BY <1>4, <3>2, EmptyCount DEF Truth
    <3>4. 0 % CounterMod = 0
      BY ModBelow, TaskAssumption
    <3>. QED
      BY <1>4, <2>3, <3>3, <3>4
  <2>4. CASE p # c
    <3>1. p \in heap /\ p \in Tasks
      BY <1>1, <1>2, <2>4
    <3>2. \A d \in Tasks : Live(d)' /\ parent'[d] = p <=> Live(d) /\ parent[d] = p
      BY <1>4, <2>1, <2>2
    <3>. QED
      BY <1>4, <2>4, <3>1, <3>2, CountKept
  <2>. QED
    BY <2>3, <2>4
<1>. QED
  BY <1>11, <1>12, <1>13, <1>14, <1>15, <1>16

\* OP_JOIN frees the youngest child.
LEMMA JoinThreadEffect ==
  ASSUME IInv, JInv, NEW t \in Tasks, JoinThread(t)
  PROVE  /\ TypeOK /\ Forking(t) /\ thread[t] = "join" /\ i[t] < n_spawn_tasks[t]
         /\ \E n \in Nat, c \in heap \ {RootTask} :
              /\ Pending(t) = n + 1 /\ top[t] = 2*n + 2 /\ c = Kid(t, n) /\ Child(t, 0) = c
              /\ parent[c] = t /\ thread[c] = "exited" /\ c # t
              /\ heap' = heap \ {c} /\ top' = [top EXCEPT ![t] = 2*n]
              /\ i' = [i EXCEPT ![t] = i[t] + 1]
         /\ UNCHANGED <<parent, ip, stack, n_spawn_tasks, n_spawn_running, thread>>
<1>. USE DEF IInv
<1>1. /\ TypeOK /\ thread[t] = "join" /\ Forking(t) /\ i[t] < n_spawn_tasks[t]
      /\ thread[Child(t, 0)] = "exited" /\ heap' = heap \ {Child(t, 0)}
      /\ top' = [top EXCEPT ![t] = top[t] - 2] /\ i' = [i EXCEPT ![t] = i[t] + 1]
      /\ UNCHANGED <<parent, ip, stack, n_spawn_tasks, n_spawn_running, thread>>
  BY DEF JoinThread, At, Forking, InJoin, SetTop, TypeOK
<1>2. /\ Pending(t) = n_spawn_tasks[t] - i[t] /\ top[t] = 2 * Pending(t)
      /\ n_spawn_tasks[t] \in Nat /\ i[t] \in Nat
  BY <1>1, ForkFacts
<1>3. PICK n \in Nat : n = Pending(t) - 1
  BY <1>1, <1>2
<1>4. Pending(t) = n + 1 /\ 0 \in 0..Pending(t)-1 /\ n \in 0..Pending(t)-1 /\ Pending(t) - 1 - 0 = n
  BY <1>2, <1>3
<1>5. Child(t, 0) = Kid(t, n)
  BY <1>1, <1>4, ChildIsKid
<1>6. Kid(t, n) \in heap \ {RootTask} /\ parent[Kid(t, n)] = t
  BY <1>1, <1>4, KidFacts
<1>7. top[t] = 2*n + 2 /\ top[t] - 2 = 2*n
  BY <1>2, <1>4
<1>8. Kid(t, n) # t
  BY <1>1, <1>5
<1>. QED
  BY <1>1, <1>4, <1>5, <1>6, <1>7, <1>8

LEMMA JoinThreadKeepsJInv ==
  ASSUME IInv, JInv, NEW t \in Tasks, JoinThread(t)
  PROVE  JInv'
<1>. USE DEF JInv
<1>1. PICK n \in Nat, c \in heap \ {RootTask} :
        /\ Pending(t) = n + 1 /\ top[t] = 2*n + 2 /\ c = Kid(t, n)
        /\ parent[c] = t /\ thread[c] = "exited" /\ c # t
        /\ heap' = heap \ {c} /\ top' = [top EXCEPT ![t] = 2*n]
        /\ i' = [i EXCEPT ![t] = i[t] + 1]
  BY JoinThreadEffect
<1>2. /\ TypeOK /\ Forking(t) /\ thread[t] = "join" /\ i[t] < n_spawn_tasks[t]
      /\ UNCHANGED <<parent, ip, stack, n_spawn_tasks, n_spawn_running, thread>>
      /\ heap \subseteq Tasks /\ n_spawn_tasks[t] \in Nat /\ i[t] \in Nat
      /\ Pending(t) = n_spawn_tasks[t] - i[t]
  BY JoinThreadEffect, ForkFacts, InHeapTasks
<1>3. top'[t] = 2*n /\ i'[t] = i[t] + 1 /\ \A u \in Tasks \ {t} : Same(u)
  BY <1>1, <1>2 DEF Same, TypeOK
<1>4. ~Forking(c) /\ ~Forking(c)' /\ Forking(t)'
  BY <1>1, <1>2 DEF Forking, InJoin
<1>5. /\ Pending(t)' = n /\ \A u : \A k : Kid(u, k)' = Kid(u, k)
      /\ Unstarted(t) = 0 /\ Unstarted(t)' = 0
  BY <1>2, <1>3 DEF Pending, Kid, Unstarted
<1>6. \A u \in Tasks \ {t} : /\ (Forking(u)' <=> Forking(u)) /\ Unstarted(u)' = Unstarted(u)
                             /\ Pending(u)' = Pending(u)
  BY <1>3, SameTask
<1>7. DepthInCalls'
  <2>1. top'[t] = 2 * (n_spawn_tasks[t] - i'[t])
    BY <1>1, <1>2, <1>3
  <2>. QED
    BY <1>2, <1>3, <2>1 DEF DepthInCalls, Same
<1>8. LoopsInBounds'
  <2>1. i'[t] <= n_spawn_tasks[t]
    BY <1>2, <1>3
  <2>2. n_spawn_tasks[t] = SpawnCount(Code, ip[t])
    BY <1>2 DEF LoopsInBounds
  <2>. QED
    BY <1>2, <1>3, <1>6, <2>1, <2>2 DEF LoopsInBounds, Same
<1>9. ChildrenOnStack'
  <2>. SUFFICES ASSUME NEW u \in Tasks, Forking(u)'
                PROVE  ( /\ top[u] = 2 * Pending(u)
                         /\ \A k \in 0..Pending(u)-1 :
                              /\ stack[u][2*k] = <<"lo", Kid(u, k)>>
                              /\ stack[u][2*k + 1] = <<"hi", Kid(u, k)>>
                              /\ Kid(u, k) \in heap \ {RootTask} /\ parent[Kid(u, k)] = u
                              /\ thread[Kid(u, k)] = "none" <=> k < Unstarted(u)
                         /\ \A j, k \in 0..Pending(u)-1 : Kid(u, j) = Kid(u, k) => j = k )'
    BY DEF ChildrenOnStack
  <2>1. CASE u = t
    <3>1. /\ top'[t] = 2 * Pending(t)' /\ 0..Pending(t)'-1 = 0..n-1
          /\ 0..n-1 \subseteq 0..Pending(t)-1 /\ n \in 0..Pending(t)-1 /\ n \notin 0..n-1
      BY <1>1, <1>3, <1>5
    <3>2. \A k \in 0..n-1 : Kid(t, k) \in heap \ {RootTask} /\ Kid(t, k) # c
      BY <1>1, <1>2, <3>1, KidFacts
    <3>. QED
      BY <1>1, <1>2, <1>5, <2>1, <3>1, <3>2, KidFacts
  <2>2. CASE u # t
    <3>1. Forking(u) /\ Same(u)
      BY <1>3, <1>6, <2>2
    <3>2. \A k \in 0..Pending(u)-1 : Kid(u, k) \in heap' \ {RootTask}
      BY <1>1, <2>2, <3>1, KidFacts
    <3>. QED
      BY <1>2, <1>5, <1>6, <2>2, <3>1, <3>2 DEF ChildrenOnStack, Same
  <2>. QED
    BY <2>1, <2>2
<1>10. ParentsFork'
  <2>. SUFFICES ASSUME NEW d \in heap' \ {RootTask}
                PROVE  ( /\ parent[d] \in heap /\ Forking(parent[d])
                         /\ \E k \in 0..Pending(parent[d])-1 : d = Kid(parent[d], k) )'
    BY DEF ParentsFork
  <2>1. PICK p \in heap, k \in Nat :
          p = parent[d] /\ k \in 0..Pending(p)-1 /\ d = Kid(p, k) /\ Forking(p)
    BY <1>1 DEF ParentsFork
  <2>2. p \in heap' /\ p \in Tasks /\ parent'[d] = p /\ d # c
    BY <1>1, <1>2, <1>4, <2>1
  <2>3. Forking(p)' /\ d = Kid(p, k)' /\ k \in 0..Pending(p)'-1
    <3>1. CASE p = t
      <4>1. k # n
        BY <1>1, <2>1, <2>2, <3>1
      <4>2. k \in 0..n-1
        BY <1>1, <2>1, <3>1, <4>1
      <4>. QED
        BY <1>4, <1>5, <2>1, <3>1, <4>2
    <3>2. CASE p # t
      BY <1>5, <1>6, <2>1, <2>2, <3>2
    <3>. QED
      BY <3>1, <3>2
  <2>. QED
    BY <2>2, <2>3
<1>11. ParentsRooted'
  BY <1>1, <1>2 DEF ParentsRooted
<1>12. RunningCountsLive'
  <2>. SUFFICES ASSUME NEW p \in heap'
                PROVE  n_spawn_running'[p] =
                         (Cardinality(Outstanding(p)') - Truth(thread'[p] = "count")) % CounterMod
    BY DEF RunningCountsLive
  <2>1. \A d \in Tasks : Live(d)' <=> Live(d)
    BY <1>1, <1>2 DEF Live
  <2>. QED
    BY <1>1, <1>2, <2>1, CountKept
<1>. QED
  BY <1>7, <1>8, <1>9, <1>10, <1>11, <1>12

\* When the loop of pthread_joins is over there is no child left, and the
\* counter is zero.
LEMMA NoKidsAfterLoop ==
  ASSUME IInv, JInv, NEW t \in Tasks, thread[t] = "join", i[t] = n_spawn_tasks[t]
  PROVE  top[t] = 0 /\ n_spawn_running[t] = 0 /\ \A c \in heap : parent[c] # t
<1>. USE DEF JInv
<1>1. Forking(t) /\ Pending(t) = 0 /\ top[t] = 0 /\ t \in heap
  BY ForkFacts DEF Forking, InJoin
<1>2. \A c \in heap : parent[c] # t
  BY <1>1, NoKids
<1>3. Outstanding(t) = {}
  BY <1>2 DEF Outstanding, Live
<1>4. Cardinality(Outstanding(t)) - Truth(thread[t] = "count") = 0 /\ 0 % CounterMod = 0
  BY <1>3, EmptyCount, ModBelow, TaskAssumption DEF Truth
<1>. QED
  BY <1>1, <1>2, <1>4 DEF RunningCountsLive

\* The assertion in OP_JOIN holds, and the stack is empty after it.
LEMMA EndJoinEffect ==
  ASSUME IInv, JInv, NEW t \in Tasks, EndJoin(t)
  PROVE  /\ TypeOK /\ thread[t] = "join" /\ i[t] = n_spawn_tasks[t] /\ Op(t) = "OP_JOIN"
         /\ Advance(t) /\ Become(t, "run")
         /\ UNCHANGED <<shared, stack, top, spawnVars>>
<1>1. /\ TypeOK /\ thread[t] = "join" /\ i[t] = n_spawn_tasks[t] /\ Op(t) = "OP_JOIN"
  BY DEF EndJoin, At, IInv, CallsMatchCode
<1>2. n_spawn_running[t] = 0
  BY <1>1, NoKidsAfterLoop
<1>. QED
  BY <1>1, <1>2 DEF EndJoin

LEMMA EndJoinKeepsJInv ==
  ASSUME IInv, JInv, NEW t \in Tasks, EndJoin(t)
  PROVE  JInv'
<1>. USE DEF shared, spawnVars
<1>1. /\ TypeOK /\ thread[t] = "join" /\ Op(t) = "OP_JOIN" /\ Forking(t) /\ ip[t] \in DOMAIN Code
      /\ ip' = [ip EXCEPT ![t] = ip[t] + 1] /\ thread' = [thread EXCEPT ![t] = "run"]
      /\ UNCHANGED <<heap, parent, stack, top, n_spawn_tasks, n_spawn_running, i>>
  BY EndJoinEffect DEF Advance, Goto, Become, Forking, InJoin, TypeOK
<1>2. top[t] = 0 /\ \A c \in heap : parent[c] # t
  BY EndJoinEffect, NoKidsAfterLoop
<1>3. /\ ip'[t] = ip[t] + 1 /\ thread'[t] = "run" /\ \A u \in Tasks \ {t} : Same(u)
  BY <1>1 DEF Same, TypeOK
<1>4. ip[t] + 1 \in Successors(Code, ip[t]) /\ ip[t] + 1 \in DOMAIN Code
  BY <1>1, NextAddress DEF Op
<1>5. ~Forking(t)' /\ Live(t)' = Live(t)
  BY <1>1, <1>3, <1>4, JoinCode DEF Forking, InJoin, Live, Op, ForkOps
<1>6. top'[t] = Depth[ip'[t]]
  <2>1. DepthChange(Code, ip[t], ip[t] + 1) = 0 - 2 * SpawnCount(Code, ip[t])
    BY <1>1 DEF DepthChange, Op, Pops, BinaryOps, UnaryOps, CondJumps, TestJumps
  <2>2. Depth[ip[t]] = 2 * SpawnCount(Code, ip[t])
    BY <1>1, JoinCode DEF Op
  <2>3. SpawnCount(Code, ip[t]) = n_spawn_tasks[t] /\ n_spawn_tasks[t] \in Nat
    BY <1>1 DEF JInv, LoopsInBounds, TypeOK
  <2>. QED
    BY <1>1, <1>2, <1>3, <1>4, <2>1, <2>2, <2>3, DepthStep
<1>. QED
  BY <1>1, <1>2, <1>3, <1>5, <1>6, ChildlessStep

\* The end of a thread: its parent's counter goes down with its children.
LEMMA CountDownKeepsJInv ==
  ASSUME IInv, JInv, NEW t \in Tasks, CountDown(t)
  PROVE  JInv'
<1>. USE DEF JInv, shared, regs
<1>1. PICK q \in heap :
        /\ q = parent[t]
        /\ n_spawn_running' = [n_spawn_running EXCEPT
             ![q] = IF n_spawn_running[q] = 0 THEN CounterMod - 1 ELSE n_spawn_running[q] - 1]
  BY DEF CountDown
<1>2. /\ TypeOK /\ thread[t] = "sub" /\ thread' = [thread EXCEPT ![t] = "exiting"]
      /\ UNCHANGED <<heap, parent, ip, stack, top, n_spawn_tasks, i>>
      /\ t \in heap /\ t # RootTask /\ ~Forking(t) /\ heap \subseteq Tasks
  BY InHeap, InHeapTasks DEF CountDown, At, Become, IInv, ParentsRooted, Forking, InJoin
<1>3. thread'[t] = "exiting" /\ \A u \in Tasks \ {t} : Same(u)
  BY <1>2 DEF Same, TypeOK
<1>4. \A u \in Tasks : /\ (Forking(u)' <=> Forking(u)) /\ Pending(u)' = Pending(u)
                       /\ \A k : Kid(u, k)' = Kid(u, k)
                       /\ Forking(u) => Unstarted(u)' = Unstarted(u)
  <2>1. ~Forking(t)' /\ Pending(t)' = Pending(t) /\ \A k : Kid(t, k)' = Kid(t, k)
    BY <1>2, <1>3 DEF Forking, InJoin, Pending, Kid
  <2>2. ASSUME NEW u \in Tasks, u # t
        PROVE  /\ (Forking(u)' <=> Forking(u)) /\ Unstarted(u)' = Unstarted(u)
               /\ Pending(u)' = Pending(u) /\ \A k : Kid(u, k)' = Kid(u, k)
    BY <1>3, <2>2, SameTask
  <2>. QED
    BY <1>2, <2>1, <2>2
<1>5. \A u \in Tasks : thread'[u] = "none" <=> thread[u] = "none"
  BY <1>2, <1>3 DEF Same
<1>6. DepthInCalls'
  BY <1>2, <1>3 DEF DepthInCalls, Same
<1>7. LoopsInBounds'
  BY <1>2, <1>3, <1>4 DEF LoopsInBounds, Same
<1>8. ChildrenOnStack'
  BY <1>2, <1>4, <1>5, KidFacts DEF ChildrenOnStack
<1>9. ParentsFork'
  BY <1>2, <1>4 DEF ParentsFork
<1>10. ParentsRooted'
  BY <1>2, <1>3, <1>5, TaskAssumption DEF ParentsRooted, Same
<1>11. RunningCountsLive'
  <2>. SUFFICES ASSUME NEW r \in heap
                PROVE  n_spawn_running'[r] =
                         (Cardinality(Outstanding(r)') - Truth(thread'[r] = "count")) % CounterMod
    BY <1>2 DEF RunningCountsLive
  <2>1. /\ \A d \in Tasks \ {t} : Live(d)' <=> Live(d)
        /\ Live(t) /\ ~Live(t)'
    BY <1>2, <1>3 DEF Live, Same
  <2>2. thread'[r] = "count" <=> thread[r] = "count"
    BY <1>2, <1>3 DEF Same
  <2>3. CASE r # q
    <3>1. n_spawn_running'[r] = n_spawn_running[r]
      BY <1>1, <1>2, <2>3 DEF TypeOK
    <3>. QED
      BY <1>1, <1>2, <2>1, <2>2, <2>3, <3>1, CountKept
  <2>4. CASE r = q
    <3>1. Outstanding(q)' = Outstanding(q) \ {t} /\ t \in Outstanding(q)
      BY <1>1, <1>2, <2>1 DEF Outstanding
    <3>2. /\ Cardinality(Outstanding(q)') = Cardinality(Outstanding(q)) - 1
          /\ Cardinality(Outstanding(q)') \in Nat
      BY <3>1, OutstandingType, FS_RemoveElement, FS_CardinalityType
    <3>3. PICK n \in Int, x \in {0, 1} :
            /\ n = Cardinality(Outstanding(q)) - x /\ x = Truth(thread[q] = "count")
            /\ 0 <= n /\ n < CounterMod /\ Cardinality(Outstanding(q)') - x = n - 1
      <4> DEFINE m == Cardinality(Outstanding(q))
      <4>1. m \in Nat /\ m < CounterMod
        BY OutstandingType
      <4>2. PICK x \in {0, 1} : x = Truth(thread[q] = "count")
        BY DEF Truth
      <4>3. Cardinality(Outstanding(q)') = m - 1 /\ m - 1 \in Nat
        BY <3>2
      <4>. HIDE DEF m
      <4>4. /\ m - x \in Int /\ 0 <= m - x /\ m - x < CounterMod
            /\ Cardinality(Outstanding(q)') - x = (m - x) - 1
        BY <4>1, <4>3, TaskAssumption
      <4>. QED
        BY <4>2, <4>4 DEF m
    <3>4. n_spawn_running[q] = n
      <4>1. n % CounterMod = n
        BY <3>3, ModBelow
      <4>. QED
        BY <3>3, <4>1 DEF RunningCountsLive
    <3>5. (n - 1) % CounterMod = IF n = 0 THEN CounterMod - 1 ELSE n - 1
      <4>1. n - 1 \in Int /\ -1 <= n - 1 /\ n - 1 < CounterMod
        BY <3>3, TaskAssumption
      <4>2. (n - 1) % CounterMod = IF n - 1 = -1 THEN CounterMod - 1 ELSE n - 1
        BY <4>1, ModBelow
      <4>. QED
        BY <3>3, <4>2
    <3>6. n_spawn_running'[q] = (n - 1) % CounterMod
      BY <1>1, <1>2, <3>4, <3>5 DEF TypeOK
    <3>7. Truth(thread'[q] = "count") = x
      BY <2>2, <2>4, <3>3 DEF Truth
    <3>. QED
      BY <2>4, <3>3, <3>6, <3>7
  <2>. QED
    BY <2>3, <2>4
<1>. QED
  BY <1>6, <1>7, <1>8, <1>9, <1>10, <1>11

-----------------------------------------------------------------------------
(* The main thread.                                                         *)

LEMMA MainStartKeepsJInv ==
  ASSUME IInv, JInv, MainStart
  PROVE  JInv'
<1>. USE DEF IInv, JInv
<1>1. /\ TypeOK /\ heap = {} /\ heap' = {RootTask} /\ RootTask \in Tasks
      /\ parent' = [parent EXCEPT ![RootTask] = NoTask]
      /\ n_spawn_running' = [n_spawn_running EXCEPT ![RootTask] = 0]
      /\ top' = [top EXCEPT ![RootTask] = 0] /\ thread' = [thread EXCEPT ![RootTask] = "created"]
      /\ \A u \in Tasks : thread[u] \in {"none", "exited"}
  BY TaskAssumption DEF MainStart, NewTask, Become, BlocksInUse
<1>2. /\ \A u \in Tasks : thread'[u] \in {"none", "exited", "created"}
      /\ thread'[RootTask] = "created" /\ top'[RootTask] = 0 /\ parent'[RootTask] = NoTask
      /\ n_spawn_running'[RootTask] = 0
      /\ \A u \in Tasks \ {RootTask} : thread'[u] = thread[u] /\ top'[u] = top[u]
  BY <1>1 DEF TypeOK
<1>3. \A u \in Tasks : ~Forking(u)'
  BY <1>2 DEF Forking, InJoin
<1>4. DepthInCalls' /\ LoopsInBounds' /\ ChildrenOnStack'
  BY <1>2, <1>3 DEF DepthInCalls, LoopsInBounds, ChildrenOnStack
<1>5. ParentsFork' /\ ParentsRooted'
  BY <1>1, <1>2 DEF ParentsFork, ParentsRooted
<1>6. RunningCountsLive'
  <2>1. Outstanding(RootTask)' = {}
    BY <1>1, <1>2, TaskAssumption DEF Outstanding, Live
  <2>2. Cardinality(Outstanding(RootTask)') - Truth(thread'[RootTask] = "count") = 0
    BY <1>2, <2>1, EmptyCount DEF Truth
  <2>3. 0 % CounterMod = 0
    BY ModBelow, TaskAssumption
  <2>. QED
    BY <1>1, <1>2, <2>2, <2>3 DEF RunningCountsLive
<1>. QED
  BY <1>4, <1>5, <1>6

\* The init task has no children when the main thread disposes of it.
LEMMA MainFreeKeepsJInv ==
  ASSUME IInv, JInv, MainFree
  PROVE  JInv' /\ heap' = {}
<1>. USE DEF IInv, JInv
<1>1. /\ heap' = heap \ {RootTask} /\ thread[RootTask] = "exited"
      /\ UNCHANGED <<parent, regs, spawnVars, thread>>
  BY DEF MainFree, BlocksInUse
<1>2. heap' = {}
  <2>1. ~Forking(RootTask)
    BY <1>1 DEF Forking, InJoin
  <2>. QED
    BY <1>1, <2>1, RootAloneInHeap
<1>3. \A u \in Tasks : ~Forking(u)
  <2>1. ASSUME NEW u \in Tasks, Forking(u)
        PROVE  FALSE
    <3>1. u \in heap
      BY <2>1, ForkFacts
    <3>. QED
      BY <1>1, <1>2, <2>1, <3>1 DEF Forking, InJoin
  <2>. QED
    BY <2>1
<1>4. \A u \in Tasks : Same(u) /\ ~Forking(u)'
  BY <1>1, <1>3, SameTask DEF Same, regs, spawnVars
<1>5. DepthInCalls' /\ LoopsInBounds' /\ ChildrenOnStack'
  BY <1>3, <1>4 DEF DepthInCalls, LoopsInBounds, ChildrenOnStack, Same
<1>6. ParentsFork' /\ ParentsRooted' /\ RunningCountsLive'
  BY <1>1, <1>2 DEF ParentsFork, ParentsRooted, RunningCountsLive
<1>. QED
  BY <1>2, <1>5, <1>6

-----------------------------------------------------------------------------
(* The invariant.                                                           *)

LEMMA InitJInv == Init => JInv /\ NothingLeft
<1>. SUFFICES ASSUME Init PROVE JInv /\ NothingLeft
  OBVIOUS
<1>. USE DEF Init
<1>1. \A t \in Tasks : thread[t] = "none" /\ top[t] = 0 /\ parent[t] = NoTask /\ ~Forking(t)
  BY DEF Forking, InJoin
<1>2. DepthInCalls /\ LoopsInBounds /\ ChildrenOnStack
  BY <1>1 DEF DepthInCalls, LoopsInBounds, ChildrenOnStack
<1>3. ParentsFork /\ ParentsRooted /\ RunningCountsLive
  BY <1>1, TaskAssumption DEF ParentsFork, ParentsRooted, RunningCountsLive
<1>. QED
  BY <1>2, <1>3 DEF JInv, NothingLeft

LEMMA NextJInv ==
  ASSUME IInv, JInv, [Next]_vars
  PROVE  JInv'
<1>1. ASSUME NEW t \in Tasks, Instruction(t)
      PROVE  JInv'
  BY <1>1, InstructionEffect, CrashKeepsJInv, LocalKeepsJInv, SpawnKeepsJInv, RunSpawnKeepsJInv,
     OutsideForkKeepsJInv DEF IInv
<1>2. ASSUME NEW t \in Tasks, BeginWait(t) \/ EndWait(t)
      PROVE  FALSE
  BY <1>2, JoinCode DEF BeginWait, EndWait, At, IInv, TypeOK, CallsMatchCode, Op
<1>3. ASSUME NEW t \in Tasks, InsideCall(t)
      PROVE  JInv'
  BY <1>2, <1>3, CreateThreadKeepsJInv, CountThreadKeepsJInv, BeginJoinKeepsJInv,
     JoinThreadKeepsJInv, EndJoinKeepsJInv, OutsideForkKeepsJInv, CountDownKeepsJInv
     DEF InsideCall
<1>4. ASSUME NEW t \in Tasks, TouchFreed(t)
      PROVE  JInv'
  BY <1>4, CrashKeepsJInv DEF TouchFreed
<1>5. CASE MainThread
  BY <1>5, MainStartKeepsJInv, MainFreeKeepsJInv, StillKeepsJInv
     DEF MainThread, MainNoModule, MainJoin, MainExit, taskVars
<1>6. CASE UNCHANGED vars
  BY <1>6, StillKeepsJInv DEF vars, regs, spawnVars
<1>. QED
  BY <1>1, <1>3, <1>4, <1>5, <1>6 DEF Next, TaskStep, Ended

\* Only a spawn and the main thread add blocks to the heap, and only the main
\* thread changes main.
LEMMA NextNothingLeft ==
  ASSUME IInv, JInv, NothingLeft, [Next]_vars
  PROVE  NothingLeft'
<1>. USE DEF NothingLeft, shared, taskVars, OnlyRegs, Crash
<1>1. ASSUME NEW t \in Tasks, Instruction(t)
      PROVE  UNCHANGED main /\ (heap' = heap \/ main # "exit")
  <2>1. CASE Spawn(t)
    BY <2>1 DEF Spawn, Executes
  <2>. QED
    BY <1>1, <2>1, InstructionEffect DEF LocalStep, RunSpawn, BeginSleep, EndTask, IInv
<1>2. ASSUME NEW t \in Tasks, InsideCall(t) \/ TouchFreed(t)
      PROVE  UNCHANGED main /\ heap' \subseteq heap
  BY <1>2 DEF InsideCall, CreateThread, CountThread, BeginJoin, JoinThread, EndJoin, BeginWait,
     EndWait, EndSleep, StartTask, CheckSiblings, CountDown, ExitThread, TouchFreed
<1>3. CASE MainThread
  BY <1>3, MainFreeKeepsJInv DEF MainThread, MainStart, MainNoModule, MainJoin, MainExit
<1>4. CASE UNCHANGED vars
  BY <1>4 DEF vars
<1>. QED
  BY <1>1, <1>2, <1>3, <1>4 DEF Next, TaskStep, Ended

\* The inductive invariant of programs that join every spawn.
THEOREM JoinInvariant == Spec => [](IInv /\ JInv /\ NothingLeft)
<1>1. Init => IInv /\ JInv /\ NothingLeft
  BY InitInvariant, InitJInv
<1>2. (IInv /\ JInv /\ NothingLeft) /\ [Next]_vars => (IInv /\ JInv /\ NothingLeft)'
  BY NextInvariant, NextJInv, NextNothingLeft
<1>. QED
  BY <1>1, <1>2, PTL DEF Spec

-----------------------------------------------------------------------------
(* Theorems.                                                                *)

\* task_n_spawn_running of a task counts its threads that have yet to stop,
\* whatever the order of increments and decrements: exec_run_spawn may be one
\* behind, and no decrement is lost or counted twice.
THEOREM CountersCount == Spec => []RunningCountsLive
<1>1. JInv => RunningCountsLive
  BY DEF JInv
<1>. QED
  BY <1>1, JoinInvariant, PTL

\* At every address the operand stack has the depth that the compiler intended,
\* also after the loops of OP_JOIN have dropped the children's addresses.
THEOREM StackAsCompiled == Spec => []StackDiscipline
<1>1. JInv => StackDiscipline
  BY DEF JInv, DepthInCalls, StackDiscipline
<1>. QED
  BY <1>1, JoinInvariant, PTL

\* A task runs only while its parent is inside OP_JOIN and the main thread has
\* not disposed of the module.
LEMMA ParentsAlive ==
  ASSUME IInv, JInv, NothingLeft
  PROVE  ParentsOutliveChildren
<1>. USE DEF IInv, JInv
<1>. SUFFICES ASSUME NEW t \in Tasks, Live(t)
              PROVE  /\ main = "join"
                     /\ t # RootTask => /\ Live(parent[t])
                                        /\ thread[parent[t]] \in {"spawn", "count", "join"}
  BY DEF ParentsOutliveChildren
<1>1. t \in heap /\ thread[t] \notin {"none", "exiting", "exited"}
  BY DEF Live
<1>2. ASSUME t # RootTask
      PROVE  parent[t] \in heap /\ InJoin(parent[t])
  <2>1. PICK p \in heap, k \in Nat :
          p = parent[t] /\ k \in 0..Pending(p)-1 /\ t = Kid(p, k) /\ Forking(p)
    BY <1>1, <1>2 DEF ParentsFork
  <2>2. p \in Tasks
    BY InHeapTasks
  <2>3. ~(k < Unstarted(p))
    BY <1>1, <2>1, <2>2, KidFacts
  <2>4. Unstarted(p) # Pending(p)
    BY <2>1, <2>2, <2>3, ForkFacts
  <2>5. thread[p] # "run"
    BY <2>4 DEF Unstarted
  <2>. QED
    BY <2>1, <2>5 DEF Forking
<1>3. main = "join"
  <2>1. main # "start" /\ main # "exit"
    BY <1>1 DEF NothingLeft, BlocksInUse
  <2>2. main # "free"
    <3>1. SUFFICES ASSUME main = "free" PROVE FALSE
      OBVIOUS
    <3>2. thread[RootTask] = "exited"
      BY <3>1 DEF BlocksInUse
    <3>3. heap \subseteq {RootTask}
      BY <3>2, RootAloneInHeap DEF Forking, InJoin
    <3>. QED
      BY <1>1, <3>2, <3>3
  <2>. QED
    BY <2>1, <2>2 DEF TypeOK
<1>. QED
  BY <1>2, <1>3 DEF InJoin, Live

\* Neither the module nor the block of a task's parent is freed under a thread
\* that still uses it.
THEOREM ParentsOutlive == Spec => []ParentsOutliveChildren
  BY ParentsAlive, JoinInvariant, PTL

\* A task goes on after OP_JOIN only when its counter is zero and all blocks it
\* has spawned are freed.
THEOREM JoinBarrier == Spec => JoinIsBarrier
<1>1. ASSUME IInv, JInv, NEW u \in Tasks, TaskStep(u),
             NEW t \in Tasks, thread[t] = "join", thread'[t] = "run"
      PROVE  EndJoin(t)
  <2>1. t = u
    BY <1>1, Bystander DEF IInv
  <2>2. ~Instruction(t)
    BY <1>1 DEF Instruction, PushConst, PushVar, PopInt, UnaryOp, BinaryOp, Jump, CondJump,
       TestJump, BadInstruction, PrintInt, PrintText, BeginAtomicPrint, EndAtomicPrint,
       BeginSpawn, Spawn, SpawnNoMemory, RunSpawn, BeginSleep, EndTask, Executes, At
  <2>3. ~TouchFreed(t)
    BY <1>1 DEF TouchFreed, Crash
  <2>4. InsideCall(t)
    BY <1>1, <2>1, <2>2, <2>3 DEF TaskStep
  <2>. QED
    BY <1>1, <2>4 DEF InsideCall, CreateThread, CountThread, BeginJoin, JoinThread, BeginWait,
       EndWait, EndSleep, StartTask, CheckSiblings, CountDown, ExitThread, At
<1>2. ASSUME IInv, JInv, MainThread \/ UNCHANGED vars, NEW t \in Tasks, thread[t] = "join"
      PROVE  thread'[t] # "run"
  BY <1>2 DEF MainThread, MainStart, MainNoModule, MainJoin, MainFree, MainExit, Become, vars,
     IInv, TypeOK
<1>3. ASSUME IInv, JInv, [Next]_vars
      PROVE  [\A t \in Tasks :
                thread[t] = "join" /\ thread'[t] = "run" =>
                  n_spawn_running[t] = 0 /\ \A c \in heap : parent[c] # t]_vars
  <2>. SUFFICES ASSUME NEW t \in Tasks, thread[t] = "join", thread'[t] = "run"
                PROVE  n_spawn_running[t] = 0 /\ \A c \in heap : parent[c] # t
    OBVIOUS
  <2>1. EndJoin(t)
    BY <1>1, <1>2, <1>3 DEF Next, Ended
  <2>2. i[t] = n_spawn_tasks[t]
    BY <2>1 DEF EndJoin
  <2>. QED
    BY <1>3, <2>2, NoKidsAfterLoop
<1>. QED
  BY <1>3, JoinInvariant, PTL DEF Spec, JoinIsBarrier

\* A stack as large as the compiler's depths need neither under- nor overflows.
LEMMA StackDepthOK ==
  ASSUME TypeOK, JInv, DepthsBelow(StackSize), NEW t \in Tasks, thread[t] = "run"
  PROVE  StackOK(t)
<1>1. top[t] = Depth[ip[t]] /\ ip[t] \in DOMAIN Code
  BY DEF TypeOK, JInv, DepthInCalls
<1>2. Depth[ip[t]] >= Pops(Op(t))
  BY <1>1, DepthAssumption DEF DepthOf, Op
<1>. QED
  BY <1>1, <1>2 DEF StackOK, DepthsBelow, Op

\* The ends an instruction of such a program can bring about.
LEMMA InstructionEnds ==
  ASSUME IInv, JInv, NEW t \in Tasks, Instruction(t)
  PROVE  \/ UNCHANGED proc
         \/ proc' = "no_memory"
         \/ proc' = "sigfpe" /\ Divides
         \/ proc' \in {"stack", "op_bad"} /\ ~(DepthsBelow(StackSize) /\ NoBadOpcode)
<1>1. ip[t] \in DOMAIN Code
  BY DEF IInv, TypeOK
<1>2. CASE SpawnNoMemory(t)
  BY <1>2 DEF SpawnNoMemory, Crash
<1>3. CASE BinaryOp(t)
  <2>1. UNCHANGED proc \/ (proc' = "sigfpe" /\ \E y, x : Traps(Op(t), y, x))
    BY <1>3 DEF BinaryOp, Crash, OnlyRegs, shared
  <2>. QED
    BY <1>1, <2>1 DEF Traps, Divides, Op
<1>4. CASE BadInstruction(t)
  <2>1. thread[t] = "run" /\ proc' = IF StackOK(t) THEN "op_bad" ELSE "stack"
    BY <1>4 DEF BadInstruction, At, Crash
  <2>2. (Op(t) = "OP_BAD" /\ proc' = "op_bad") \/ (~StackOK(t) /\ proc' = "stack")
    BY <1>4, <2>1 DEF BadInstruction
  <2>3. Op(t) = "OP_BAD" => ~NoBadOpcode
    BY <1>1 DEF NoBadOpcode, Op
  <2>. QED
    BY <2>1, <2>2, <2>3, StackDepthOK DEF IInv
<1>. QED
  BY <1>2, <1>3, <1>4 DEF Instruction, PushConst, PushVar, PopInt, UnaryOp, Jump, CondJump,
     TestJump, PrintInt, PrintText, BeginAtomicPrint, EndAtomicPrint, BeginSpawn, Spawn,
     RunSpawn, BeginSleep, EndTask, OnlyRegs, shared

\* exec_run_spawn finds a pointer for every thread it creates, the assertion in
\* OP_JOIN holds, and no thread reads a freed block.
LEMMA CallEnds ==
  ASSUME IInv, JInv, NothingLeft, NEW t \in Tasks, InsideCall(t) \/ TouchFreed(t)
  PROVE  UNCHANGED proc \/ proc' = "assert_siblings"
<1>. USE DEF shared
<1>1. CASE CreateThread(t)
  BY <1>1, CreateThreadEffect
<1>2. CASE EndJoin(t)
  BY <1>2, EndJoinEffect
<1>3. thread[t] # "wait" /\ (thread[t] = "spawn" => Op(t) # "OP_WAIT_JUMP")
  BY JoinCode DEF IInv, TypeOK, CallsMatchCode, Op
<1>4. CASE BeginWait(t) \/ EndWait(t)
  BY <1>3, <1>4 DEF BeginWait, EndWait, At
<1>5. CASE TouchFreed(t)
  <2>1. thread[t] \notin {"none", "exited"}
    BY <1>5 DEF TouchFreed
  <2>2. t \in heap
    BY <2>1, InHeap
  <2>3. main # "exit"
    BY <2>2 DEF NothingLeft
  <2>4. thread[t] \in {"end", "sub"} /\ parent[t] \notin heap
    BY <1>3, <1>5, <2>3 DEF TouchFreed
  <2>5. t # RootTask
    BY <2>4 DEF JInv, ParentsRooted
  <2>. QED
    BY <2>2, <2>4, <2>5 DEF JInv, ParentsFork
<1>. QED
  BY <1>1, <1>2, <1>4, <1>5 DEF InsideCall, CountThread, BeginJoin, JoinThread, EndSleep,
     StartTask, CheckSiblings, CountDown, ExitThread, Crash

\* No program that joins every spawn reads a freed block or follows a word that
\* is no pointer, and none fails the assertion that OP_JOIN's counter is zero.
THEOREM JoinAssertionHolds == Spec => [](JoinAssertion /\ proc \notin {"wild_pointer", "use_after_free"})
<1> DEFINE Good == JoinAssertion /\ proc \notin {"wild_pointer", "use_after_free"}
<1>1. Init => Good
  BY DEF Init, JoinAssertion
<1>2. ASSUME IInv, JInv, NothingLeft, Good, [Next]_vars
      PROVE  Good'
  <2>1. UNCHANGED proc \/ proc' \in {"no_memory", "sigfpe", "stack", "op_bad", "assert_siblings",
                                     "exited"}
    BY <1>2, InstructionEnds, CallEnds DEF Next, TaskStep, Ended, vars, MainThread, MainStart,
       MainNoModule, MainJoin, MainFree, MainExit
  <2>. QED
    BY <1>2, <2>1 DEF JoinAssertion
<1>. QED
  BY <1>1, <1>2, JoinInvariant, PTL DEF Spec

\* A program that joins every spawn and whose stack suffices ends by itself, by
\* assert(n_siblings_running > 0), by the end of memory or by a division.
THEOREM EndsProperly ==
  ASSUME DepthsBelow(StackSize), NoBadOpcode
  PROVE  Spec => [](EndsByItself \/ proc = "no_memory" \/ (proc = "sigfpe" /\ Divides))
<1> DEFINE Good == EndsByItself \/ proc = "no_memory" \/ (proc = "sigfpe" /\ Divides)
<1>1. Init => Good
  BY DEF Init, EndsByItself
<1>2. ASSUME IInv, JInv, NothingLeft, Good, [Next]_vars
      PROVE  Good'
  <2>1. UNCHANGED proc \/ proc' \in {"no_memory", "assert_siblings", "exited"}
          \/ (proc' = "sigfpe" /\ Divides)
    BY <1>2, InstructionEnds, CallEnds DEF Next, TaskStep, Ended, vars, MainThread, MainStart,
       MainNoModule, MainJoin, MainFree, MainExit
  <2>. QED
    BY <1>2, <2>1 DEF EndsByItself, Divides
<1>. QED
  BY <1>1, <1>2, JoinInvariant, PTL DEF Spec

-----------------------------------------------------------------------------
(* Variables.                                                               *)

\* A task that executes an instruction writes below the variables, or is an
\* assignment to one of them.
LEMMA InstructionWrites ==
  ASSUME IInv, JInv, DepthsBelow(VarBase), NEW t \in Tasks, Instruction(t),
         NEW v \in 0..NVars-1, stack'[t][VarSlot(v)] # stack[t][VarSlot(v)]
  PROVE  thread[t] = "run" /\ Code[ip[t]] = [op |-> "OP_POP_INT", arg |-> v]
<1>1. /\ ip[t] \in DOMAIN Code /\ Code[ip[t]] \in INSTRUCTION /\ TypeOK
      /\ VarBase \in Nat /\ v \in Nat /\ top[t] \in Nat /\ VarSlot(v) \in 0..StackSize-1
      /\ VarSlot(v) = VarBase + v
      /\ stack \in [Tasks -> [0..StackSize-1 -> Word]]
      /\ stack[t] \in [0..StackSize-1 -> Word]
  <2>1. TypeOK /\ ip[t] \in DOMAIN Code /\ Code[ip[t]] \in INSTRUCTION
    BY CodeAssumption DEF IInv, TypeOK
  <2>2. VarSlot(v) \in 0..StackSize-1 /\ VarSlot(v) = VarBase + v
    BY SlotType DEF VarSlot
  <2>. QED
    BY <2>1, <2>2, MemoryAssumption DEF TypeOK
<1>2. ASSUME thread[t] = "run"
      PROVE  /\ top[t] = Depth[ip[t]]
             /\ top[t] - Pops(Op(t)) + Pushes(Op(t)) <= VarBase
  BY <1>1, <1>2 DEF JInv, DepthInCalls, DepthsBelow, Op
<1>3. ASSUME NEW j, NEW w, Poke(t, j, w)
      PROVE  j = VarSlot(v)
  BY <1>1, <1>3 DEF Poke
<1>. USE DEF Executes, At
<1>4. ~(PushConst(t) \/ PushVar(t))
  <2>. SUFFICES ASSUME PushConst(t) \/ PushVar(t) PROVE FALSE
    OBVIOUS
  <2>1. thread[t] = "run" /\ Op(t) \in {"OP_PUSH_CONST_INT", "OP_PUSH_VAR"}
    BY DEF PushConst, PushVar
  <2>2. Pops(Op(t)) = 0 /\ Pushes(Op(t)) = 1
    BY <2>1 DEF Pops, Pushes, BinaryOps, UnaryOps, CondJumps, TestJumps
  <2>3. top[t] = VarSlot(v)
    BY <1>3 DEF PushConst, PushVar
  <2>. QED
    BY <1>1, <1>2, <2>1, <2>2, <2>3
<1>5. ~(UnaryOp(t))
  <2>. SUFFICES ASSUME UnaryOp(t) PROVE FALSE
    OBVIOUS
  <2>1. thread[t] = "run" /\ Op(t) \in UnaryOps
    BY DEF UnaryOp
  <2>2. Pops(Op(t)) = 1 /\ Pushes(Op(t)) = 1
    BY <2>1 DEF Pops, Pushes, BinaryOps, UnaryOps, CondJumps, TestJumps
  <2>3. top[t] - 1 = VarSlot(v)
    BY <1>3 DEF UnaryOp
  <2>. QED
    BY <1>1, <1>2, <2>1, <2>2, <2>3
<1>6. ~(BinaryOp(t))
  <2>. SUFFICES ASSUME BinaryOp(t) PROVE FALSE
    OBVIOUS
  <2>1. thread[t] = "run" /\ Op(t) \in BinaryOps
    BY DEF BinaryOp
  <2>2. Pops(Op(t)) = 2 /\ Pushes(Op(t)) = 1
    BY <2>1 DEF Pops, Pushes, BinaryOps, UnaryOps, CondJumps, TestJumps
  <2>3. stack' # stack
    OBVIOUS
  <2>4. top[t] - 2 = VarSlot(v)
    BY <1>3, <2>3 DEF BinaryOp, Crash, regs
  <2>. QED
    BY <1>1, <1>2, <2>1, <2>2, <2>4
<1>7. ~Spawn(t)
  <2>. SUFFICES ASSUME Spawn(t) PROVE FALSE
    OBVIOUS
  <2>1. thread[t] = "run" /\ Op(t) = "OP_SPAWN" /\ t \in heap
    BY InHeap DEF Spawn
  <2>2. Pops(Op(t)) = 0 /\ Pushes(Op(t)) = 2
    BY <2>1 DEF Pops, Pushes, BinaryOps, UnaryOps, CondJumps, TestJumps
  <2>3. PICK c \in Tasks \ heap :
          stack' = [stack EXCEPT ![c] = FreshStack, ![t][top[t]] = <<"lo", c>>,
                                 ![t][top[t] + 1] = <<"hi", c>>]
    BY DEF Spawn
  <2>4. stack'[t] = [stack[t] EXCEPT ![top[t]] = <<"lo", c>>, ![top[t] + 1] = <<"hi", c>>]
    BY <1>1, <2>1, <2>3
  <2>5. top[t] + 2 <= VarBase
    BY <1>1, <1>2, <2>1, <2>2
  <2>6. VarSlot(v) # top[t] /\ VarSlot(v) # top[t] + 1
    BY <1>1, <2>5
  <2>7. VarSlot(v) \in DOMAIN stack[t]
    BY <1>1
  <2>. HIDE DEF VarSlot
  <2>8. stack'[t][VarSlot(v)] = stack[t][VarSlot(v)]
    BY <2>4, <2>6, <2>7
  <2>. QED
    BY <2>8
<1>8. PopInt(t)
  BY <1>4, <1>5, <1>6, <1>7 DEF Instruction, Jump, CondJump, TestJump, BadInstruction, PrintInt,
     PrintText, BeginAtomicPrint, EndAtomicPrint, BeginSpawn, SpawnNoMemory, RunSpawn, BeginSleep,
     EndTask, shared, regs, OnlyRegs, Crash
<1>9. VarSlot(Arg(t)) = VarSlot(v) /\ thread[t] = "run" /\ Op(t) = "OP_POP_INT"
  BY <1>3, <1>8 DEF PopInt
<1>10. Arg(t) = v
  BY <1>1, <1>9, CodeAssumption DEF VarSlot, Arg, Op
<1>. QED
  BY <1>1, <1>9, <1>10 DEF INSTRUCTION, Op, Arg

\* The words of a task's memory that hold variables are written by assignments
\* of that task only: no other task, no operand and no child's address gets
\* into them, if the stack of the program stays below them.
THEOREM VariablesKept ==
  ASSUME DepthsBelow(VarBase)
  PROVE  Spec => VariablesChangeByAssignment
<1>1. ASSUME IInv, JInv, [Next]_vars
      PROVE  [\A t \in heap, v \in 0..NVars-1 :
                stack'[t][VarSlot(v)] # stack[t][VarSlot(v)] =>
                  thread[t] = "run" /\ Code[ip[t]] = [op |-> "OP_POP_INT", arg |-> v]]_vars
  <2>. SUFFICES ASSUME NEW t \in heap, NEW v \in 0..NVars-1,
                       stack'[t][VarSlot(v)] # stack[t][VarSlot(v)]
                PROVE  thread[t] = "run" /\ Code[ip[t]] = [op |-> "OP_POP_INT", arg |-> v]
    OBVIOUS
  <2>0. t \in Tasks /\ TypeOK
    BY <1>1, InHeapTasks DEF IInv
  <2>1. ASSUME NEW u \in Tasks, Instruction(u)
        PROVE  t = u
    <3>1. CASE Spawn(u)
      BY <2>0, <3>1 DEF Spawn, TypeOK
    <3>. QED
      BY <1>1, <2>0, <2>1, <3>1, InstructionEffect DEF LocalStep, RunSpawn, BeginSleep, EndTask,
         Crash, regs, IInv
  <2>2. ASSUME NEW u \in Tasks, InsideCall(u) \/ TouchFreed(u)
        PROVE  UNCHANGED stack
    BY <2>2 DEF InsideCall, CreateThread, CountThread, BeginJoin, JoinThread, EndJoin, BeginWait,
       EndWait, EndSleep, StartTask, CheckSiblings, CountDown, ExitThread, TouchFreed, Crash, regs
  <2>3. CASE MainThread
    <3>1. CASE MainStart
      BY <1>1, <3>1 DEF MainStart, IInv, BlocksInUse
    <3>. QED
      BY <2>3, <3>1 DEF MainThread, MainNoModule, MainJoin, MainFree, MainExit, regs
  <2>. QED
    BY <1>1, <2>0, <2>1, <2>2, <2>3, InstructionWrites DEF Next, TaskStep, Ended, vars
<1>. QED
  BY <1>1, JoinInvariant, PTL DEF Spec, VariablesChangeByAssignment
=============================================================================
