------------------------------ MODULE ExecJoin -------------------------------
(***************************************************************************)
(* The interpreter on programs that join every spawn: the inductive        *)
(* invariant behind the properties of such programs, in named parts.       *)
(*                                                                         *)
(* A task forks from its first OP_SPAWN to the end of its OP_JOIN.  While  *)
(* it does, its operand stack holds nothing but the addresses of the tasks *)
(* it has spawned, its children, oldest at the bottom.                     *)
(***************************************************************************)
EXTENDS ExecForkJoin

ASSUME JoinAssumption == JoinsEverySpawn(Code, Depth)

InJoin(t)  == thread[t] \in {"spawn", "count", "join"}
Forking(t) == InJoin(t) \/ (thread[t] = "run" /\ Op(t) \in {"OP_SPAWN", "OP_JOIN"})

\* The children of t: how many there are, the k-th one, and how many of them,
\* counted from the bottom, have no thread yet (the youngest is started first).
Pending(t) == top[t] \div 2
Kid(t, k)  == stack[t][2*k][2]
Unstarted(t) ==
  CASE thread[t] = "spawn" -> n_spawn_tasks[t] - i[t]
    [] thread[t] = "count" -> n_spawn_tasks[t] - i[t] - 1
    [] thread[t] = "join"  -> 0
    [] OTHER -> Pending(t)

\* The operand stack has the depth the compiler intended, less what a blocking
\* instruction has dropped.
DepthInCalls ==
  \A t \in Tasks :
    /\ thread[t] \in {"none", "created"} => top[t] = 0
    /\ thread[t] \in {"run", "spawn", "count"} => top[t] = Depth[ip[t]]
    /\ thread[t] = "join"  => top[t] = 2 * (n_spawn_tasks[t] - i[t])
    /\ thread[t] = "sleep" => top[t] = Depth[ip[t]] - 1

\* task_n_spawn_tasks is the number of tasks of the statement, and the loops of
\* exec_run_spawn and exec_run_then_join_spawn are inside their bounds.
LoopsInBounds ==
  \A t \in Tasks :
    /\ Forking(t) => n_spawn_tasks[t] = SpawnCount(Code, ip[t])
    /\ thread[t] \in {"spawn", "join"} => i[t] <= n_spawn_tasks[t]
    /\ thread[t] = "count" => i[t] < n_spawn_tasks[t]

\* The stack of a forking task holds its children, each once ...
ChildrenOnStack ==
  \A t \in Tasks : Forking(t) =>
    /\ top[t] = 2 * Pending(t)
    /\ \A k \in 0..Pending(t)-1 :
         /\ stack[t][2*k] = <<"lo", Kid(t, k)>> /\ stack[t][2*k + 1] = <<"hi", Kid(t, k)>>
         /\ Kid(t, k) \in heap \ {RootTask} /\ parent[Kid(t, k)] = t
         /\ thread[Kid(t, k)] = "none" <=> k < Unstarted(t)
    /\ \A j, k \in 0..Pending(t)-1 : Kid(t, j) = Kid(t, k) => j = k

\* ... and every block but the init task's is a child of a forking task.
ParentsFork ==
  \A c \in heap \ {RootTask} :
    /\ parent[c] \in heap /\ Forking(parent[c])
    /\ \E k \in 0..Pending(parent[c])-1 : c = Kid(parent[c], k)

\* Parents of parents lead to the init task, which has none.
ParentsRooted ==
  /\ parent[RootTask] = NoTask /\ thread[RootTask] \notin {"end", "sub"}
  /\ RootTask \in heap => thread[RootTask] # "none"
  /\ \A S \in SUBSET (heap \ {RootTask}) : S # {} => \E c \in S : parent[c] \notin S

JInv == DepthInCalls /\ LoopsInBounds /\ ChildrenOnStack /\ ParentsFork
          /\ ParentsRooted /\ RunningCountsLive

\* No task is left when the main thread has disposed of the program.
NothingLeft == main = "exit" => heap = {}

-----------------------------------------------------------------------------
(* What some of the theorems suppose of the code besides.                   *)

\* No instruction leaves more than so many words on the operand stack.
DepthsBelow(limit) ==
  \A a \in DOMAIN Code : Depth[a] - Pops(Code[a].op) + Pushes(Code[a].op) <= limit

\* Every opcode is an instruction, and some are divisions.
NoBadOpcode == \A a \in DOMAIN Code : Code[a].op # "OP_BAD"
Divides     == \E a \in DOMAIN Code : Code[a].op \in {"OP_DIVIDE", "OP_REMAINDER"}
=============================================================================
