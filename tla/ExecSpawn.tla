------------------------------ MODULE ExecSpawn ------------------------------
(***************************************************************************)
(* The interpreter on programs in which tasks that are joined do not wait, *)
(* and all others may: the inductive invariant behind the properties of    *)
(* such programs, in named parts.  (A joined task that waits leaves        *)
(* children behind that count down in its block after the block was freed  *)
(* and given to another task.)                                             *)
(*                                                                         *)
(* 'wait' drops half of the words it should, so the operand stack of a     *)
(* task can be deeper than the compiler intended, by any number of words.  *)
(* What the compiler did intend lies on top, above Base.                   *)
(***************************************************************************)
EXTENDS Exec

CONSTANTS
  Held,        \* address -> number of children's addresses on the stack
  JoinedCode   \* the addresses at which tasks run that are joined

ASSUME SpawnAssumption == SpawnsUnbroken(Code, Depth, Held)

ASSUME JoinedAssumption == JoinedNeverWait(Code, JoinedCode)

\* The task is inside a spawn statement.
Inside(t) ==
  \/ thread[t] = "run" /\ Held[ip[t]] # Outside
  \/ thread[t] \in {"spawn", "count", "join", "wait"}

\* The words the compiler intends on the stack, where a blocking instruction has
\* not dropped them yet.
Words(t) ==
  CASE thread[t] = "run"   -> Depth[ip[t]]
    [] thread[t] = "sleep" -> Depth[ip[t]] - 1
    [] thread[t] \in {"spawn", "count"} -> 2 * n_spawn_tasks[t]
    [] thread[t] = "join"  -> 2 * (n_spawn_tasks[t] - i[t])
    [] thread[t] = "wait"  -> n_spawn_tasks[t]
    [] OTHER -> 0

Base(t) == top[t] - Words(t)

\* The children of t whose addresses lie there: their number, the k-th one, and
\* how many of them, from the bottom, have no thread yet.
Holding(t) ==
  CASE ~Inside(t) -> 0
    [] Inside(t) /\ thread[t] = "run"  -> Held[ip[t]]
    [] Inside(t) /\ thread[t] = "join" -> n_spawn_tasks[t] - i[t]
    [] OTHER -> n_spawn_tasks[t]

Kid(t, k) == stack[t][Base(t) + 2*k][2]

Unstarted(t) ==
  CASE thread[t] = "run"   -> Holding(t)
    [] thread[t] = "spawn" -> n_spawn_tasks[t] - i[t]
    [] thread[t] = "count" -> n_spawn_tasks[t] - i[t] - 1
    [] OTHER -> 0

\* No instruction finds less on the stack than the compiler intended.
DeepEnough == \A t \in Tasks : Words(t) <= top[t]

\* task_n_spawn_tasks is the number of tasks of the statement, and the loops of
\* exec_run_spawn and exec_run_then_join_spawn are inside their bounds.
LoopsInBounds ==
  \A t \in Tasks :
    /\ Inside(t) => n_spawn_tasks[t] = SpawnCount(Code, ip[t])
    /\ thread[t] \in {"spawn", "join"} => i[t] <= n_spawn_tasks[t]
    /\ thread[t] = "count" => i[t] < n_spawn_tasks[t]

\* The k-th address on the stack of t is that of a child, which runs in
\* JoinedCode if the statement joins it.
KidOnStack(t, k) ==
  /\ stack[t][Base(t) + 2*k] = <<"lo", Kid(t, k)>>
  /\ stack[t][Base(t) + 2*k + 1] = <<"hi", Kid(t, k)>>
  /\ Kid(t, k) \in heap \ {RootTask} /\ parent[Kid(t, k)] = t
  /\ thread[Kid(t, k)] = "none" <=> k < Unstarted(t)
  /\ JoinedAt(Code, ip[t]) => ip[Kid(t, k)] \in JoinedCode

\* The addresses on the stack are those of children, each once.
KidsOnStack ==
  \A t \in Tasks :
    /\ \A k \in 0..Holding(t)-1 : KidOnStack(t, k)
    /\ \A j, k \in 0..Holding(t)-1 : Kid(t, j) = Kid(t, k) => j = k

\* The init task has no parent and counts down nowhere, every other task's
\* parent is in use until main frees the init task, and a task that may be
\* joined has no children but those on its stack.
Families ==
  /\ parent[RootTask] = NoTask /\ thread[RootTask] \notin {"end", "sub"}
  /\ \A c \in heap \ {RootTask} :
       /\ parent[c] \in heap \union {RootTask}
       /\ parent[c] \in heap /\ ip[parent[c]] \in JoinedCode =>
            \E k \in 0..Holding(parent[c])-1 : c = Kid(parent[c], k)

SInv == DeepEnough /\ LoopsInBounds /\ KidsOnStack /\ Families /\ RunningCountsLive
=============================================================================
