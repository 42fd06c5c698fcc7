---------------------------- MODULE ExecForkJoin ----------------------------
(***************************************************************************)
(* The interpreter implements ForkJoin on programs that join every spawn:  *)
(* a TASK block is a task, idle until its thread is created and again when *)
(* it is freed; OP_JOIN is the fork, from exec_run_spawn to the last       *)
(* pthread_join.                                                           *)
(***************************************************************************)
EXTENDS Exec

StateOf(t) ==
  CASE t \notin heap \/ thread[t] = "none"        -> "idle"
    [] t \in heap /\ thread[t] = "exited"         -> "stopped"
    [] t \in heap /\ thread[t] \in {"spawn", "count", "join"} -> "forking"
    [] OTHER                                      -> "running"

ChildrenOf(t) == {c \in heap : parent[c] = t /\ thread[c] # "none"}

FJ == INSTANCE ForkJoin WITH
        Root     <- RootTask,
        state    <- [t \in Tasks |-> StateOf(t)],
        children <- [t \in Tasks |-> ChildrenOf(t)]

\* Every step of a thread is a step of fork and join, or none: tasks start only
\* inside a fork of their parent, stop only when they have no children, and a
\* task leaves OP_JOIN only after it has collected each child it started.
ImplementsForkJoin == FJ!Spec
=============================================================================
