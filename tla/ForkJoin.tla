------------------------------ MODULE ForkJoin ------------------------------
(***************************************************************************)
(* What "spawn ... end join" promises, without instructions, stacks,       *)
(* counters or mutexes: a task forks, its children run, and it goes on     *)
(* only when every child it has started has stopped and been collected.    *)
(***************************************************************************)
CONSTANTS
  Tasks,  \* the identities a task can have
  Root    \* the init task

VARIABLES
  state,    \* task -> "idle", "running", "forking" or "stopped"
  children  \* task -> the tasks it has started and not yet collected

vars == <<state, children>>

Become(t, s) == state' = [state EXCEPT ![t] = s]

\* The main thread starts the init task, and later disposes of it.
Begin ==
  /\ state[Root] = "idle"
  /\ Become(Root, "running")
  /\ UNCHANGED children

Finish ==
  /\ state[Root] = "stopped"
  /\ Become(Root, "idle")
  /\ UNCHANGED children

Fork(t) ==
  /\ state[t] = "running"
  /\ Become(t, "forking")
  /\ UNCHANGED children

Start(t, c) ==
  /\ state[t] = "forking" /\ state[c] = "idle" /\ c # Root
  /\ Become(c, "running")
  /\ children' = [children EXCEPT ![t] = @ \union {c}]

\* A child is collected by the task that has started it; its identity can be
\* given to another task from then on.
Collect(t, c) ==
  /\ state[t] = "forking" /\ c \in children[t] /\ state[c] = "stopped"
  /\ Become(c, "idle")
  /\ children' = [children EXCEPT ![t] = @ \ {c}]

Resume(t) ==
  /\ state[t] = "forking" /\ children[t] = {}
  /\ Become(t, "running")
  /\ UNCHANGED children

Stop(t) ==
  /\ state[t] = "running"
  /\ Become(t, "stopped")
  /\ UNCHANGED children

Init ==
  /\ state = [t \in Tasks |-> "idle"]
  /\ children = [t \in Tasks |-> {}]

Next ==
  \/ Begin \/ Finish
  \/ \E t \in Tasks :
       \/ Fork(t) \/ Resume(t) \/ Stop(t)
       \/ \E c \in Tasks : Start(t, c) \/ Collect(t, c)

Spec == Init /\ [][Next]_vars

-----------------------------------------------------------------------------
(* What follows from it.                                                    *)

TypeOK ==
  /\ state \in [Tasks -> {"idle", "running", "forking", "stopped"}]
  /\ children \in [Tasks -> SUBSET (Tasks \ {Root})]

\* The tasks form a tree that is busy at its leaves: only a task inside a fork
\* has children, no task has two parents, and a task other than the init task
\* exists exactly while it is somebody's child.
Structured ==
  \A t \in Tasks :
    /\ children[t] # {} => state[t] = "forking"
    /\ \A u \in Tasks \ {t} : children[t] \intersect children[u] = {}
    /\ t # Root => (state[t] # "idle" <=> \E p \in Tasks : t \in children[p])

\* Parents of parents lead to the init task: of any tasks that exist, one has
\* a parent that is not among them.
Busy == {t \in Tasks \ {Root} : state[t] # "idle"}

Rooted ==
  \A S \in SUBSET Busy :
    S # {} => \E t \in S, p \in Tasks \ S : t \in children[p]

\* While the init task is not inside a fork, no other task exists: when the main
\* thread disposes of the init task and of the program, nobody uses them.
RootAlone ==
  state[Root] # "forking" => Busy = {}
=============================================================================
