------------------------- MODULE ExecForkJoinProof --------------------------
(***************************************************************************)
(* The interpreter implements fork and join on every program that joins    *)
(* every spawn: Spec => FJ!Spec.  With the theorems of ForkJoinProof, what *)
(* is true of fork and join is true of the interpreter's tasks.            *)
(***************************************************************************)
EXTENDS ExecJoinProof

\* The variables of ForkJoin, as the interpreter gives them values.
states == [t \in Tasks |-> StateOf(t)]
kids   == [t \in Tasks |-> ChildrenOf(t)]

-----------------------------------------------------------------------------
(* The mapping.                                                             *)

LEMMA StateCases ==
  ASSUME NEW t
  PROVE  /\ t \notin heap \/ thread[t] = "none" => StateOf(t) = "idle"
         /\ t \in heap /\ thread[t] = "exited" => StateOf(t) = "stopped"
         /\ t \in heap /\ thread[t] \in {"spawn", "count", "join"} => StateOf(t) = "forking"
         /\ t \in heap /\ thread[t] \notin {"none", "exited", "spawn", "count", "join"} =>
              StateOf(t) = "running"
  BY DEF StateOf

LEMMA StateCasesNext ==
  ASSUME NEW t
  PROVE  /\ t \notin heap' \/ thread'[t] = "none" => StateOf(t)' = "idle"
         /\ t \in heap' /\ thread'[t] = "exited" => StateOf(t)' = "stopped"
         /\ t \in heap' /\ thread'[t] \in {"spawn", "count", "join"} => StateOf(t)' = "forking"
         /\ t \in heap' /\ thread'[t] \notin {"none", "exited", "spawn", "count", "join"} =>
              StateOf(t)' = "running"
  BY DEF StateOf

LEMMA SameState ==
  ASSUME NEW t, t \in heap' <=> t \in heap, thread'[t] = thread[t]
  PROVE  StateOf(t)' = StateOf(t)
  BY DEF StateOf

\* One task changes its state.
LEMMA StateChange ==
  ASSUME NEW t \in Tasks, \A u \in Tasks \ {t} : StateOf(u)' = StateOf(u)
  PROVE  states' = [states EXCEPT ![t] = StateOf(t)']
  BY DEF states

LEMMA StateStutter ==
  ASSUME \A u \in Tasks : StateOf(u)' = StateOf(u)
  PROVE  states' = states
  BY DEF states

LEMMA KidsStutter ==
  ASSUME \A c \in Tasks : /\ c \in heap' /\ thread'[c] # "none" <=> c \in heap /\ thread[c] # "none"
                          /\ c \in heap => parent'[c] = parent[c],
         TypeOK, TypeOK'
  PROVE  kids' = kids
<1>1. \A t \in Tasks : ChildrenOf(t)' = ChildrenOf(t)
  BY DEF ChildrenOf, TypeOK
<1>. QED
  BY <1>1 DEF kids

\* ForkJoin's actions, in these terms.
LEMMA Mapped ==
  /\ FJ!Init <=> /\ states = [t \in Tasks |-> "idle"] /\ kids = [t \in Tasks |-> {}]
  /\ FJ!Begin <=> /\ states[RootTask] = "idle" /\ kids' = kids
                  /\ states' = [states EXCEPT ![RootTask] = "running"]
  /\ FJ!Finish <=> /\ states[RootTask] = "stopped" /\ kids' = kids
                   /\ states' = [states EXCEPT ![RootTask] = "idle"]
  /\ \A t : FJ!Fork(t) <=> /\ states[t] = "running" /\ kids' = kids
                           /\ states' = [states EXCEPT ![t] = "forking"]
  /\ \A t, c : FJ!Start(t, c) <=>
       /\ states[t] = "forking" /\ states[c] = "idle" /\ c # RootTask
       /\ states' = [states EXCEPT ![c] = "running"]
       /\ kids' = [kids EXCEPT ![t] = kids[t] \union {c}]
  /\ \A t, c : FJ!Collect(t, c) <=>
       /\ states[t] = "forking" /\ c \in kids[t] /\ states[c] = "stopped"
       /\ states' = [states EXCEPT ![c] = "idle"]
       /\ kids' = [kids EXCEPT ![t] = kids[t] \ {c}]
  /\ \A t : FJ!Resume(t) <=> /\ states[t] = "forking" /\ kids[t] = {} /\ kids' = kids
                             /\ states' = [states EXCEPT ![t] = "running"]
  /\ \A t : FJ!Stop(t) <=> /\ states[t] = "running" /\ kids' = kids
                           /\ states' = [states EXCEPT ![t] = "stopped"]
  /\ FJ!vars = <<states, kids>>
  BY DEF FJ!Init, FJ!Begin, FJ!Finish, FJ!Fork, FJ!Start, FJ!Collect, FJ!Resume, FJ!Stop,
         FJ!Become, FJ!vars, states, kids

-----------------------------------------------------------------------------
(* Steps that ForkJoin does not see.                                        *)

Unseen == UNCHANGED <<states, kids>>

LEMMA UnseenVars == Unseen => FJ!vars' = FJ!vars
  BY DEF Unseen, FJ!vars, states, kids

\* A thread goes on running, or goes on forking.
LEMMA UnseenStep ==
  ASSUME TypeOK, TypeOK', NEW t \in Tasks, UNCHANGED <<heap, parent>>,
         \A u \in Tasks \ {t} : thread'[u] = thread[u],
         \/ thread'[t] = thread[t]
         \/ {thread[t], thread'[t]} \subseteq {"spawn", "count", "join"}
         \/ {thread[t], thread'[t]} \intersect {"none", "exited", "spawn", "count", "join"} = {}
  PROVE  Unseen
<1>1. StateOf(t)' = StateOf(t)
  BY StateCases, StateCasesNext, SameState
<1>2. \A u \in Tasks : StateOf(u)' = StateOf(u)
  BY <1>1, SameState
<1>3. \A c \in Tasks : thread'[c] # "none" <=> thread[c] # "none"
  OBVIOUS
<1>. QED
  BY <1>2, <1>3, StateStutter, KidsStutter DEF Unseen

LEMMA UnseenInstruction ==
  ASSUME IInv, IInv', NEW t \in Tasks, Instruction(t), ~RunSpawn(t)
  PROVE  Unseen
<1>0. /\ TypeOK /\ TypeOK' /\ thread \in [Tasks -> ThreadStates]
  BY DEF IInv, TypeOK
<1>1. CASE \E how \in Ends : Crash(how)
  BY <1>0, <1>1, UnseenStep DEF Crash, taskVars
<1>2. ASSUME NEW s \in DOMAIN Code, LocalStep(t, s)
      PROVE  Unseen
  BY <1>0, <1>2, UnseenStep DEF LocalStep
<1>3. CASE BeginSleep(t) \/ EndTask(t)
  <2>1. /\ UNCHANGED <<heap, parent>> /\ thread[t] = "run"
        /\ thread'[t] \in {"sleep", "exiting", "end"}
        /\ \A u \in Tasks \ {t} : thread'[u] = thread[u]
    BY <1>0, <1>3 DEF BeginSleep, EndTask, Executes, At, Become, shared
  <2>. QED
    BY <1>0, <2>1, UnseenStep
<1>4. CASE Spawn(t)
  <2>1. PICK c \in Tasks \ heap :
          /\ heap' = heap \union {c} /\ parent' = [parent EXCEPT ![c] = t]
          /\ thread' = [thread EXCEPT ![c] = "none"]
    BY <1>4 DEF Spawn, NewTask
  <2>2. /\ thread'[c] = "none"
        /\ \A u \in Tasks \ {c} : /\ thread'[u] = thread[u] /\ parent'[u] = parent[u]
                                  /\ u \in heap' <=> u \in heap
    BY <1>0, <2>1 DEF TypeOK
  <2>3. \A u \in Tasks : StateOf(u)' = StateOf(u)
    BY <2>1, <2>2, SameState, StateCases, StateCasesNext
  <2>. QED
    BY <1>0, <2>1, <2>2, <2>3, StateStutter, KidsStutter DEF Unseen
<1>. QED
  BY <1>0, <1>1, <1>2, <1>3, <1>4, InstructionEffect

LEMMA UnseenCall ==
  ASSUME IInv, IInv', JInv, NEW t \in Tasks, InsideCall(t) \/ TouchFreed(t),
         ~(CreateThread(t) \/ JoinThread(t) \/ EndJoin(t) \/ ExitThread(t))
  PROVE  Unseen
<1>0. /\ TypeOK /\ TypeOK' /\ thread \in [Tasks -> ThreadStates]
  BY DEF IInv, TypeOK
<1>1. thread[t] # "wait" /\ (thread[t] = "spawn" => Op(t) # "OP_WAIT_JUMP")
  BY JoinCode DEF IInv, TypeOK, CallsMatchCode, Op
<1>2. ~BeginWait(t) /\ ~EndWait(t)
  BY <1>1 DEF BeginWait, EndWait, At
<1>3. CASE \E how \in Ends : Crash(how)
  BY <1>0, <1>3, UnseenStep DEF Crash, taskVars
<1>4. CASE CountThread(t) \/ BeginJoin(t)
  <2>1. /\ UNCHANGED <<heap, parent>> /\ thread[t] \in {"count", "spawn"}
        /\ thread'[t] \in {"spawn", "join"}
        /\ \A u \in Tasks \ {t} : thread'[u] = thread[u]
    BY <1>0, <1>4 DEF CountThread, BeginJoin, At, Become, shared
  <2>. QED
    BY <1>0, <2>1, UnseenStep
<1>5. ASSUME EndSleep(t) \/ StartTask(t) \/ CountDown(t)
              \/ (CheckSiblings(t) /\ ~Crash("assert_siblings"))
      PROVE  Unseen
  <2>1. /\ UNCHANGED <<heap, parent>> /\ thread[t] \in {"sleep", "created", "sub", "end"}
        /\ thread'[t] \in {"run", "exiting", "sub"}
        /\ \A u \in Tasks \ {t} : thread'[u] = thread[u]
    BY <1>0, <1>5 DEF EndSleep, StartTask, CountDown, CheckSiblings, At, Become, shared
  <2>. QED
    BY <1>0, <2>1, UnseenStep
<1>6. TouchFreed(t) => \E how \in Ends : Crash(how)
  BY DEF TouchFreed, Ends
<1>. QED
  BY <1>2, <1>3, <1>4, <1>5, <1>6 DEF InsideCall, Ends

-----------------------------------------------------------------------------
(* Steps that ForkJoin sees.                                                *)

LEMMA ForkSeen ==
  ASSUME IInv, IInv', JInv, NEW t \in Tasks, RunSpawn(t)
  PROVE  FJ!Fork(t)
<1>0. /\ TypeOK /\ TypeOK' /\ thread[t] = "run" /\ t \in heap
      /\ UNCHANGED <<heap, parent>> /\ thread'[t] = "spawn"
      /\ \A u \in Tasks \ {t} : thread'[u] = thread[u]
  BY InHeap DEF RunSpawn, Executes, At, Become, shared, IInv, TypeOK
<1>1. StateOf(t) = "running" /\ StateOf(t)' = "forking"
  BY <1>0, StateCases, StateCasesNext
<1>2. states' = [states EXCEPT ![t] = "forking"]
  BY <1>0, <1>1, SameState, StateChange
<1>3. kids' = kids
  <2>1. \A c \in Tasks : thread'[c] # "none" <=> thread[c] # "none"
    BY <1>0
  <2>. QED
    BY <1>0, <2>1, KidsStutter
<1>. QED
  BY <1>1, <1>2, <1>3, Mapped DEF states

LEMMA ResumeSeen ==
  ASSUME IInv, IInv', JInv, NEW t \in Tasks, EndJoin(t)
  PROVE  FJ!Resume(t)
<1>0. /\ TypeOK /\ TypeOK' /\ thread[t] = "join" /\ t \in heap
      /\ UNCHANGED <<heap, parent>> /\ thread'[t] = "run"
      /\ \A u \in Tasks \ {t} : thread'[u] = thread[u]
  <2>1. TypeOK /\ TypeOK' /\ thread \in [Tasks -> ThreadStates]
    BY DEF IInv, TypeOK
  <2>2. thread[t] = "join" /\ Become(t, "run") /\ UNCHANGED shared
    BY EndJoinEffect
  <2>3. t \in heap
    BY <2>2, InHeap
  <2>. QED
    BY <2>1, <2>2, <2>3 DEF Become, shared
<1>1. StateOf(t) = "forking" /\ StateOf(t)' = "running"
  BY <1>0, StateCases, StateCasesNext
<1>2. states' = [states EXCEPT ![t] = "running"]
  BY <1>0, <1>1, SameState, StateChange
<1>3. kids' = kids
  <2>1. \A c \in Tasks : thread'[c] # "none" <=> thread[c] # "none"
    BY <1>0
  <2>. QED
    BY <1>0, <2>1, KidsStutter
<1>4. kids[t] = {}
  <2>1. \A c \in heap : parent[c] # t
    BY EndJoinEffect, NoKidsAfterLoop
  <2>. QED
    BY <2>1 DEF kids, ChildrenOf
<1>. QED
  BY <1>1, <1>2, <1>3, <1>4, Mapped DEF states

LEMMA StopSeen ==
  ASSUME IInv, IInv', NEW t \in Tasks, ExitThread(t)
  PROVE  FJ!Stop(t)
<1>0. /\ TypeOK /\ TypeOK' /\ thread[t] = "exiting" /\ t \in heap
      /\ UNCHANGED <<heap, parent>> /\ thread'[t] = "exited"
      /\ \A u \in Tasks \ {t} : thread'[u] = thread[u]
  BY InHeap DEF ExitThread, At, Become, shared, IInv, TypeOK
<1>1. StateOf(t) = "running" /\ StateOf(t)' = "stopped"
  BY <1>0, StateCases, StateCasesNext
<1>2. states' = [states EXCEPT ![t] = "stopped"]
  BY <1>0, <1>1, SameState, StateChange
<1>3. kids' = kids
  <2>1. \A c \in Tasks : thread'[c] # "none" <=> thread[c] # "none"
    BY <1>0
  <2>. QED
    BY <1>0, <2>1, KidsStutter
<1>. QED
  BY <1>1, <1>2, <1>3, Mapped DEF states

LEMMA StartSeen ==
  ASSUME IInv, JInv, NEW t \in Tasks, CreateThread(t)
  PROVE  \E c \in Tasks : FJ!Start(t, c)
<1>1. PICK c \in heap \ {RootTask} :
        /\ parent[c] = t /\ thread[c] = "none" /\ c # t
        /\ thread' = [thread EXCEPT ![c] = "created", ![t] = "count"]
  BY CreateThreadEffect, KidFacts
<1>2. /\ TypeOK /\ thread[t] = "spawn" /\ t \in heap /\ c \in Tasks /\ heap \subseteq Tasks
      /\ UNCHANGED <<heap, parent>>
      /\ thread'[c] = "created" /\ thread'[t] = "count"
      /\ \A u \in Tasks \ {t, c} : thread'[u] = thread[u]
  BY <1>1, InHeap, InHeapTasks, CreateThreadEffect DEF shared, TypeOK
<1>3. /\ StateOf(t) = "forking" /\ StateOf(t)' = "forking"
      /\ StateOf(c) = "idle" /\ StateOf(c)' = "running"
  BY <1>1, <1>2, StateCases, StateCasesNext
<1>4. states' = [states EXCEPT ![c] = "running"]
  <2>1. \A u \in Tasks \ {c} : StateOf(u)' = StateOf(u)
    BY <1>2, <1>3, SameState
  <2>. QED
    BY <1>2, <1>3, <2>1, StateChange
<1>5. kids' = [kids EXCEPT ![t] = kids[t] \union {c}]
  <2>1. ChildrenOf(t)' = ChildrenOf(t) \union {c}
    BY <1>1, <1>2 DEF ChildrenOf
  <2>2. \A u \in Tasks \ {t} : ChildrenOf(u)' = ChildrenOf(u)
    BY <1>1, <1>2 DEF ChildrenOf
  <2>. QED
    BY <2>1, <2>2 DEF kids
<1>6. FJ!Start(t, c)
  BY <1>1, <1>2, <1>3, <1>4, <1>5, Mapped DEF states
<1>. QED
  BY <1>2, <1>6

LEMMA CollectSeen ==
  ASSUME IInv, JInv, NEW t \in Tasks, JoinThread(t)
  PROVE  \E c \in Tasks : FJ!Collect(t, c)
<1>1. PICK c \in heap \ {RootTask} :
        /\ parent[c] = t /\ thread[c] = "exited" /\ c # t /\ heap' = heap \ {c}
  BY JoinThreadEffect
<1>2. /\ TypeOK /\ thread[t] = "join" /\ t \in heap /\ c \in Tasks /\ heap \subseteq Tasks
      /\ UNCHANGED <<parent, thread>>
  BY <1>1, InHeap, InHeapTasks, JoinThreadEffect
<1>3. /\ StateOf(t) = "forking" /\ StateOf(c) = "stopped" /\ StateOf(c)' = "idle"
  BY <1>1, <1>2, StateCases, StateCasesNext
<1>4. states' = [states EXCEPT ![c] = "idle"]
  <2>1. \A u \in Tasks \ {c} : StateOf(u)' = StateOf(u)
    BY <1>1, <1>2, SameState
  <2>. QED
    BY <1>2, <1>3, <2>1, StateChange
<1>5. c \in kids[t] /\ kids' = [kids EXCEPT ![t] = kids[t] \ {c}]
  <2>1. c \in ChildrenOf(t) /\ ChildrenOf(t)' = ChildrenOf(t) \ {c}
    BY <1>1, <1>2 DEF ChildrenOf
  <2>2. \A u \in Tasks \ {t} : ChildrenOf(u)' = ChildrenOf(u)
    BY <1>1, <1>2 DEF ChildrenOf
  <2>. QED
    BY <2>1, <2>2 DEF kids
<1>6. FJ!Collect(t, c)
  BY <1>1, <1>2, <1>3, <1>4, <1>5, Mapped DEF states
<1>. QED
  BY <1>2, <1>6

LEMMA MainSeen ==
  ASSUME IInv, IInv', JInv, MainThread
  PROVE  Unseen \/ FJ!Begin \/ FJ!Finish
<1>0. TypeOK /\ TypeOK' /\ RootTask \in Tasks /\ parent[RootTask] = NoTask /\ NoTask \notin Tasks
  BY TaskAssumption DEF IInv, JInv, ParentsRooted
<1>1. CASE MainStart
  <2>1. /\ heap = {} /\ heap' = {RootTask} /\ thread'[RootTask] = "created"
        /\ parent'[RootTask] = NoTask
        /\ \A u \in Tasks \ {RootTask} : thread'[u] = thread[u]
    BY <1>0, <1>1 DEF MainStart, NewTask, Become, IInv, BlocksInUse, TypeOK
  <2>2. StateOf(RootTask) = "idle" /\ StateOf(RootTask)' = "running"
    BY <2>1, StateCases, StateCasesNext
  <2>3. states' = [states EXCEPT ![RootTask] = "running"]
    <3>1. \A u \in Tasks \ {RootTask} : StateOf(u)' = StateOf(u)
      BY <2>1, SameState
    <3>. QED
      BY <1>0, <2>2, <3>1, StateChange
  <2>4. kids' = kids
    <3>1. \A t \in Tasks : ChildrenOf(t)' = {} /\ ChildrenOf(t) = {}
      BY <1>0, <2>1 DEF ChildrenOf
    <3>. QED
      BY <3>1 DEF kids
  <2>. QED
    BY <1>0, <2>2, <2>3, <2>4, Mapped DEF states
<1>2. CASE MainFree
  <2>1. /\ heap' = {} /\ heap \subseteq {RootTask} /\ RootTask \in heap
        /\ thread[RootTask] = "exited" /\ UNCHANGED thread
    BY <1>2, MainFreeKeepsJInv DEF MainFree, IInv, BlocksInUse
  <2>2. StateOf(RootTask) = "stopped" /\ StateOf(RootTask)' = "idle"
    BY <2>1, StateCases, StateCasesNext
  <2>3. states' = [states EXCEPT ![RootTask] = "idle"]
    <3>1. \A u \in Tasks \ {RootTask} : StateOf(u)' = StateOf(u)
      BY <2>1, SameState
    <3>. QED
      BY <1>0, <2>2, <3>1, StateChange
  <2>4. kids' = kids
    <3>1. \A t \in Tasks : ChildrenOf(t)' = {} /\ ChildrenOf(t) = {}
      BY <1>0, <2>1 DEF ChildrenOf
    <3>. QED
      BY <3>1 DEF kids
  <2>. QED
    BY <1>0, <2>2, <2>3, <2>4, Mapped DEF states
<1>3. CASE MainNoModule \/ MainJoin \/ MainExit
  BY <1>0, <1>3, UnseenStep DEF MainNoModule, MainJoin, MainExit, taskVars
<1>. QED
  BY <1>1, <1>2, <1>3 DEF MainThread

-----------------------------------------------------------------------------
\* On every program that joins every spawn the interpreter does nothing that
\* fork and join does not promise: exec_run_spawn starts idle tasks inside a
\* fork of their parent only, OP_END_TASK stops tasks, pthread_join and free
\* collect a stopped child, and OP_JOIN ends when no child is left.
THEOREM ForkJoinImplemented == Spec => ImplementsForkJoin
<1>1. Init => FJ!Init
  <2>. SUFFICES ASSUME Init PROVE FJ!Init
    OBVIOUS
  <2>1. \A t \in Tasks : StateOf(t) = "idle" /\ ChildrenOf(t) = {}
    BY StateCases DEF Init, ChildrenOf
  <2>. QED
    BY <2>1, Mapped DEF states, kids
<1>2. ASSUME IInv, IInv', JInv, [Next]_vars
      PROVE  [FJ!Next]_(FJ!vars)
  <2>1. Unseen => UNCHANGED FJ!vars
    BY UnseenVars
  <2>2. ASSUME NEW t \in Tasks, Instruction(t)
        PROVE  Unseen \/ FJ!Fork(t)
    BY <1>2, <2>2, UnseenInstruction, ForkSeen
  <2>3. ASSUME NEW t \in Tasks, InsideCall(t) \/ TouchFreed(t)
        PROVE  \/ Unseen \/ FJ!Resume(t) \/ FJ!Stop(t)
               \/ \E c \in Tasks : FJ!Start(t, c) \/ FJ!Collect(t, c)
    BY <1>2, <2>3, UnseenCall, ResumeSeen, StopSeen, StartSeen, CollectSeen
  <2>4. CASE MainThread
    <3>1. Unseen \/ FJ!Begin \/ FJ!Finish
      BY <1>2, <2>4, MainSeen
    <3>2. FJ!Begin \/ FJ!Finish => FJ!Next
      BY DEF FJ!Next
    <3>. QED
      BY <2>1, <3>1, <3>2
  <2>5. CASE UNCHANGED vars
    <3>1. UNCHANGED <<heap, parent, thread>>
      BY <2>5 DEF vars
    <3>2. \A u \in Tasks : StateOf(u)' = StateOf(u) /\ ChildrenOf(u)' = ChildrenOf(u)
      BY <3>1, SameState DEF ChildrenOf
    <3>3. Unseen
      BY <3>2 DEF Unseen, states, kids
    <3>. QED
      BY <2>1, <3>3
  <2>6. ASSUME NEW t \in Tasks, TaskStep(t)
        PROVE  [FJ!Next]_(FJ!vars)
    <3>1. \/ FJ!Fork(t) \/ FJ!Resume(t) \/ FJ!Stop(t)
          \/ \E c \in Tasks : FJ!Start(t, c) \/ FJ!Collect(t, c)
          => FJ!Next
      BY DEF FJ!Next
    <3>2. Unseen \/ FJ!Next
      BY <2>2, <2>3, <2>6, <3>1 DEF TaskStep
    <3>. QED
      BY <2>1, <3>2
  <2>. QED
    BY <1>2, <2>4, <2>5, <2>6 DEF Next, Ended
<1>. QED
  BY <1>1, <1>2, JoinInvariant, PTL DEF Spec, ImplementsForkJoin, FJ!Spec

-----------------------------------------------------------------------------
(* What follows of the interpreter's tasks from the theorems about fork and *)
(* join.                                                                    *)

FP == INSTANCE ForkJoinProof WITH
        Root     <- RootTask,
        state    <- [t \in Tasks |-> StateOf(t)],
        children <- [t \in Tasks |-> ChildrenOf(t)]

LEMMA SameForkJoin ==
  /\ FJ!Init <=> FP!Init
  /\ FJ!Next <=> FP!Next
  /\ FJ!vars = FP!vars /\ FJ!vars' = FP!vars'
<1>1. /\ FJ!Begin <=> FP!Begin
      /\ FJ!Finish <=> FP!Finish
  BY DEF FJ!Begin, FJ!Finish, FJ!Become, FP!Begin, FP!Finish, FP!Become
<1>2. \A t : /\ FJ!Fork(t) <=> FP!Fork(t)
             /\ FJ!Resume(t) <=> FP!Resume(t)
             /\ FJ!Stop(t) <=> FP!Stop(t)
  BY DEF FJ!Fork, FJ!Resume, FJ!Stop, FJ!Become, FP!Fork, FP!Resume, FP!Stop, FP!Become
<1>3. \A t, c : /\ FJ!Start(t, c) <=> FP!Start(t, c)
                /\ FJ!Collect(t, c) <=> FP!Collect(t, c)
  BY DEF FJ!Start, FJ!Collect, FJ!Become, FP!Start, FP!Collect, FP!Become
<1>4. FJ!Next <=> FP!Next
  BY <1>1, <1>2, <1>3 DEF FJ!Next, FP!Next
<1>. QED
  BY <1>4 DEF FJ!Init, FP!Init, FJ!vars, FP!vars

\* The tasks of the interpreter form a tree that is busy at its leaves, and
\* while the init task is not inside OP_JOIN no other task has a thread.
THEOREM TasksAreTrees == Spec => [](FP!Structured /\ FP!RootAlone)
<1>1. FJ!Init => FP!Init
  BY SameForkJoin
<1>2. [FJ!Next]_(FJ!vars) => [FP!Next]_(FP!vars)
  BY SameForkJoin
<1>3. RootTask \in Tasks
  BY TaskAssumption
<1>4. FP!Spec => []FP!Structured
  BY <1>3, FP!ForksAreTrees
<1>5. FP!Spec => []FP!RootAlone
  BY <1>3, FP!InitTaskOutlives
<1>. QED
  BY <1>1, <1>2, <1>4, <1>5, ForkJoinImplemented, PTL
     DEF ImplementsForkJoin, FJ!Spec, FP!Spec
=============================================================================
