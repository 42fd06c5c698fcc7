---------------------------- MODULE ForkJoinProof ----------------------------
(***************************************************************************)
(* Theorems about fork and join, for every set of tasks.                   *)
(***************************************************************************)
EXTENDS ForkJoin, TLAPS

\* The inductive invariant.  Structured alone allows tasks that are each
\* other's children; Rooted excludes such cycles.
IInv == TypeOK /\ Structured /\ Rooted

LEMMA InitInvariant == Init => IInv
  BY DEF Init, IInv, TypeOK, Structured, Rooted, Busy

\* A step that changes nobody's children, and does not make another task than
\* the init task idle or busy, or a task with children anything but forking.
LEMMA ControlStep ==
  ASSUME IInv, NEW t \in Tasks, NEW s \in {"idle", "running", "forking", "stopped"},
         Become(t, s), UNCHANGED children, children[t] = {},
         t # Root => state[t] # "idle" /\ s # "idle"
  PROVE  IInv'
<1>1. TypeOK'
  BY DEF IInv, TypeOK, Become
<1>2. Structured'
  BY DEF IInv, TypeOK, Structured, Become
<1>3. Busy' = Busy
  BY DEF IInv, TypeOK, Busy, Become
<1>4. Rooted'
  BY <1>3 DEF IInv, Rooted
<1>. QED
  BY <1>1, <1>2, <1>4 DEF IInv

LEMMA BeginStep == IInv /\ Root \in Tasks /\ Begin => IInv'
<1>. SUFFICES ASSUME IInv, Root \in Tasks, Begin PROVE IInv'
  OBVIOUS
<1>1. children[Root] = {}
  BY DEF IInv, Structured, Begin
<1>. QED
  BY <1>1, ControlStep DEF Begin

LEMMA FinishStep == IInv /\ Root \in Tasks /\ Finish => IInv'
<1>. SUFFICES ASSUME IInv, Root \in Tasks, Finish PROVE IInv'
  OBVIOUS
<1>1. children[Root] = {}
  BY DEF IInv, Structured, Finish
<1>. QED
  BY <1>1, ControlStep DEF Finish

LEMMA ForkStep ==
  ASSUME IInv, NEW t \in Tasks, Fork(t)
  PROVE  IInv'
<1>1. children[t] = {}
  BY DEF IInv, Structured, Fork
<1>. QED
  BY <1>1, ControlStep DEF Fork

LEMMA ResumeStep ==
  ASSUME IInv, NEW t \in Tasks, Resume(t)
  PROVE  IInv'
  BY ControlStep DEF Resume

LEMMA StopStep ==
  ASSUME IInv, NEW t \in Tasks, Stop(t)
  PROVE  IInv'
<1>1. children[t] = {}
  BY DEF IInv, Structured, Stop
<1>. QED
  BY <1>1, ControlStep DEF Stop

\* The new child was nobody's child and nobody's parent, so it closes no cycle.
LEMMA StartStep ==
  ASSUME IInv, NEW t \in Tasks, NEW c \in Tasks, Start(t, c)
  PROVE  IInv'
<1>. USE DEF IInv
<1>1. /\ state' = [state EXCEPT ![c] = "running"]
      /\ children' = [children EXCEPT ![t] = @ \union {c}]
      /\ state[t] = "forking" /\ state[c] = "idle" /\ c # Root /\ t # c
  BY DEF Start, Become
<1>2. children[c] = {} /\ \A p \in Tasks : c \notin children[p]
  BY <1>1 DEF Structured
<1>3. TypeOK'
  BY <1>1 DEF TypeOK
<1>4. Structured'
  BY <1>1, <1>2 DEF TypeOK, Structured
<1>5. Busy' = Busy \union {c}
  BY <1>1 DEF TypeOK, Busy
<1>6. Rooted'
  <2>. SUFFICES ASSUME NEW S \in SUBSET Busy', S # {}
                PROVE  \E u \in S, p \in Tasks \ S : u \in children'[p]
    BY DEF Rooted
  <2>1. CASE S = {c}
    <3>1. c \in children'[t] /\ t \in Tasks \ S
      BY <1>1, <2>1 DEF TypeOK
    <3>. QED
      BY <2>1, <3>1
  <2>2. CASE S # {c}
    <3>1. S \ {c} \in SUBSET Busy /\ S \ {c} # {}
      BY <1>5, <2>2
    <3>2. PICK u \in S \ {c}, p \in Tasks \ (S \ {c}) : u \in children[p]
      BY <3>1 DEF Rooted
    <3>3. p \in Tasks \ S
      BY <1>2, <3>2
    <3>4. u \in children'[p]
      BY <1>1, <3>2, <3>3 DEF TypeOK
    <3>. QED
      BY <3>2, <3>3, <3>4
  <2>. QED
    BY <2>1, <2>2
<1>. QED
  BY <1>3, <1>4, <1>6

LEMMA CollectStep ==
  ASSUME IInv, NEW t \in Tasks, NEW c \in Tasks, Collect(t, c)
  PROVE  IInv'
<1>. USE DEF IInv
<1>1. /\ state' = [state EXCEPT ![c] = "idle"]
      /\ children' = [children EXCEPT ![t] = @ \ {c}]
      /\ state[t] = "forking" /\ state[c] = "stopped" /\ c \in children[t]
  BY DEF Collect, Become
<1>2. c # Root /\ t # c
  BY <1>1 DEF TypeOK
<1>3. children[c] = {} /\ \A p \in Tasks \ {t} : c \notin children[p]
  BY <1>1 DEF Structured
<1>4. TypeOK'
  BY <1>1 DEF TypeOK
<1>5. Structured'
  <2>1. \A u \in Tasks : children'[u] = children[u] \ {c}
    BY <1>1, <1>3 DEF TypeOK
  <2>2. \A u \in Tasks \ {c} : state'[u] = state[u]
    BY <1>1 DEF TypeOK
  <2>3. state'[c] = "idle"
    BY <1>1 DEF TypeOK
  <2>. QED
    BY <1>2, <1>3, <2>1, <2>2, <2>3 DEF Structured
<1>6. Busy' = Busy \ {c}
  BY <1>1, <1>2 DEF TypeOK, Busy
<1>7. Rooted'
  <2>. SUFFICES ASSUME NEW S \in SUBSET Busy', S # {}
                PROVE  \E u \in S, p \in Tasks \ S : u \in children'[p]
    BY DEF Rooted
  <2>1. S \in SUBSET Busy /\ c \notin S
    BY <1>6
  <2>2. PICK u \in S, p \in Tasks \ S : u \in children[p]
    BY <2>1 DEF Rooted
  <2>3. u \in children'[p]
    BY <1>1, <2>1, <2>2 DEF TypeOK
  <2>. QED
    BY <2>2, <2>3
<1>. QED
  BY <1>4, <1>5, <1>7

LEMMA NextInvariant == IInv /\ Root \in Tasks /\ [Next]_vars => IInv'
<1>. SUFFICES ASSUME IInv, Root \in Tasks, [Next]_vars PROVE IInv'
  OBVIOUS
<1>1. CASE UNCHANGED vars
  BY <1>1 DEF vars, IInv, TypeOK, Structured, Rooted, Busy
<1>2. CASE Next
  BY <1>2, BeginStep, FinishStep, ForkStep, ResumeStep, StopStep, StartStep, CollectStep
     DEF Next
<1>. QED
  BY <1>1, <1>2

LEMMA Invariant == ASSUME Root \in Tasks PROVE Spec => []IInv
<1>1. Init => IInv
  BY InitInvariant
<1>2. IInv /\ [Next]_vars => IInv'
  BY NextInvariant
<1>. QED
  BY <1>1, <1>2, PTL DEF Spec

\* Only a task inside a fork has children, and no task has two parents.
THEOREM ForksAreTrees == ASSUME Root \in Tasks PROVE Spec => []Structured
<1>1. IInv => Structured
  BY DEF IInv
<1>. QED
  BY <1>1, Invariant, PTL

\* The init task is inside a fork while any other task exists: the main thread,
\* which joins the init task before it frees the module, frees it last.
THEOREM InitTaskOutlives == ASSUME Root \in Tasks PROVE Spec => []RootAlone
<1>1. IInv => RootAlone
  <2>. SUFFICES ASSUME IInv, Busy # {} PROVE state[Root] = "forking"
    BY DEF RootAlone
  <2>1. PICK t \in Busy, p \in Tasks \ Busy : t \in children[p]
    BY DEF IInv, Rooted
  <2>2. state[p] = "forking"
    BY <2>1 DEF IInv, Structured
  <2>3. p = Root
    BY <2>1, <2>2 DEF Busy
  <2>. QED
    BY <2>2, <2>3
<1>. QED
  BY <1>1, Invariant, PTL
=============================================================================
