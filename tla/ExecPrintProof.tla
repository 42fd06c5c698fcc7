--------------------------- MODULE ExecPrintProof ---------------------------
(***************************************************************************)
(* No 'print' statement writes into the output of another: StdoutAtomic,   *)
(* for every code block whose print statements are bracketed, every number *)
(* of tasks and every schedule.                                            *)
(***************************************************************************)
EXTENDS ExecSteps

\* Every output was written by a print instruction.
OutputsFromPrints == \A j \in DOMAIN out : Code[out[j].at].op \in PrintOps

\* Output j is the latest of task t.
LastOutput(t, j) == out[j].by = t /\ \A m \in j+1..Len(out) : out[m].by # t

\* Since the latest output of a statement that is still running, no other
\* statement has printed.
StatementUninterrupted ==
  \A t \in Tasks, j \in DOMAIN out :
    ( /\ thread[t] = "run" /\ LastOutput(t, j)
      /\ out[j].at < ip[t] /\ out[j].at..ip[t] \subseteq PrintRegion )
    => \A m \in j+1..Len(out) : out[m].at \notin PrintRegion

\* The inductive invariant, with IInv.
OutInv == OutputsFromPrints /\ StatementUninterrupted /\ StdoutAtomic

-----------------------------------------------------------------------------
LEMMA InitOutInv == Init => OutInv
  BY DEF Init, OutInv, OutputsFromPrints, StatementUninterrupted, StdoutAtomic

\* What a blocking instruction goes on with is outside print statements.
LEMMA AfterBlocking ==
  ASSUME NEW a \in DOMAIN Code, NEW s \in Successors(Code, a),
         Code[a].op \in BlockingOps \union {"OP_SPAWN"}
  PROVE  s \notin PrintRegion
<1>1. a \notin PrintRegion
  BY BlockOutsidePrint
<1>. QED
  BY <1>1, StayInPrint DEF BlockingOps

\* A task that is inside a print statement after a step was executing before
\* it, and has not moved or has executed one instruction.
LEMMA MoveInPrint ==
  ASSUME IInv, NEW u \in Tasks, TaskStep(u),
         NEW t \in Tasks, thread'[t] = "run", ip'[t] \in PrintRegion
  PROVE  /\ thread[t] = "run"
         /\ ip'[t] = ip[t] \/ (t = u /\ Instruction(t) /\ LocalStep(t, ip'[t]))
<1>. USE DEF IInv
<1>0. ip \in [Tasks -> DOMAIN Code] /\ thread \in [Tasks -> ThreadStates] /\ TypeOK
  BY DEF TypeOK
<1>1. CASE t # u
  BY <1>1, Bystander
<1>2. CASE t = u /\ Instruction(t)
  <2>1. CASE \E how \in Ends : Crash(how)
    BY <2>1 DEF Crash, regs
  <2>2. ASSUME NEW s \in DOMAIN Code, LocalStep(t, s)
        PROVE  ip'[t] = s /\ thread[t] = "run"
    BY <1>0, <2>2 DEF LocalStep
  <2>3. CASE Spawn(t)
    <3>1. Op(t) = "OP_SPAWN" /\ ip[t] \in DOMAIN Code /\ thread[t] = "run"
      BY <1>0, <2>3 DEF Spawn, Executes, At
    <3>2. PICK c \in Tasks \ heap : ip' = [ip EXCEPT ![c] = Arg(t), ![t] = ip[t] + 1]
      BY <2>3 DEF Spawn
    <3>3. ip'[t] = ip[t] + 1
      BY <1>0, <3>2
    <3>. QED
      BY <3>1, <3>3, NextAddress, AfterBlocking DEF Op
  <2>4. CASE RunSpawn(t) \/ BeginSleep(t) \/ EndTask(t)
    BY <1>0, <2>4 DEF RunSpawn, BeginSleep, EndTask, Become
  <2>. QED
    BY <1>0, <1>2, <2>1, <2>2, <2>3, <2>4, InstructionEffect
<1>3. CASE t = u /\ InsideCall(t)
  <2>1. CASE StartTask(t)
    <3>1. ip'[t] \in Entries(Code)
      BY <2>1 DEF StartTask, At, CallsMatchCode, regs
    <3>. QED
      BY <3>1, EntryAddress
  <2>2. CASE EndJoin(t) \/ EndWait(t) \/ EndSleep(t)
    <3>1. /\ ip[t] \in DOMAIN Code /\ Op(t) \in BlockingOps
          /\ thread[t] \in {"join", "wait", "sleep"}
      BY <1>0, <2>2 DEF EndJoin, EndWait, EndSleep, At, CallsMatchCode, BlockingOps
    <3>2. ip'[t] \in Successors(Code, ip[t])
      <4>1. ip[t] + 1 \in Successors(Code, ip[t])
        BY <3>1, NextAddress DEF BlockingOps, Op
      <4>2. Op(t) = "OP_WAIT_JUMP" => Arg(t) \in Successors(Code, ip[t])
        BY <3>1, JumpAddress DEF Op, Arg
      <4>3. ip'[t] = ip[t] + 1 \/ (Op(t) = "OP_WAIT_JUMP" /\ ip'[t] = Arg(t))
        BY <1>0, <2>2, <3>1 DEF EndJoin, EndWait, EndSleep, Advance, Goto, Crash, At, CallsMatchCode
      <4>. QED
        BY <4>1, <4>2, <4>3
    <3>. QED
      BY <3>1, <3>2, AfterBlocking DEF Op
  <2>3. ASSUME InsideCall(t), ~StartTask(t), ~(EndJoin(t) \/ EndWait(t) \/ EndSleep(t))
        PROVE  thread'[t] # "run"
    BY <1>0, <2>3 DEF InsideCall, CreateThread, CountThread, BeginJoin, JoinThread, BeginWait,
       CheckSiblings, CountDown, ExitThread, Become, At, Crash
  <2>. QED
    BY <1>3, <2>1, <2>2, <2>3
<1>4. CASE t = u /\ TouchFreed(t)
  BY <1>4 DEF TouchFreed, Crash, regs
<1>. QED
  BY <1>1, <1>2, <1>3, <1>4 DEF TaskStep

\* Between two addresses of one run through a print statement lies no output
\* that the run has not made.
LEMMA ForwardInPrint ==
  ASSUME IInv, OutputsFromPrints, NEW t \in Tasks, NEW s, LocalStep(t, s),
         s \in PrintRegion, NEW a \in DOMAIN Code, Code[a].op \in PrintOps,
         a < s, a..s \subseteq PrintRegion
  PROVE  a <= ip[t] /\ a..ip[t] \subseteq PrintRegion
<1>1. /\ ip[t] \in DOMAIN Code /\ s \in Successors(Code, ip[t]) /\ s \in DOMAIN Code
      /\ ip[t] \in Int /\ s \in Int /\ a \in Int
  BY CodeAssumption DEF IInv, TypeOK, LocalStep, ClosedCode
<1>2. CASE ip[t] \in PrintRegion
  <2>1. ip[t] < s /\ ~(ip[t] < a /\ a < s)
    BY <1>1, <1>2, RegionAssumption DEF PrintRegionOf
  <2>. QED
    BY <1>1, <2>1
<1>3. CASE ip[t] \notin PrintRegion
  <2>1. Op(t) = "OP_BEGIN_ATOMIC_PRINT"
    BY <1>1, <1>3, StayInPrint, RegionAssumption DEF PrintRegionOf, Op
  <2>2. s = ip[t] + 1
    BY <1>1, <2>1 DEF Successors, Op, CondJumps, TestJumps
  <2>3. ip[t] \in a..s
    BY <1>1, <2>2
  <2>. QED
    BY <1>3, <2>3
<1>. QED
  BY <1>2, <1>3

\* A print instruction prints, if it goes on at all.
LEMMA SilentInstruction ==
  ASSUME IInv, NEW t \in Tasks, Instruction(t), NEW s, LocalStep(t, s), UNCHANGED out
  PROVE  Op(t) \notin PrintOps
<1>. SUFFICES ASSUME Op(t) \in PrintOps PROVE FALSE
  OBVIOUS
<1>2. Prints(t) \/ BadInstruction(t)
  BY DEF Instruction, PushConst, PushVar, PopInt, UnaryOp, BinaryOp, Jump, CondJump, TestJump,
     BeginAtomicPrint, EndAtomicPrint, BeginSpawn, Spawn, SpawnNoMemory, RunSpawn, BeginSleep,
     EndTask, Prints, Executes, PrintOps, BinaryOps, UnaryOps, CondJumps, TestJumps
<1>3. CASE Prints(t)
  <2>1. \E w : out' = Append(out, [by |-> t, at |-> ip[t], what |-> w])
    BY <1>3 DEF Prints, PrintInt, PrintText, WriteOut
  <2>. QED
    BY <2>1 DEF IInv, TypeOK
<1>4. CASE BadInstruction(t)
  <2>1. proc = "running" /\ proc' \in {"op_bad", "stack"}
    BY <1>4 DEF BadInstruction, At, Crash
  <2>. QED
    BY <2>1 DEF LocalStep
<1>. QED
  BY <1>2, <1>3, <1>4

\* A step that prints nothing.
LEMMA SilentStep ==
  ASSUME IInv, IInv', OutInv, UNCHANGED out,
         NEW u \in Tasks, TaskStep(u)
  PROVE  OutInv'
<1>. USE DEF OutInv
<1>1. OutputsFromPrints' /\ StdoutAtomic'
  BY DEF OutputsFromPrints, StdoutAtomic
<1>2. StatementUninterrupted'
  <2>. SUFFICES ASSUME NEW t \in Tasks, NEW j \in DOMAIN out,
                       thread'[t] = "run", LastOutput(t, j),
                       out[j].at < ip'[t], out[j].at..ip'[t] \subseteq PrintRegion
                PROVE  \A m \in j+1..Len(out) : out[m].at \notin PrintRegion
    BY DEF StatementUninterrupted, LastOutput
  <2>0. /\ out[j].at \in DOMAIN Code /\ out[j].at \in Int /\ ip[t] \in Int /\ ip'[t] \in Int
        /\ out[j].by = t /\ Code[out[j].at].op \in PrintOps
    <3>1. out[j] \in Output /\ ip[t] \in DOMAIN Code
      BY DEF IInv, TypeOK
    <3>2. out[j].at \in DOMAIN Code
      BY <3>1 DEF Output
    <3>3. ip'[t] \in DOMAIN Code
      BY DEF IInv, TypeOK
    <3>4. out[j].by = t /\ Code[out[j].at].op \in PrintOps
      BY DEF LastOutput, OutputsFromPrints
    <3>. QED
      BY <3>1, <3>2, <3>3, <3>4, CodeAssumption
  <2>1. ip'[t] \in PrintRegion
    BY <2>0
  <2>2. /\ thread[t] = "run"
        /\ ip'[t] = ip[t] \/ (t = u /\ Instruction(t) /\ LocalStep(t, ip'[t]))
    BY <2>1, MoveInPrint
  <2>3. CASE ip'[t] = ip[t]
    BY <2>2, <2>3 DEF StatementUninterrupted
  <2>4. CASE Instruction(t) /\ LocalStep(t, ip'[t])
    <3>1. out[j].at <= ip[t] /\ out[j].at..ip[t] \subseteq PrintRegion
      BY <2>0, <2>1, <2>4, ForwardInPrint
    <3>2. Op(t) \notin PrintOps
      BY <2>4, SilentInstruction
    <3>3. out[j].at # ip[t]
      BY <2>0, <3>2 DEF Op
    <3>. QED
      BY <2>0, <2>2, <3>1, <3>3 DEF StatementUninterrupted
  <2>. QED
    BY <2>2, <2>3, <2>4
<1>. QED
  BY <1>1, <1>2

\* A step that prints: nobody else is inside a print statement.
LEMMA PrintingStep ==
  ASSUME IInv, OutInv, NEW t \in Tasks, Prints(t)
  PROVE  OutInv'
<1>. USE DEF OutInv
<1> DEFINE n == Len(out)
<1>1. PICK w : out' = Append(out, [by |-> t, at |-> ip[t], what |-> w])
  BY DEF Prints, PrintInt, PrintText, WriteOut
<1>2. /\ n \in Nat /\ DOMAIN out = 1..n /\ DOMAIN out' = 1..n+1 /\ Len(out') = n + 1
      /\ \A m \in 1..n : out'[m] = out[m]
      /\ out'[n+1].by = t /\ out'[n+1].at = ip[t]
  BY <1>1 DEF IInv, TypeOK
<1>3. /\ thread[t] = "run" /\ Op(t) \in PrintOps /\ UNCHANGED thread
      /\ \A u \in Tasks \ {t} : ip'[u] = ip[u]
  BY DEF Prints, PrintInt, PrintText, Executes, At, Advance, Goto, PrintOps, IInv, TypeOK
<1>. HIDE DEF n
<1>4. OutputsFromPrints'
  BY <1>2, <1>3 DEF OutputsFromPrints, Op
<1>5. StdoutAtomic'
  <2>. SUFFICES ASSUME NEW j \in 1..n+1, NEW k \in 1..n+1,
                       j < k, out'[j].by = out'[k].by,
                       \A m \in j+1..k-1 : out'[m].by # out'[j].by,
                       out'[j].at < out'[k].at, out'[j].at..out'[k].at \subseteq PrintRegion
                PROVE  \A m \in j+1..k-1 : out'[m].at \notin PrintRegion
    BY <1>2 DEF StdoutAtomic
  <2>1. CASE k \in 1..n
    <3>1. j \in 1..n /\ j+1..k-1 \subseteq 1..n
      BY <1>2, <2>1
    <3>2. /\ out'[j] = out[j] /\ out'[k] = out[k]
          /\ \A m \in j+1..k-1 : out'[m] = out[m]
      BY <1>2, <2>1, <3>1
    <3>. QED
      BY <1>2, <2>1, <3>1, <3>2 DEF StdoutAtomic
  <2>2. CASE k = n + 1
    <3>1. j \in 1..n /\ j+1..k-1 = j+1..n /\ j+1..n \subseteq 1..n
      BY <1>2, <2>2
    <3>2. out[j].by = t /\ out[j].at < ip[t] /\ out[j].at..ip[t] \subseteq PrintRegion
      BY <1>2, <2>2, <3>1
    <3>3. \A m \in j+1..n : out[m].by # t
      BY <1>2, <3>1, <3>2
    <3>4. \A m \in j+1..n : out[m].at \notin PrintRegion
      BY <1>2, <1>3, <3>1, <3>2, <3>3 DEF StatementUninterrupted, LastOutput, n
    <3>. QED
      BY <1>2, <3>1, <3>4
  <2>. QED
    BY <1>2, <2>1, <2>2
<1>6. StatementUninterrupted'
  <2>. SUFFICES ASSUME NEW u \in Tasks, NEW j \in 1..n+1,
                       thread'[u] = "run", LastOutput(u, j)',
                       out'[j].at < ip'[u], out'[j].at..ip'[u] \subseteq PrintRegion
                PROVE  \A m \in j+1..n+1 : out'[m].at \notin PrintRegion
    BY <1>2 DEF StatementUninterrupted
  <2>1. CASE j = n + 1
    BY <1>2, <2>1
  <2>2. CASE j \in 1..n
    <3>1. u # t /\ out[j].by = u
      BY <1>2, <2>2 DEF LastOutput
    <3>2. \A m \in j+1..n : out[m].by # u
      BY <1>2, <2>2 DEF LastOutput
    <3>3. thread[u] = "run" /\ out[j].at < ip[u] /\ out[j].at..ip[u] \subseteq PrintRegion
      BY <1>2, <1>3, <2>2, <3>1
    <3>4. \A m \in j+1..n : out[m].at \notin PrintRegion
      BY <1>2, <2>2, <3>1, <3>2, <3>3 DEF StatementUninterrupted, LastOutput, n
    <3>5. ip[u] \in PrintRegion
      <4>1. out[j] \in Output /\ ip[u] \in DOMAIN Code
        BY <1>2, <2>2 DEF IInv, TypeOK
      <4>. QED
        BY <3>3, <4>1, CodeAssumption DEF Output
    <3>6. ip[t] \notin PrintRegion
      BY <1>3, <3>1, <3>3, <3>5 DEF IInv, PrintMtxHeldInPrint
    <3>. QED
      BY <1>2, <2>2, <3>4, <3>6
  <2>. QED
    BY <1>2, <2>1, <2>2
<1>. QED
  BY <1>4, <1>5, <1>6

\* The main thread starts a task, it moves none.
LEMMA MainOutStep ==
  ASSUME TypeOK, OutInv, MainThread \/ UNCHANGED vars
  PROVE  OutInv'
<1>1. UNCHANGED out /\ \A t \in Tasks :
        thread'[t] = "run" => thread[t] = "run" /\ ip'[t] = ip[t]
  BY DEF TypeOK, MainThread, MainStart, MainNoModule, MainJoin, MainFree, MainExit, Become,
         regs, ioVars, vars
<1>. QED
  BY <1>1 DEF OutInv, OutputsFromPrints, StatementUninterrupted, LastOutput, StdoutAtomic

-----------------------------------------------------------------------------
\* Two outputs that a task makes in one run through a print statement have no
\* output of another print statement between them, for every program whose
\* print statements are bracketed as compile_ND_PRINT brackets them.
THEOREM OutputAtomic == Spec => []StdoutAtomic
<1>1. ASSUME IInv, IInv', OutInv, [Next]_vars
      PROVE  OutInv'
  <2>1. ASSUME NEW t \in Tasks, TaskStep(t), UNCHANGED out
        PROVE  OutInv'
    BY <1>1, <2>1, SilentStep
  <2>2. ASSUME NEW t \in Tasks, Prints(t)
        PROVE  OutInv'
    BY <1>1, <2>2, PrintingStep
  <2>3. CASE MainThread \/ UNCHANGED vars
    BY <1>1, <2>3, MainOutStep DEF IInv
  <2>. QED
    BY <1>1, <2>1, <2>2, <2>3, OutStep DEF Next, Ended
<1>2. OutInv => StdoutAtomic
  BY DEF OutInv
<1>. QED
  BY <1>1, <1>2, InitOutInv, Invariant, PTL DEF Spec
=============================================================================
