------------------------------ MODULE ExecProof -----------------------------
(***************************************************************************)
(* Theorems about the interpreter, for every code block, every number of   *)
(* tasks and every word size that Exec's assumptions allow.                *)
(***************************************************************************)
EXTENDS Exec, TLAPS

-----------------------------------------------------------------------------
(* Numbers and stack words.                                                 *)

\* Wrap, the 32-bit conversion, yields an int.
LEMMA WrapType ==
  ASSUME NEW n \in Int
  PROVE  Wrap(n) \in Ints
<1> DEFINE m == 2 * (MaxInt + 1)
<1>1. m \in Nat /\ m > 0
  BY MemoryAssumption
<1>2. (n + MaxInt + 1) % m \in 0..m-1
  <2>. HIDE DEF m
  <2>. QED BY <1>1, MemoryAssumption
<1>. QED
  BY <1>2, MemoryAssumption DEF Wrap, Ints

\* Truncating division by a number other than zero yields a number.
LEMMA QuotientType ==
  ASSUME NEW y \in Int, NEW x \in Int, x # 0
  PROVE  Quotient(y, x) \in Int
<1>1. Abs(x) \in Int /\ Abs(x) > 0 /\ Abs(y) \in Int
  BY DEF Abs
<1>2. Abs(y) \div Abs(x) \in Int
  BY <1>1
<1>. QED
  BY <1>2 DEF Quotient

\* A binary operation that does not trap yields an int.
LEMMA BinaryType ==
  ASSUME NEW op \in BinaryOps, NEW y \in Ints, NEW x \in Ints, ~Traps(op, y, x)
  PROVE  Binary(op, y, x) \in Ints
<1>1. y \in Int /\ x \in Int
  BY MemoryAssumption DEF Ints
<1>2. 0 \in Ints /\ 1 \in Ints
  BY MemoryAssumption DEF Ints
<1>3. CASE op = "OP_ADD"
  BY <1>1, <1>3, WrapType DEF Binary
<1>4. CASE op = "OP_SUBTRACT"
  BY <1>1, <1>4, WrapType DEF Binary
<1>5. CASE op = "OP_MULTIPLY"
  BY <1>1, <1>5, WrapType DEF Binary
<1>6. CASE op = "OP_DIVIDE"
  BY <1>1, <1>6, WrapType, QuotientType DEF Binary, Traps
<1>7. CASE op = "OP_REMAINDER"
  <2>1. x # 0
    BY <1>7 DEF Traps
  <2>2. y - Quotient(y, x) * x \in Int
    BY <1>1, <2>1, QuotientType
  <2>. QED
    BY <1>7, <2>2, WrapType DEF Binary
<1>8. CASE op \in {"OP_AND", "OP_OR", "OP_EQ", "OP_NE", "OP_LT", "OP_LE", "OP_GT", "OP_GE"}
  BY <1>2, <1>8 DEF Binary, Truth
<1>. QED
  BY <1>3, <1>4, <1>5, <1>6, <1>7, <1>8 DEF BinaryOps

\* What a word reads as is an int, and an int is a word.
LEMMA WordType ==
  /\ \A w \in Word : IntValues(w) \subseteq Ints
  /\ \A n \in Ints : Num(n) \in Word
  /\ \A t \in Tasks \ {RootTask} : <<"lo", t>> \in Word /\ <<"hi", t>> \in Word
  /\ Junk \in Word
  BY DEF Word, IntValues, Num, Junk

\* The variables lie inside the task's memory.
LEMMA SlotType ==
  ASSUME NEW v \in 0..NVars-1
  PROVE  VarSlot(v) \in 0..StackSize-1
  BY MemoryAssumption DEF VarSlot

\* A new task's memory.
LEMMA FreshStackType == FreshStack \in [0..StackSize-1 -> Word]
<1>1. Num(0) \in Word /\ Junk \in Word
  BY WordType, MemoryAssumption DEF Ints
<1>. QED
  BY <1>1 DEF FreshStack

-----------------------------------------------------------------------------
(* Where control goes.                                                      *)

\* After any instruction but a jump, an end and OP_BAD comes the next address;
\* it is inside the code block.
LEMMA NextAddress ==
  ASSUME NEW a \in DOMAIN Code,
         Code[a].op \notin {"OP_JUMP", "OP_END_TASK", "OP_BAD"}
  PROVE  a + 1 \in Successors(Code, a) /\ a + 1 \in DOMAIN Code
<1>1. a + 1 \in Successors(Code, a)
  BY DEF Successors
<1>. QED
  BY <1>1, CodeAssumption DEF ClosedCode

\* The operand of a jump is inside the code block.
LEMMA JumpAddress ==
  ASSUME NEW a \in DOMAIN Code,
         Code[a].op \in CondJumps \union TestJumps \union {"OP_JUMP", "OP_WAIT_JUMP"}
  PROVE  Code[a].arg \in Successors(Code, a) /\ Code[a].arg \in DOMAIN Code
<1>1. Code[a].arg \in Successors(Code, a)
  BY DEF Successors, CondJumps, TestJumps
<1>. QED
  BY <1>1, CodeAssumption DEF ClosedCode

\* Tasks start inside the code block and outside print statements.
LEMMA EntryAddress ==
  /\ 0 \in Entries(Code)
  /\ \A a \in DOMAIN Code : Code[a].op = "OP_SPAWN" => Code[a].arg \in Entries(Code)
  /\ Entries(Code) \subseteq DOMAIN Code
  /\ \A a \in Entries(Code) : a \notin PrintRegion
<1>1. Entries(Code) \subseteq DOMAIN Code
  BY CodeAssumption DEF ClosedCode
<1>2. \A a \in Entries(Code) : a \notin PrintRegion
  BY RegionAssumption DEF PrintRegionOf
<1>3. 0 \in Entries(Code)
  BY DEF Entries
<1>4. \A a \in DOMAIN Code : Code[a].op = "OP_SPAWN" => Code[a].arg \in Entries(Code)
  BY DEF Entries
<1>. QED
  BY <1>1, <1>2, <1>3, <1>4

\* Only the two bracketing instructions enter or leave a print statement.
LEMMA StayInPrint ==
  ASSUME NEW a \in DOMAIN Code, NEW s \in Successors(Code, a),
         Code[a].op \notin {"OP_BEGIN_ATOMIC_PRINT", "OP_END_ATOMIC_PRINT"}
  PROVE  s \in PrintRegion <=> a \in PrintRegion
  BY RegionAssumption DEF PrintRegionOf

\* An instruction that blocks, starts or ends a task is outside print statements.
LEMMA BlockOutsidePrint ==
  ASSUME NEW a \in DOMAIN Code,
         Code[a].op \in BlockingOps \union {"OP_BEGIN_SPAWN", "OP_SPAWN", "OP_END_TASK"}
  PROVE  a \notin PrintRegion
  BY RegionAssumption DEF PrintRegionOf

\* The bracketing instructions do enter and leave.
LEMMA BracketPrint ==
  ASSUME NEW a \in DOMAIN Code
  PROVE  /\ Code[a].op = "OP_BEGIN_ATOMIC_PRINT" =>
              a \notin PrintRegion /\ a + 1 \in PrintRegion
         /\ Code[a].op = "OP_END_ATOMIC_PRINT" =>
              a \in PrintRegion /\ a + 1 \notin PrintRegion
  BY NextAddress, RegionAssumption DEF PrintRegionOf

-----------------------------------------------------------------------------
(* The invariant.                                                           *)

LEMMA InitInvariant == Init => IInv
<1>. SUFFICES ASSUME Init PROVE IInv
  OBVIOUS
<1>. USE DEF Init
<1>1. TypeOK
  <2>1. stack \in [Tasks -> [0..StackSize-1 -> Word]]
    BY WordType
  <2>2. ip \in [Tasks -> DOMAIN Code]
    BY EntryAddress
  <2>3. top \in [Tasks -> 0..StackSize] /\ n_spawn_running \in [Tasks -> 0..CounterMod-1]
    BY MemoryAssumption, TaskAssumption
  <2>4. out \in Seq(Output)
    OBVIOUS
  <2>. QED
    BY <2>1, <2>2, <2>3, <2>4 DEF TypeOK, ThreadStates, Ends
<1>2. CallsMatchCode
  BY EntryAddress DEF CallsMatchCode
<1>3. BlocksInUse
  BY DEF BlocksInUse
<1>4. PrintMtxHeldInPrint
  BY TaskAssumption DEF PrintMtxHeldInPrint
<1>. QED
  BY <1>1, <1>2, <1>3, <1>4 DEF IInv

\* An instruction that changes only the registers of its task keeps the
\* invariant if it keeps to the code, to the stack and to the statement.
LEMMA RegistersStep ==
  ASSUME IInv, NEW t \in Tasks, At(t, "run"), OnlyRegs,
         NEW a \in DOMAIN Code, Goto(t, a),
         a \in PrintRegion <=> ip[t] \in PrintRegion,
         stack' \in [Tasks -> [0..StackSize-1 -> Word]],
         top' \in [Tasks -> 0..StackSize]
  PROVE  IInv'
<1>. USE DEF IInv, OnlyRegs, shared, spawnVars, Goto, At
<1>1. TypeOK'
  BY DEF TypeOK
<1>2. CallsMatchCode'
  BY DEF TypeOK, CallsMatchCode, Op
<1>3. BlocksInUse'
  BY DEF BlocksInUse
<1>4. PrintMtxHeldInPrint'
  BY DEF TypeOK, PrintMtxHeldInPrint
<1>. QED
  BY <1>1, <1>2, <1>3, <1>4

\* A crash changes nothing but proc.
LEMMA CrashStep ==
  ASSUME IInv, NEW how \in Ends, Crash(how)
  PROVE  IInv'
  BY DEF IInv, TypeOK, CallsMatchCode, BlocksInUse, PrintMtxHeldInPrint, Op,
         Crash, taskVars, regs, spawnVars, ioVars

-----------------------------------------------------------------------------
(* Instructions that change only registers.                                 *)

\* Writing a word inside the stack.
LEMMA PokeType ==
  ASSUME TypeOK, NEW t \in Tasks, NEW j \in 0..StackSize-1, NEW w \in Word, Poke(t, j, w)
  PROVE  stack' \in [Tasks -> [0..StackSize-1 -> Word]]
  BY DEF TypeOK, Poke

\* A word that is on the stack.
LEMMA PeekType ==
  ASSUME TypeOK, NEW t \in Tasks, NEW k \in Nat, top[t] > k
  PROVE  /\ top[t] - 1 - k \in 0..StackSize-1
         /\ Peek(t, k) \in Word
         /\ IntValues(Peek(t, k)) \subseteq Ints
<1>1. top[t] - 1 - k \in 0..StackSize-1
  BY MemoryAssumption DEF TypeOK
<1>2. Peek(t, k) \in Word
  BY <1>1 DEF TypeOK, Peek
<1>. QED
  BY <1>1, <1>2, WordType

\* Moving the stack pointer inside the stack.
LEMMA SetTopType ==
  ASSUME TypeOK, NEW t \in Tasks, NEW n \in 0..StackSize, SetTop(t, n)
  PROVE  top' \in [Tasks -> 0..StackSize]
  BY DEF TypeOK, SetTop

\* What StackOK says of each kind of instruction.
LEMMA StackEffect ==
  ASSUME TypeOK, NEW t \in Tasks, StackOK(t)
  PROVE  /\ Op(t) \in BinaryOps => top[t] > 1
         /\ Op(t) \in UnaryOps \union CondJumps \union TestJumps => top[t] > 0
         /\ Op(t) \in {"OP_POP_INT", "OP_PRINT_INT", "OP_SLEEP", "OP_WAIT_JUMP"} => top[t] > 0
         /\ Op(t) \in {"OP_PUSH_CONST_INT", "OP_PUSH_VAR"} =>
              top[t] \in 0..StackSize-1 /\ top[t] + 1 \in 0..StackSize
         /\ Op(t) = "OP_SPAWN" =>
              /\ top[t] \in 0..StackSize-1 /\ top[t] + 1 \in 0..StackSize-1
              /\ top[t] + 2 \in 0..StackSize
<1>1. Op(t) \in BinaryOps => Pops(Op(t)) = 2
  BY DEF Pops, BinaryOps, UnaryOps, CondJumps, TestJumps
<1>2. Op(t) \in UnaryOps \union CondJumps \union TestJumps
            \union {"OP_POP_INT", "OP_PRINT_INT", "OP_SLEEP", "OP_WAIT_JUMP"} =>
        Pops(Op(t)) = 1
  BY DEF Pops, BinaryOps, UnaryOps, CondJumps, TestJumps
<1>3. Op(t) \in {"OP_PUSH_CONST_INT", "OP_PUSH_VAR"} => Pops(Op(t)) = 0 /\ Pushes(Op(t)) = 1
  BY DEF Pops, Pushes, BinaryOps, UnaryOps, CondJumps, TestJumps
<1>4. Op(t) = "OP_SPAWN" => Pops(Op(t)) = 0 /\ Pushes(Op(t)) = 2
  BY DEF Pops, Pushes, BinaryOps, UnaryOps, CondJumps, TestJumps
<1>5. /\ top[t] \in 0..StackSize /\ StackSize \in Nat
      /\ top[t] >= Pops(Op(t)) /\ top[t] - Pops(Op(t)) + Pushes(Op(t)) <= StackSize
  BY MemoryAssumption DEF TypeOK, StackOK
<1>. QED
  BY <1>1, <1>2, <1>3, <1>4, <1>5

\* An instruction that goes on at the next address, outside the brackets.
LEMMA AdvanceType ==
  ASSUME TypeOK, NEW t \in Tasks,
         Op(t) \notin {"OP_JUMP", "OP_END_TASK", "OP_BAD",
                      "OP_BEGIN_ATOMIC_PRINT", "OP_END_ATOMIC_PRINT"}
  PROVE  ip[t] + 1 \in DOMAIN Code /\ (ip[t] + 1 \in PrintRegion <=> ip[t] \in PrintRegion)
<1>1. ip[t] \in DOMAIN Code
  BY DEF TypeOK
<1>. QED
  BY <1>1, NextAddress, StayInPrint DEF Op

LEMMA JumpType ==
  ASSUME TypeOK, NEW t \in Tasks,
         Op(t) \in CondJumps \union TestJumps \union {"OP_JUMP", "OP_WAIT_JUMP"}
  PROVE  Arg(t) \in DOMAIN Code /\ (Arg(t) \in PrintRegion <=> ip[t] \in PrintRegion)
<1>1. ip[t] \in DOMAIN Code
  BY DEF TypeOK
<1>2. Op(t) \notin {"OP_BEGIN_ATOMIC_PRINT", "OP_END_ATOMIC_PRINT"}
  BY DEF CondJumps, TestJumps
<1>. QED
  BY <1>1, <1>2, JumpAddress, StayInPrint DEF Op, Arg

LEMMA PushConstStep ==
  ASSUME IInv, NEW t \in Tasks, PushConst(t)
  PROVE  IInv'
<1>. USE DEF PushConst, Executes
<1>1. ip[t] \in DOMAIN Code /\ Op(t) = "OP_PUSH_CONST_INT" /\ TypeOK
  BY DEF IInv, TypeOK
<1>2. Num(Arg(t)) \in Word
  BY <1>1, CodeAssumption, WordType DEF Arg, Op, Ints
<1>3. stack' \in [Tasks -> [0..StackSize-1 -> Word]] /\ top' \in [Tasks -> 0..StackSize]
  BY <1>1, <1>2, StackEffect, PokeType, SetTopType
<1>. QED
  BY <1>1, <1>3, AdvanceType, RegistersStep DEF Advance

LEMMA PushVarStep ==
  ASSUME IInv, NEW t \in Tasks, PushVar(t)
  PROVE  IInv'
<1>. USE DEF PushVar, Executes
<1>1. ip[t] \in DOMAIN Code /\ Op(t) = "OP_PUSH_VAR" /\ TypeOK
  BY DEF IInv, TypeOK
<1>2. VarSlot(Arg(t)) \in 0..StackSize-1
  BY <1>1, CodeAssumption, SlotType DEF Arg, Op
<1>3. IntValues(stack[t][VarSlot(Arg(t))]) \subseteq Ints
  BY <1>1, <1>2, WordType DEF TypeOK
<1>4. PICK n \in Ints : Poke(t, top[t], Num(n))
  BY <1>3
<1>5. stack' \in [Tasks -> [0..StackSize-1 -> Word]] /\ top' \in [Tasks -> 0..StackSize]
  BY <1>1, <1>4, WordType, StackEffect, PokeType, SetTopType
<1>. QED
  BY <1>1, <1>5, AdvanceType, RegistersStep DEF Advance

LEMMA PopIntStep ==
  ASSUME IInv, NEW t \in Tasks, PopInt(t)
  PROVE  IInv'
<1>. USE DEF PopInt, Executes
<1>1. ip[t] \in DOMAIN Code /\ Op(t) = "OP_POP_INT" /\ TypeOK /\ top[t] > 0
  BY StackEffect DEF IInv, TypeOK
<1>2. VarSlot(Arg(t)) \in 0..StackSize-1
  BY <1>1, CodeAssumption, SlotType DEF Arg, Op
<1>3. PICK n \in Ints : Poke(t, VarSlot(Arg(t)), Num(n))
  BY <1>1, PeekType
<1>4. stack' \in [Tasks -> [0..StackSize-1 -> Word]]
  BY <1>1, <1>2, <1>3, WordType, PokeType
<1>5. top' \in [Tasks -> 0..StackSize]
  BY <1>1, SetTopType, MemoryAssumption DEF TypeOK
<1>. QED
  BY <1>1, <1>4, <1>5, AdvanceType, RegistersStep DEF Advance

LEMMA UnaryOpStep ==
  ASSUME IInv, NEW t \in Tasks, UnaryOp(t)
  PROVE  IInv'
<1>. USE DEF UnaryOp, Executes
<1>1. ip[t] \in DOMAIN Code /\ Op(t) \in UnaryOps /\ TypeOK /\ top[t] > 0
  BY StackEffect DEF IInv, TypeOK
<1>2. PICK n \in Ints :
        Poke(t, top[t] - 1, Num(IF Op(t) = "OP_NEGATE" THEN Wrap(-n) ELSE Truth(n = 0)))
  BY <1>1, PeekType
<1>3. Wrap(-n) \in Ints /\ Truth(n = 0) \in Ints
  BY WrapType, MemoryAssumption DEF Ints, Truth
<1>4. top[t] - 1 \in 0..StackSize-1
  BY <1>1, MemoryAssumption DEF TypeOK
<1>5. stack' \in [Tasks -> [0..StackSize-1 -> Word]]
  BY <1>1, <1>2, <1>3, <1>4, WordType, PokeType
<1>6. top' \in [Tasks -> 0..StackSize]
  BY <1>1 DEF TypeOK
<1>. QED
  BY <1>1, <1>5, <1>6, AdvanceType, RegistersStep DEF Advance, UnaryOps

LEMMA BinaryOpStep ==
  ASSUME IInv, NEW t \in Tasks, BinaryOp(t)
  PROVE  IInv'
<1>. USE DEF BinaryOp, Executes
<1>1. Op(t) \in BinaryOps /\ TypeOK /\ top[t] > 1 /\ top[t] > 0
  BY StackEffect DEF IInv, TypeOK
<1>2. PICK x \in IntValues(Peek(t, 0)), y \in IntValues(Peek(t, 1)) :
        IF Traps(Op(t), y, x)
          THEN Crash("sigfpe")
          ELSE /\ Poke(t, top[t] - 2, Num(Binary(Op(t), y, x)))
               /\ SetTop(t, top[t] - 1) /\ Advance(t)
               /\ OnlyRegs
  OBVIOUS
<1>3. x \in Ints /\ y \in Ints
  BY <1>1, PeekType
<1>4. CASE Traps(Op(t), y, x)
  BY <1>2, <1>4, CrashStep DEF Ends
<1>5. CASE ~Traps(Op(t), y, x)
  <2>1. Num(Binary(Op(t), y, x)) \in Word
    BY <1>1, <1>3, <1>5, BinaryType, WordType
  <2>2. top[t] - 2 \in 0..StackSize-1 /\ top[t] - 1 \in 0..StackSize
    BY <1>1, MemoryAssumption DEF TypeOK
  <2>3. stack' \in [Tasks -> [0..StackSize-1 -> Word]] /\ top' \in [Tasks -> 0..StackSize]
    BY <1>1, <1>2, <1>5, <2>1, <2>2, PokeType, SetTopType
  <2>. QED
    BY <1>1, <1>2, <1>5, <2>3, AdvanceType, RegistersStep DEF Advance, BinaryOps
<1>. QED
  BY <1>4, <1>5

LEMMA JumpStep ==
  ASSUME IInv, NEW t \in Tasks, Jump(t)
  PROVE  IInv'
<1>. USE DEF Jump, Executes
<1>1. Op(t) = "OP_JUMP" /\ TypeOK
  BY DEF IInv
<1>2. stack' \in [Tasks -> [0..StackSize-1 -> Word]] /\ top' \in [Tasks -> 0..StackSize]
  BY <1>1 DEF TypeOK
<1>. QED
  BY <1>1, <1>2, JumpType, RegistersStep

LEMMA CondJumpStep ==
  ASSUME IInv, NEW t \in Tasks, CondJump(t)
  PROVE  IInv'
<1>. USE DEF CondJump, Executes
<1>1. Op(t) \in CondJumps /\ TypeOK /\ top[t] > 0
  BY StackEffect DEF IInv
<1>2. Goto(t, Arg(t)) \/ Goto(t, ip[t] + 1)
  BY DEF Advance
<1>3. top' \in [Tasks -> 0..StackSize] /\ stack' \in [Tasks -> [0..StackSize-1 -> Word]]
  BY <1>1, SetTopType, MemoryAssumption DEF TypeOK
<1>. QED
  BY <1>1, <1>2, <1>3, JumpType, AdvanceType, RegistersStep DEF CondJumps

LEMMA TestJumpStep ==
  ASSUME IInv, NEW t \in Tasks, TestJump(t)
  PROVE  IInv'
<1>. USE DEF TestJump, Executes
<1>1. Op(t) \in TestJumps /\ TypeOK /\ top[t] > 0
  BY StackEffect DEF IInv
<1>2. \/ Goto(t, Arg(t)) /\ UNCHANGED top
      \/ Goto(t, ip[t] + 1) /\ SetTop(t, top[t] - 1)
  BY DEF Advance
<1>3. top' \in [Tasks -> 0..StackSize] /\ stack' \in [Tasks -> [0..StackSize-1 -> Word]]
  BY <1>1, <1>2, SetTopType, MemoryAssumption DEF TypeOK
<1>. QED
  BY <1>1, <1>2, <1>3, JumpType, AdvanceType, RegistersStep DEF TestJumps

LEMMA BadInstructionStep ==
  ASSUME IInv, NEW t \in Tasks, BadInstruction(t)
  PROVE  IInv'
  BY CrashStep DEF BadInstruction, Ends

-----------------------------------------------------------------------------
(* Instructions and parts of instructions that change where a thread is.    *)

\* A step in which thread t, which runs, goes on at phase w keeps the invariant
\* if w fits the instruction the task is then at.
LEMMA PhaseStep ==
  ASSUME IInv, NEW t \in Tasks, thread[t] \notin {"none", "exited"},
         NEW w \in ThreadStates \ {"none", "created"}, Become(t, w),
         UNCHANGED shared, UNCHANGED stack,
         ip' \in [Tasks -> DOMAIN Code], \A u \in Tasks \ {t} : ip'[u] = ip[u],
         top' \in [Tasks -> 0..StackSize],
         n_spawn_tasks' \in [Tasks -> Nat],
         n_spawn_running' \in [Tasks -> 0..CounterMod-1],
         i' \in [Tasks -> Nat],
         w = "run" /\ ip'[t] \in PrintRegion <=> thread[t] = "run" /\ ip[t] \in PrintRegion,
         w \in {"spawn", "count"} => Code[ip'[t]].op \in {"OP_JOIN", "OP_WAIT_JUMP"},
         w = "join"  => Code[ip'[t]].op = "OP_JOIN",
         w = "wait"  => Code[ip'[t]].op = "OP_WAIT_JUMP",
         w = "sleep" => Code[ip'[t]].op = "OP_SLEEP"
  PROVE  IInv'
<1>. USE DEF IInv, shared, Become
<1>0. /\ thread'[t] = w /\ \A u \in Tasks \ {t} : thread'[u] = thread[u]
      /\ thread' \in [Tasks -> ThreadStates]
  BY DEF TypeOK
<1>1. TypeOK'
  BY <1>0 DEF TypeOK
<1>2. CallsMatchCode'
  <2>. SUFFICES ASSUME NEW u \in Tasks
                PROVE  /\ thread'[u] \in {"none", "created"} => ip'[u] \in Entries(Code)
                       /\ thread'[u] \in {"spawn", "count"} =>
                            Code[ip'[u]].op \in {"OP_JOIN", "OP_WAIT_JUMP"}
                       /\ thread'[u] = "join"  => Code[ip'[u]].op = "OP_JOIN"
                       /\ thread'[u] = "wait"  => Code[ip'[u]].op = "OP_WAIT_JUMP"
                       /\ thread'[u] = "sleep" => Code[ip'[u]].op = "OP_SLEEP"
    BY DEF CallsMatchCode, Op
  <2>1. CASE u = t
    BY <1>0, <2>1
  <2>2. CASE u # t
    BY <1>0, <2>2 DEF CallsMatchCode, Op
  <2>. QED
    BY <2>1, <2>2
<1>3. BlocksInUse'
  BY <1>0 DEF BlocksInUse
<1>4. PrintMtxHeldInPrint'
  BY <1>0 DEF PrintMtxHeldInPrint
<1>. QED
  BY <1>1, <1>2, <1>3, <1>4

LEMMA RunSpawnStep ==
  ASSUME IInv, NEW t \in Tasks, RunSpawn(t)
  PROVE  IInv'
<1>. USE DEF RunSpawn, Executes, At
<1>1. TypeOK /\ Op(t) \in {"OP_JOIN", "OP_WAIT_JUMP"} /\ ip[t] \in DOMAIN Code
  BY DEF IInv, TypeOK
<1>2. ip[t] \notin PrintRegion
  BY <1>1, BlockOutsidePrint DEF Op, BlockingOps
<1>3. top[t] - Pops(Op(t)) \in 0..StackSize
  <2>1. Pops(Op(t)) \in {0, 1}
    BY <1>1 DEF Pops, BinaryOps, UnaryOps, CondJumps, TestJumps
  <2>. QED
    BY <1>1, <2>1, MemoryAssumption DEF TypeOK, StackOK
<1>4. top' \in [Tasks -> 0..StackSize] /\ i' \in [Tasks -> Nat]
  BY <1>1, <1>3, SetTopType DEF TypeOK
<1>. QED
  BY <1>1, <1>2, <1>4, PhaseStep DEF TypeOK, ThreadStates, Op

LEMMA CountThreadStep ==
  ASSUME IInv, NEW t \in Tasks, CountThread(t)
  PROVE  IInv'
<1>. USE DEF CountThread, At
<1>1. TypeOK /\ Op(t) \in {"OP_JOIN", "OP_WAIT_JUMP"}
  BY DEF IInv, CallsMatchCode
<1>2. n_spawn_running' \in [Tasks -> 0..CounterMod-1] /\ i' \in [Tasks -> Nat]
  BY <1>1, TaskAssumption DEF TypeOK
<1>. QED
  BY <1>1, <1>2, PhaseStep DEF TypeOK, ThreadStates, Op, regs

LEMMA BeginJoinStep ==
  ASSUME IInv, NEW t \in Tasks, BeginJoin(t)
  PROVE  IInv'
<1>. USE DEF BeginJoin, At
<1>1. TypeOK /\ i' \in [Tasks -> Nat]
  BY DEF IInv, TypeOK
<1>. QED
  BY <1>1, PhaseStep DEF TypeOK, ThreadStates, Op, regs

LEMMA EndJoinStep ==
  ASSUME IInv, NEW t \in Tasks, EndJoin(t)
  PROVE  IInv'
<1>. USE DEF EndJoin, At
<1>1. TypeOK /\ Op(t) = "OP_JOIN" /\ ip[t] \in DOMAIN Code
  BY DEF IInv, CallsMatchCode, TypeOK
<1>2. CASE n_spawn_running[t] = 0
  <2>1. ip[t] + 1 \in DOMAIN Code /\ ip[t] + 1 \notin PrintRegion
    BY <1>1, AdvanceType, BlockOutsidePrint DEF Op, BlockingOps
  <2>2. ip' \in [Tasks -> DOMAIN Code] /\ ip'[t] = ip[t] + 1
        /\ \A u \in Tasks \ {t} : ip'[u] = ip[u]
    BY <1>1, <1>2, <2>1 DEF TypeOK, Advance, Goto
  <2>. QED
    BY <1>1, <1>2, <2>1, <2>2, PhaseStep DEF TypeOK, ThreadStates, spawnVars
<1>3. CASE n_spawn_running[t] # 0
  BY <1>3, CrashStep DEF Ends
<1>. QED
  BY <1>2, <1>3

LEMMA BeginWaitStep ==
  ASSUME IInv, NEW t \in Tasks, BeginWait(t)
  PROVE  IInv'
<1>. USE DEF BeginWait, At
<1>1. TypeOK
  BY DEF IInv
<1>2. CASE top[t] >= n_spawn_tasks[t]
  <2>1. top[t] - n_spawn_tasks[t] \in 0..StackSize
    BY <1>1, <1>2, MemoryAssumption DEF TypeOK
  <2>2. top' \in [Tasks -> 0..StackSize]
    BY <1>1, <1>2, <2>1, SetTopType
  <2>. QED
    BY <1>1, <1>2, <2>2, PhaseStep DEF TypeOK, ThreadStates, Op, spawnVars
<1>3. CASE ~(top[t] >= n_spawn_tasks[t])
  BY <1>3, CrashStep DEF Ends
<1>. QED
  BY <1>2, <1>3

LEMMA EndWaitStep ==
  ASSUME IInv, NEW t \in Tasks, EndWait(t)
  PROVE  IInv'
<1>. USE DEF EndWait, At
<1>1. TypeOK /\ Op(t) = "OP_WAIT_JUMP" /\ ip[t] \in DOMAIN Code
  BY DEF IInv, CallsMatchCode, TypeOK
<1>2. PICK a \in {Arg(t), ip[t] + 1} : Goto(t, a)
  BY DEF Advance
<1>3. a \in DOMAIN Code /\ a \notin PrintRegion
  BY <1>1, AdvanceType, JumpType, BlockOutsidePrint DEF Op, BlockingOps
<1>4. ip' \in [Tasks -> DOMAIN Code] /\ ip'[t] = a /\ \A u \in Tasks \ {t} : ip'[u] = ip[u]
  BY <1>1, <1>2, <1>3 DEF TypeOK, Goto
<1>. QED
  BY <1>1, <1>3, <1>4, PhaseStep DEF TypeOK, ThreadStates, spawnVars

LEMMA BeginSleepStep ==
  ASSUME IInv, NEW t \in Tasks, BeginSleep(t)
  PROVE  IInv'
<1>. USE DEF BeginSleep, Executes, At
<1>1. TypeOK /\ Op(t) = "OP_SLEEP" /\ ip[t] \in DOMAIN Code /\ top[t] > 0
  BY StackEffect DEF IInv, TypeOK
<1>2. ip[t] \notin PrintRegion
  BY <1>1, BlockOutsidePrint DEF Op, BlockingOps
<1>3. top' \in [Tasks -> 0..StackSize]
  BY <1>1, SetTopType, MemoryAssumption DEF TypeOK
<1>. QED
  BY <1>1, <1>2, <1>3, PhaseStep DEF TypeOK, ThreadStates, Op, spawnVars

LEMMA EndSleepStep ==
  ASSUME IInv, NEW t \in Tasks, EndSleep(t)
  PROVE  IInv'
<1>. USE DEF EndSleep, At
<1>1. TypeOK /\ Op(t) = "OP_SLEEP" /\ ip[t] \in DOMAIN Code
  BY DEF IInv, CallsMatchCode, TypeOK
<1>2. ip[t] + 1 \in DOMAIN Code /\ ip[t] + 1 \notin PrintRegion
  BY <1>1, AdvanceType, BlockOutsidePrint DEF Op, BlockingOps
<1>3. ip' \in [Tasks -> DOMAIN Code] /\ ip'[t] = ip[t] + 1
      /\ \A u \in Tasks \ {t} : ip'[u] = ip[u]
  BY <1>1, <1>2 DEF TypeOK, Advance, Goto
<1>. QED
  BY <1>1, <1>2, <1>3, PhaseStep DEF TypeOK, ThreadStates, spawnVars

LEMMA StartTaskStep ==
  ASSUME IInv, NEW t \in Tasks, StartTask(t)
  PROVE  IInv'
<1>. USE DEF StartTask, At
<1>1. TypeOK /\ ip[t] \notin PrintRegion
  BY EntryAddress DEF IInv, CallsMatchCode
<1>. QED
  BY <1>1, PhaseStep DEF TypeOK, ThreadStates, regs, spawnVars

LEMMA BeginSpawnStep ==
  ASSUME IInv, NEW t \in Tasks, BeginSpawn(t)
  PROVE  IInv'
<1>. USE DEF BeginSpawn, Executes, At
<1>1. TypeOK /\ Op(t) = "OP_BEGIN_SPAWN" /\ ip[t] \in DOMAIN Code
  BY DEF IInv, TypeOK
<1>2. ip[t] + 1 \in DOMAIN Code /\ (ip[t] + 1 \in PrintRegion <=> ip[t] \in PrintRegion)
  BY <1>1, AdvanceType
<1>3. ip' \in [Tasks -> DOMAIN Code] /\ ip'[t] = ip[t] + 1
      /\ \A u \in Tasks \ {t} : ip'[u] = ip[u]
  BY <1>1, <1>2 DEF TypeOK, Advance, Goto
<1>4. n_spawn_tasks' \in [Tasks -> Nat]
  BY <1>1, CodeAssumption DEF TypeOK, Arg, Op
<1>5. Become(t, "run")
  BY <1>1 DEF TypeOK, Become
<1>. QED
  BY <1>1, <1>2, <1>3, <1>4, <1>5, PhaseStep DEF TypeOK, ThreadStates

LEMMA EndTaskStep ==
  ASSUME IInv, NEW t \in Tasks, EndTask(t)
  PROVE  IInv'
<1>. USE DEF EndTask, Executes, At
<1>1. TypeOK /\ ip[t] \in DOMAIN Code /\ ip[t] \notin PrintRegion
  BY BlockOutsidePrint DEF IInv, TypeOK, Op
<1>2. PICK w \in {"exiting", "end"} : Become(t, w)
  OBVIOUS
<1>. QED
  BY <1>1, <1>2, PhaseStep DEF TypeOK, ThreadStates, regs, spawnVars

LEMMA CheckSiblingsStep ==
  ASSUME IInv, NEW t \in Tasks, CheckSiblings(t)
  PROVE  IInv'
<1>. USE DEF CheckSiblings, At
<1>1. TypeOK
  BY DEF IInv
<1>2. CASE n_spawn_running[parent[t]] > 0
  BY <1>1, <1>2, PhaseStep DEF TypeOK, ThreadStates, regs, spawnVars
<1>3. CASE ~(n_spawn_running[parent[t]] > 0)
  BY <1>3, CrashStep DEF Ends
<1>. QED
  BY <1>2, <1>3

LEMMA CountDownStep ==
  ASSUME IInv, NEW t \in Tasks, CountDown(t)
  PROVE  IInv'
<1>. USE DEF CountDown, At
<1>1. TypeOK /\ parent[t] \in Tasks
  BY DEF IInv, TypeOK
<1>2. n_spawn_running' \in [Tasks -> 0..CounterMod-1]
  BY <1>1, TaskAssumption DEF TypeOK
<1>. QED
  BY <1>1, <1>2, PhaseStep DEF TypeOK, ThreadStates, regs

LEMMA ExitThreadStep ==
  ASSUME IInv, NEW t \in Tasks, ExitThread(t)
  PROVE  IInv'
<1>. USE DEF ExitThread, At
<1>1. TypeOK
  BY DEF IInv
<1>. QED
  BY <1>1, PhaseStep DEF TypeOK, ThreadStates, regs, spawnVars

LEMMA TouchFreedStep ==
  ASSUME IInv, NEW t \in Tasks, TouchFreed(t)
  PROVE  IInv'
  BY CrashStep DEF TouchFreed, Ends

-----------------------------------------------------------------------------
(* Output.                                                                  *)

\* Printing an item adds it to the output and stays in the statement.
LEMMA PrintStep ==
  ASSUME IInv, NEW t \in Tasks, PrintInt(t) \/ PrintText(t)
  PROVE  IInv'
<1>. USE DEF At, Executes
<1>1. /\ TypeOK /\ thread[t] = "run" /\ ip[t] \in DOMAIN Code /\ Advance(t)
      /\ Op(t) \in {"OP_PRINT_INT", "OP_PRINT_CHAR", "OP_PRINT_STRING"}
      /\ UNCHANGED <<taskVars, stack, spawnVars, thread, print_mtx, main, proc>>
  BY DEF IInv, TypeOK, PrintInt, PrintText
<1>2. ip[t] + 1 \in DOMAIN Code /\ (ip[t] + 1 \in PrintRegion <=> ip[t] \in PrintRegion)
  BY <1>1, AdvanceType
<1>3. \E n \in Int : WriteOut(t, n)
  <2>1. CASE PrintInt(t)
    <3>1. top[t] > 0
      BY <1>1, <2>1, StackEffect DEF PrintInt
    <3>2. IntValues(Peek(t, 0)) \subseteq Int
      BY <1>1, <3>1, PeekType, MemoryAssumption DEF Ints
    <3>. QED
      BY <2>1, <3>2 DEF PrintInt
  <2>2. CASE PrintText(t)
    BY <1>1, <2>2, CodeAssumption DEF PrintText, Arg, INSTRUCTION
  <2>. QED
    BY <2>1, <2>2
<1>4. out' \in Seq(Output)
  <2>1. PICK n \in Int : out' = Append(out, [by |-> t, at |-> ip[t], what |-> n])
    BY <1>3 DEF WriteOut
  <2>2. [by |-> t, at |-> ip[t], what |-> n] \in Output
    BY <1>1 DEF Output
  <2>. QED
    BY <1>1, <2>1, <2>2 DEF TypeOK
<1>5. top' \in [Tasks -> 0..StackSize]
  BY <1>1, StackEffect, SetTopType, MemoryAssumption DEF PrintInt, PrintText, TypeOK
<1>. USE DEF IInv, taskVars, spawnVars, Advance, Goto
<1>6. TypeOK'
  BY <1>1, <1>2, <1>4, <1>5 DEF TypeOK
<1>7. CallsMatchCode'
  BY <1>1 DEF TypeOK, CallsMatchCode, Op
<1>8. BlocksInUse'
  BY <1>1 DEF BlocksInUse
<1>9. PrintMtxHeldInPrint'
  BY <1>1, <1>2 DEF TypeOK, PrintMtxHeldInPrint
<1>. QED
  BY <1>6, <1>7, <1>8, <1>9

\* pthread_mutex_lock is passed only by a task that enters a statement, when
\* no other is inside one; pthread_mutex_unlock by the one that leaves.
LEMMA BracketStep ==
  ASSUME IInv, NEW t \in Tasks, BeginAtomicPrint(t) \/ EndAtomicPrint(t)
  PROVE  IInv'
<1>. USE DEF At, Executes
<1>1. /\ TypeOK /\ thread[t] = "run" /\ ip[t] \in DOMAIN Code /\ Advance(t)
      /\ UNCHANGED <<taskVars, stack, top, spawnVars, thread, out, main, proc>>
  BY DEF IInv, TypeOK, BeginAtomicPrint, EndAtomicPrint
<1>2. ip[t] + 1 \in DOMAIN Code
  BY <1>1, NextAddress DEF BeginAtomicPrint, EndAtomicPrint, Op
<1>3. print_mtx' \in Tasks \union {NoTask}
  BY DEF BeginAtomicPrint, EndAtomicPrint
<1>. USE DEF IInv, taskVars, spawnVars, Advance, Goto
<1>4. TypeOK'
  BY <1>1, <1>2, <1>3 DEF TypeOK
<1>5. CallsMatchCode'
  BY <1>1 DEF TypeOK, CallsMatchCode, Op
<1>6. BlocksInUse'
  BY <1>1 DEF BlocksInUse
<1>7. CASE BeginAtomicPrint(t)
  <2>1. ip[t] \notin PrintRegion /\ ip[t] + 1 \in PrintRegion
    BY <1>1, <1>7, BracketPrint DEF BeginAtomicPrint, Op
  <2>2. print_mtx = NoTask /\ print_mtx' = t
    BY <1>7 DEF BeginAtomicPrint
  <2>3. PrintMtxHeldInPrint'
    BY <1>1, <2>1, <2>2, TaskAssumption DEF TypeOK, PrintMtxHeldInPrint
  <2>. QED
    BY <1>4, <1>5, <1>6, <2>3
<1>8. CASE EndAtomicPrint(t)
  <2>1. ip[t] \in PrintRegion /\ ip[t] + 1 \notin PrintRegion
    BY <1>1, <1>8, BracketPrint DEF EndAtomicPrint, Op
  <2>2. print_mtx = t /\ print_mtx' = NoTask
    BY <1>1, <1>8, <2>1 DEF EndAtomicPrint, PrintMtxHeldInPrint
  <2>3. PrintMtxHeldInPrint'
    BY <1>1, <2>1, <2>2, TaskAssumption DEF TypeOK, PrintMtxHeldInPrint
  <2>. QED
    BY <1>4, <1>5, <1>6, <2>3
<1>. QED
  BY <1>7, <1>8

-----------------------------------------------------------------------------
(* Steps that involve a second task.                                        *)

\* A new task starts outside print statements, in a block nothing runs in.
LEMMA SpawnStep ==
  ASSUME IInv, NEW t \in Tasks, Spawn(t)
  PROVE  IInv'
<1>. USE DEF Spawn, Executes, At
<1>1. /\ TypeOK /\ thread[t] = "run" /\ ip[t] \in DOMAIN Code /\ Op(t) = "OP_SPAWN"
      /\ ip[t] \notin PrintRegion
      /\ top[t] \in 0..StackSize-1 /\ top[t] + 1 \in 0..StackSize-1
      /\ top[t] + 2 \in 0..StackSize
  BY StackEffect, BlockOutsidePrint DEF IInv, TypeOK, Op
<1>2. ip[t] + 1 \in DOMAIN Code /\ ip[t] + 1 \notin PrintRegion
  BY <1>1, AdvanceType
<1>3. Arg(t) \in Entries(Code) /\ Arg(t) \in DOMAIN Code
  BY <1>1, EntryAddress DEF Arg, Op
<1>4. PICK c \in Tasks \ heap :
        /\ NewTask(c, t)
        /\ thread' = [thread EXCEPT ![c] = "none"]
        /\ ip' = [ip EXCEPT ![c] = Arg(t), ![t] = ip[t] + 1]
        /\ top' = [top EXCEPT ![c] = 0, ![t] = top[t] + 2]
        /\ stack' = [stack EXCEPT ![c] = FreshStack,
                                  ![t][top[t]] = <<"lo", c>>,
                                  ![t][top[t] + 1] = <<"hi", c>>]
  OBVIOUS
<1>5. t \in heap /\ c # t /\ c # RootTask /\ main # "start"
  BY <1>1, <1>4 DEF IInv, BlocksInUse, TypeOK
<1>6. stack' \in [Tasks -> [0..StackSize-1 -> Word]]
  <2>1. <<"lo", c>> \in Word /\ <<"hi", c>> \in Word
    BY <1>4, <1>5, WordType
  <2>2. [stack EXCEPT ![c] = FreshStack] \in [Tasks -> [0..StackSize-1 -> Word]]
    BY <1>1, FreshStackType DEF TypeOK
  <2>. QED
    BY <1>1, <1>4, <2>1, <2>2
<1>. USE DEF IInv, NewTask, ioVars
<1>7. TypeOK'
  <2>1. heap' \subseteq Tasks /\ parent' \in [Tasks -> Tasks \union {NoTask}]
    BY <1>1, <1>4 DEF TypeOK
  <2>2. ip' \in [Tasks -> DOMAIN Code]
    BY <1>1, <1>2, <1>3, <1>4 DEF TypeOK
  <2>3. top' \in [Tasks -> 0..StackSize]
    BY <1>1, <1>4, MemoryAssumption DEF TypeOK
  <2>4. n_spawn_running' \in [Tasks -> 0..CounterMod-1]
    BY <1>1, <1>4, TaskAssumption DEF TypeOK
  <2>5. thread' \in [Tasks -> ThreadStates]
    BY <1>1, <1>4 DEF TypeOK, ThreadStates
  <2>. QED
    BY <1>1, <1>6, <2>1, <2>2, <2>3, <2>4, <2>5 DEF TypeOK
<1>8. CallsMatchCode'
  BY <1>1, <1>3, <1>4, <1>5 DEF TypeOK, CallsMatchCode, Op
<1>9. BlocksInUse'
  BY <1>1, <1>4, <1>5 DEF TypeOK, BlocksInUse
<1>10. PrintMtxHeldInPrint'
  <2>1. SUFFICES ASSUME NEW u \in Tasks
                 PROVE  print_mtx' = u <=> thread'[u] = "run" /\ ip'[u] \in PrintRegion
    BY DEF PrintMtxHeldInPrint
  <2>2. print_mtx' = print_mtx /\ (print_mtx = u <=> thread[u] = "run" /\ ip[u] \in PrintRegion)
    BY DEF PrintMtxHeldInPrint
  <2>3. CASE u = c
    <3>1. thread[c] # "run" /\ thread'[c] = "none"
      BY <1>1, <1>4 DEF TypeOK, BlocksInUse
    <3>. QED
      BY <2>2, <2>3, <3>1
  <2>4. CASE u = t
    <3>1. ip'[t] = ip[t] + 1
      BY <1>1, <1>4 DEF TypeOK
    <3>. QED
      BY <1>1, <1>2, <2>2, <2>4, <3>1
  <2>5. CASE u # c /\ u # t
    <3>1. thread'[u] = thread[u] /\ ip'[u] = ip[u]
      BY <1>1, <1>4, <2>5 DEF TypeOK
    <3>. QED
      BY <2>2, <3>1
  <2>. QED
    BY <2>3, <2>4, <2>5
<1>. QED
  BY <1>7, <1>8, <1>9, <1>10

LEMMA SpawnNoMemoryStep ==
  ASSUME IInv, NEW t \in Tasks, SpawnNoMemory(t)
  PROVE  IInv'
  BY CrashStep DEF SpawnNoMemory, Ends

\* pthread_create starts a thread that had none.
LEMMA CreateThreadStep ==
  ASSUME IInv, NEW t \in Tasks, CreateThread(t)
  PROVE  IInv'
<1>. USE DEF CreateThread, At
<1>1. TypeOK /\ thread[t] = "spawn"
  BY DEF IInv
<1>2. CASE Child(t, i[t]) \in heap /\ thread[Child(t, i[t])] = "none"
  <2>1. PICK c \in heap : c = Child(t, i[t])
    BY <1>2
  <2>2. /\ c \in Tasks /\ c # t /\ thread[c] = "none"
        /\ thread' = [thread EXCEPT ![c] = "created", ![t] = "count"]
        /\ UNCHANGED <<shared, regs, spawnVars>>
    BY <1>1, <1>2, <2>1 DEF TypeOK
  <2>. USE DEF IInv, shared, regs, spawnVars
  <2>3. TypeOK'
    BY <1>1, <2>2 DEF TypeOK, ThreadStates
  <2>4. CallsMatchCode'
    BY <1>1, <2>2 DEF TypeOK, CallsMatchCode, Op
  <2>5. BlocksInUse'
    BY <1>1, <2>2, <2>1 DEF TypeOK, BlocksInUse
  <2>6. PrintMtxHeldInPrint'
    BY <1>1, <2>2 DEF TypeOK, PrintMtxHeldInPrint
  <2>. QED
    BY <2>3, <2>4, <2>5, <2>6
<1>3. CASE ~(Child(t, i[t]) \in heap /\ thread[Child(t, i[t])] = "none")
  BY <1>3, CrashStep DEF Ends
<1>. QED
  BY <1>2, <1>3

\* A pointer on a stack never is the init task's.
LEMMA ChildType ==
  ASSUME TypeOK, NEW t \in Tasks, Child(t, 0) # NoTask
  PROVE  Child(t, 0) \in Tasks \ {RootTask} /\ top[t] - 2 \in 0..StackSize
<1>1. top[t] >= 2 /\ Peek(t, 0)[1] = "hi" /\ Child(t, 0) = Peek(t, 0)[2]
  BY DEF Child
<1>2. Peek(t, 0) \in Word
  BY <1>1, PeekType DEF TypeOK
<1>3. top[t] - 2 \in 0..StackSize
  BY <1>1, MemoryAssumption DEF TypeOK
<1>. QED
  BY <1>1, <1>2, <1>3 DEF Word, Junk

\* OP_JOIN frees a block whose thread has exited.
LEMMA JoinThreadStep ==
  ASSUME IInv, NEW t \in Tasks, JoinThread(t)
  PROVE  IInv'
<1>. USE DEF JoinThread, At
<1>1. TypeOK /\ Child(t, 0) \in Tasks /\ thread[Child(t, 0)] = "exited"
  BY DEF IInv, TypeOK
<1>2. Child(t, 0) # RootTask /\ top[t] - 2 \in 0..StackSize
  BY <1>1, ChildType, TaskAssumption
<1>3. top' \in [Tasks -> 0..StackSize] /\ i' \in [Tasks -> Nat]
  BY <1>1, <1>2, SetTopType DEF TypeOK
<1>. USE DEF IInv, ioVars
<1>4. TypeOK'
  BY <1>1, <1>3 DEF TypeOK
<1>5. CallsMatchCode'
  BY DEF CallsMatchCode, Op
<1>6. BlocksInUse'
  BY <1>1, <1>2 DEF BlocksInUse
<1>7. PrintMtxHeldInPrint'
  BY DEF PrintMtxHeldInPrint
<1>. QED
  BY <1>4, <1>5, <1>6, <1>7

-----------------------------------------------------------------------------
(* The main thread.                                                         *)

LEMMA MainStartStep ==
  ASSUME IInv, MainStart
  PROVE  IInv'
<1>. USE DEF MainStart, IInv, NewTask, Become, ioVars
<1>1. /\ TypeOK /\ heap = {} /\ RootTask \in Tasks
      /\ thread[RootTask] \in {"none", "exited"}
  BY TaskAssumption DEF BlocksInUse
<1>2. 0 \in Entries(Code) /\ 0 \in DOMAIN Code
  BY EntryAddress
<1>3. stack' \in [Tasks -> [0..StackSize-1 -> Word]]
  BY <1>1, FreshStackType DEF TypeOK
<1>4. TypeOK'
  BY <1>1, <1>2, <1>3, MemoryAssumption, TaskAssumption DEF TypeOK, ThreadStates
<1>5. CallsMatchCode'
  BY <1>1, <1>2 DEF TypeOK, CallsMatchCode, Op
<1>6. BlocksInUse'
  BY <1>1 DEF TypeOK, BlocksInUse
<1>7. PrintMtxHeldInPrint'
  BY <1>1 DEF TypeOK, PrintMtxHeldInPrint
<1>. QED
  BY <1>4, <1>5, <1>6, <1>7

LEMMA MainEndStep ==
  ASSUME IInv, MainNoModule \/ MainJoin \/ MainFree \/ MainExit
  PROVE  IInv'
<1>. USE DEF MainNoModule, MainJoin, MainFree, MainExit,
             IInv, taskVars, regs, spawnVars, ioVars
<1>1. TypeOK'
  BY DEF TypeOK, Ends
<1>2. CallsMatchCode'
  BY DEF CallsMatchCode, Op
<1>3. BlocksInUse'
  BY TaskAssumption DEF BlocksInUse
<1>4. PrintMtxHeldInPrint'
  BY DEF PrintMtxHeldInPrint
<1>. QED
  BY <1>1, <1>2, <1>3, <1>4

LEMMA StutterStep ==
  ASSUME IInv, UNCHANGED vars
  PROVE  IInv'
  BY DEF vars, IInv, TypeOK, CallsMatchCode, BlocksInUse, PrintMtxHeldInPrint, Op

-----------------------------------------------------------------------------
(* Theorems.                                                                *)

LEMMA NextInvariant == IInv /\ [Next]_vars => IInv'
<1>. SUFFICES ASSUME IInv, [Next]_vars PROVE IInv'
  OBVIOUS
<1>1. ASSUME NEW t \in Tasks, Instruction(t) PROVE IInv'
  BY <1>1, PushConstStep, PushVarStep, PopIntStep, UnaryOpStep, BinaryOpStep, JumpStep,
     CondJumpStep, TestJumpStep, BadInstructionStep, PrintStep, BracketStep,
     BeginSpawnStep, SpawnStep, SpawnNoMemoryStep, RunSpawnStep, BeginSleepStep,
     EndTaskStep
     DEF Instruction
<1>2. ASSUME NEW t \in Tasks, InsideCall(t) PROVE IInv'
  BY <1>2, CreateThreadStep, CountThreadStep, BeginJoinStep, JoinThreadStep, EndJoinStep,
     BeginWaitStep, EndWaitStep, EndSleepStep, StartTaskStep, CheckSiblingsStep,
     CountDownStep, ExitThreadStep
     DEF InsideCall
<1>3. ASSUME NEW t \in Tasks, TouchFreed(t) PROVE IInv'
  BY <1>3, TouchFreedStep
<1>4. CASE MainThread
  BY <1>4, MainStartStep, MainEndStep DEF MainThread
<1>5. CASE UNCHANGED vars
  BY <1>5, StutterStep
<1>. QED
  BY <1>1, <1>2, <1>3, <1>4, <1>5 DEF Next, TaskStep, Ended

LEMMA Invariant == Spec => []IInv
  BY InitInvariant, NextInvariant, PTL DEF Spec

\* No program makes the interpreter leave its code block, move a stack pointer
\* outside the stack or a counter outside its width without the process ending:
\* every step of exec_run_task and of the functions it calls keeps TypeOK.
THEOREM TypeCorrect == Spec => []TypeOK
<1>1. IInv => TypeOK
  BY DEF IInv
<1>. QED
  BY <1>1, Invariant, PTL

\* 'print' statements exclude each other, and g_print_mtx is never held by a
\* task that blocks, ends or is freed, for every program whose print statements
\* are bracketed as the compiler brackets them.
THEOREM PrintExclusion == Spec => []PrintMtxHeldInPrint
<1>1. IInv => PrintMtxHeldInPrint
  BY DEF IInv
<1>. QED
  BY <1>1, Invariant, PTL
=============================================================================
