------------------------------ MODULE Bytecode ------------------------------
(***************************************************************************)
(* The instruction set of the mini-pogo machine (instruction.h,            *)
(* opcode-enums.txt): what each instruction takes from and leaves on the   *)
(* operand stack, where control may go after it, and what it means for a   *)
(* block of code to be well formed.  The compiler is checked to produce    *)
(* well-formed code, the interpreter is proved correct for every such      *)
(* code.                                                                   *)
(***************************************************************************)
EXTENDS Integers

BinaryOps ==
  {"OP_ADD", "OP_SUBTRACT", "OP_MULTIPLY", "OP_DIVIDE", "OP_REMAINDER",
   "OP_AND", "OP_OR", "OP_EQ", "OP_NE", "OP_LT", "OP_LE", "OP_GT", "OP_GE"}

UnaryOps     == {"OP_NEGATE", "OP_NOT"}
CondJumps    == {"OP_JUMP_IF_ZERO", "OP_JUMP_IF_NONZERO"}
TestJumps    == {"OP_TEST_AND_JUMP_IF_ZERO", "OP_TEST_AND_JUMP_IF_NONZERO"}
BlockingOps  == {"OP_JOIN", "OP_WAIT_JUMP", "OP_SLEEP"}
PrintOps     == {"OP_PRINT_INT", "OP_PRINT_CHAR", "OP_PRINT_STRING"}

Opcodes ==
  BinaryOps \union UnaryOps \union CondJumps \union TestJumps
            \union BlockingOps \union PrintOps \union
  {"OP_PUSH_CONST_INT", "OP_PUSH_VAR", "OP_POP_INT", "OP_JUMP",
   "OP_BEGIN_SPAWN", "OP_SPAWN", "OP_END_TASK",
   "OP_BEGIN_ATOMIC_PRINT", "OP_END_ATOMIC_PRINT", "OP_BAD"}

\* struct INSTRUCTION: the union of operands is the one field arg.
INSTRUCTION == [op : Opcodes, arg : Int]

\* Operand-stack words an instruction reads or removes, and words it adds.
\* OP_JOIN and OP_WAIT_JUMP also read the child pointers below; their number
\* is known only when the instruction runs.
Pops(op) ==
  CASE op \in BinaryOps -> 2
    [] op \in UnaryOps \union CondJumps \union TestJumps
              \union {"OP_POP_INT", "OP_PRINT_INT", "OP_SLEEP", "OP_WAIT_JUMP"} -> 1
    [] OTHER -> 0

Pushes(op) ==
  CASE op = "OP_SPAWN" -> 2
    [] op \in BinaryOps \union UnaryOps \union TestJumps
              \union {"OP_PUSH_CONST_INT", "OP_PUSH_VAR"} -> 1
    [] OTHER -> 0

\* Where control may go from address a.
Successors(code, a) ==
  CASE code[a].op = "OP_JUMP" -> {code[a].arg}
    [] code[a].op \in CondJumps \union TestJumps \union {"OP_WAIT_JUMP"}
         -> {code[a].arg, a + 1}
    [] code[a].op \in {"OP_END_TASK", "OP_BAD"} -> {}
    [] OTHER -> {a + 1}

\* Addresses at which a task may start: the init block and every operand of
\* an OP_SPAWN.
Entries(code) ==
  {0} \union {code[a].arg : a \in {b \in DOMAIN code : code[b].op = "OP_SPAWN"}}

\* Control never leaves the code block.
ClosedCode(code) ==
  /\ Entries(code) \subseteq DOMAIN code
  /\ \A a \in DOMAIN code : Successors(code, a) \subseteq DOMAIN code

\* The number of tasks of the spawn statement that the OP_JOIN or OP_WAIT_JUMP
\* at address a ends: operand of the last OP_BEGIN_SPAWN before it.
SpawnCount(code, a) ==
  LET begins == {b \in DOMAIN code : b < a /\ code[b].op = "OP_BEGIN_SPAWN"}
  IN  IF begins = {} THEN 0
      ELSE code[CHOOSE b \in begins : \A d \in begins : d <= b].arg

\* Change of the operand stack's depth when control goes from a to s.
DepthChange(code, a, s) ==
  CASE code[a].op \in TestJumps /\ s = code[a].arg -> 0
    [] code[a].op \in TestJumps /\ s # code[a].arg -> -1
    [] code[a].op \in {"OP_JOIN", "OP_WAIT_JUMP"} ->
         -Pops(code[a].op) - 2 * SpawnCount(code, a)
    [] OTHER -> Pushes(code[a].op) - Pops(code[a].op)

\* D is the depth of the operand stack at each address: empty where a task
\* starts, and the same along every way to an address.  (A test jump to the
\* next address would leave two depths there.)
DepthOf(code, D) ==
  /\ D \in [DOMAIN code -> Nat]
  /\ \A a \in Entries(code) : D[a] = 0
  /\ \A a \in DOMAIN code :
       /\ D[a] >= Pops(code[a].op)
       /\ code[a].op \in TestJumps => code[a].arg # a + 1
       /\ \A s \in Successors(code, a) : D[s] = D[a] + DepthChange(code, a, s)

\* Code without 'wait', whose spawn statements are unbroken: between an
\* OP_BEGIN_SPAWN, which finds the stack empty, and its OP_JOIN there is nothing
\* but as many OP_SPAWNs as it announces, and no way in or out.
JoinsEverySpawn(code, D) ==
  LET Inside(a) == code[a].op \in {"OP_SPAWN", "OP_JOIN"}
  IN  /\ \A a \in DOMAIN code : code[a].op # "OP_WAIT_JUMP"
      /\ \A a \in Entries(code) : ~Inside(a)
      /\ \A a \in DOMAIN code : \A s \in Successors(code, a) :
           /\ Inside(s) => code[a].op \in {"OP_BEGIN_SPAWN", "OP_SPAWN"}
           /\ code[a].op = "OP_SPAWN" => Inside(s)
      /\ \A a \in DOMAIN code :
           /\ code[a].op = "OP_BEGIN_SPAWN" => D[a] = 0
           /\ code[a].op = "OP_JOIN" => D[a] = 2 * SpawnCount(code, a)

\* A spawn statement is the code from an OP_BEGIN_SPAWN to the next OP_JOIN or
\* OP_WAIT_JUMP.  Inside it the operand stack holds the addresses of the tasks
\* spawned so far; h is their number, and Outside where there is no statement.
Outside == -1

\* How many there are at an address after a, of h at a.
HeldAfter(code, h, a) ==
  CASE code[a].op = "OP_BEGIN_SPAWN" -> 0
    [] code[a].op = "OP_SPAWN" -> h + 1
    [] code[a].op \in {"OP_JOIN", "OP_WAIT_JUMP"} -> Outside
    [] OTHER -> h

\* H is that number at each address, and spawn statements are unbroken: there is
\* no way into one but its OP_BEGIN_SPAWN and no way out but its end, nothing in
\* it assigns, sleeps or takes an address from the stack, it spawns as many
\* tasks as it announces, and before an OP_JOIN it does nothing else.
SpawnsUnbroken(code, D, H) ==
  /\ H \in [DOMAIN code -> Nat \union {Outside}]
  /\ \A a \in Entries(code) : H[a] = Outside
  /\ \A a \in DOMAIN code : \A s \in Successors(code, a) :
       /\ H[s] = HeldAfter(code, H[a], a)
       /\ H[a] # Outside /\ H[s] # Outside => SpawnCount(code, s) = SpawnCount(code, a)
       /\ code[s].op \in {"OP_SPAWN", "OP_JOIN"} => code[a].op \in {"OP_BEGIN_SPAWN", "OP_SPAWN"}
  /\ \A a \in DOMAIN code :
       IF H[a] = Outside
         THEN code[a].op \notin {"OP_SPAWN", "OP_JOIN", "OP_WAIT_JUMP"}
         ELSE /\ code[a].op \notin {"OP_BEGIN_SPAWN", "OP_POP_INT", "OP_SLEEP", "OP_END_TASK"}
              /\ D[a] - Pops(code[a].op) >= 2 * H[a]
              /\ code[a].op \in {"OP_SPAWN", "OP_JOIN", "OP_WAIT_JUMP"} =>
                   D[a] - Pops(code[a].op) = 2 * H[a]
              /\ code[a].op \in {"OP_JOIN", "OP_WAIT_JUMP"} => H[a] = SpawnCount(code, a)

\* Address a is in a spawn statement that ends with OP_JOIN, after its
\* OP_BEGIN_SPAWN.
JoinedAt(code, a) ==
  \E b \in DOMAIN code :
    a <= b /\ code[b].op = "OP_JOIN" /\ \A d \in a..b-1 : code[d].op = "OP_SPAWN"

\* J is code that no other code leads into or out of, it never waits, and every
\* task that is joined runs in it.
JoinedNeverWait(code, J) ==
  /\ J \subseteq DOMAIN code
  /\ \A a \in J : code[a].op # "OP_WAIT_JUMP"
  /\ \A a \in DOMAIN code : \A s \in Successors(code, a) : a \in J <=> s \in J
  /\ \A a \in DOMAIN code : code[a].op = "OP_SPAWN" /\ JoinedAt(code, a) => code[a].arg \in J

\* R is the set of addresses strictly inside 'print' statements: entered only
\* through OP_BEGIN_ATOMIC_PRINT, left only through OP_END_ATOMIC_PRINT, and
\* nothing inside it blocks, stops or starts a task.  Inside, control runs
\* forward and jumps over no output.
PrintRegionOf(code, R) ==
  /\ Entries(code) \intersect R = {}
  /\ \A a \in DOMAIN code :
       /\ code[a].op = "OP_BEGIN_ATOMIC_PRINT" =>
            a \notin R /\ Successors(code, a) \subseteq R
       /\ code[a].op = "OP_END_ATOMIC_PRINT" =>
            a \in R /\ Successors(code, a) \intersect R = {}
       /\ code[a].op \notin {"OP_BEGIN_ATOMIC_PRINT", "OP_END_ATOMIC_PRINT"} =>
            IF a \in R THEN Successors(code, a) \subseteq R
                       ELSE Successors(code, a) \intersect R = {}
       /\ a \in R =>
            code[a].op \notin BlockingOps
              \union {"OP_BEGIN_SPAWN", "OP_SPAWN", "OP_END_TASK", "OP_BAD"}
       /\ a \in R => \A s \in Successors(code, a) :
            a < s /\ \A d \in DOMAIN code : a < d /\ d < s => code[d].op \notin PrintOps

\* Addresses inside 'print' statements: after a lock, before the next unlock.
RegionOf(code) ==
  {a \in DOMAIN code :
     \E b \in DOMAIN code :
       /\ b < a /\ code[b].op = "OP_BEGIN_ATOMIC_PRINT"
       /\ \A d \in b..a-1 : code[d].op # "OP_END_ATOMIC_PRINT"}

\* The depth of the operand stack at each address: what the first way to it
\* leaves, and zero where no code before it leads there.
DepthsOf(code) ==
  LET D[a \in DOMAIN code] ==
        LET before == {b \in 0..a-1 : a \in Successors(code, b)}
        IN  IF before = {} \/ a \in Entries(code) THEN 0
            ELSE LET b == CHOOSE b \in before : TRUE
                 IN  D[b] + DepthChange(code, b, a)
  IN  D

\* The number of children's addresses at each address, likewise.
HeldsOf(code) ==
  LET H[a \in DOMAIN code] ==
        LET before == {b \in 0..a-1 : a \in Successors(code, b)}
        IN  IF before = {} \/ a \in Entries(code) THEN Outside
            ELSE LET b == CHOOSE b \in before : TRUE
                 IN  HeldAfter(code, H[b], b)
  IN  H

\* The code of the tasks that are joined: where they start, and everything that
\* leads there or can be reached from there.
JoinedCodeOf(code) ==
  LET starts == {code[a].arg : a \in {b \in DOMAIN code :
                   code[b].op = "OP_SPAWN" /\ JoinedAt(code, b)}}
      Grown[k \in Nat] ==
        IF k = 0 THEN starts
        ELSE LET J == Grown[k - 1]
             IN  J \union UNION {Successors(code, a) : a \in J}
                   \union {a \in DOMAIN code : Successors(code, a) \intersect J # {}}
      last == CHOOSE k \in DOMAIN code : \A a \in DOMAIN code : a <= k
  IN  Grown[last]
=============================================================================
