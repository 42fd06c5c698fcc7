----------------------------- MODULE ParseTree ------------------------------
(***************************************************************************)
(* Parse nodes (struct PARSE_NODE, parse.h): records whose field nd is the *)
(* node's type and whose other fields are the members of the C union that  *)
(* this type uses.  A list is a sequence.  The source positions are left   *)
(* out: parse_print_tree prints them and nothing else reads them.          *)
(***************************************************************************)

\* NULL.
NoNode == [nd |-> "NULL"]

Module(name, init, tasks) ==
  [nd |-> "ND_MODULE_DECLARATION", name |-> name, init |-> init, tasks |-> tasks]
Task(name, body)  == [nd |-> "ND_TASK_DECLARATION", name |-> name, body |-> body]
Do(seq)           == [nd |-> "ND_STATEMENT_SEQUENCE", seq |-> seq]
Assign(v, e)      == [nd |-> "ND_ASSIGN", var |-> v, expr |-> e]
IfElse(e, s1, s2) == [nd |-> "ND_IF", test |-> e, then |-> s1, else |-> s2]
If(e, s)          == IfElse(e, s, NoNode)
While(e, s)       == [nd |-> "ND_WHILE", test |-> e, body |-> s]
Stop              == [nd |-> "ND_STOP"]
Sleep(e)          == [nd |-> "ND_SLEEP", expr |-> e]
PrintExpr(e)      == [nd |-> "ND_PRINT_INT", expr |-> e]
PrintChar(ch)     == [nd |-> "ND_PRINT_CHAR", char |-> ch]
AtomicPrint(items) == [nd |-> "ND_ATOMIC_PRINT", items |-> items]
String(s)         == [nd |-> "ND_PRINT_STRING", string |-> s]
Number(k)         == [nd |-> "ND_NUMBER", number |-> k]
Variable(v)       == [nd |-> "ND_VARIABLE", var |-> v]
Negate(e)         == [nd |-> "ND_NEGATE", expr |-> e]
Not(e)            == [nd |-> "ND_NOT", left |-> e, right |-> NoNode]
Bin(nd, l, r)     == [nd |-> nd, left |-> l, right |-> r]
SpawnWaitElse(names, e, s1, s2) ==
  [nd |-> "ND_SPAWN_JOIN", names |-> names, millisec |-> e,
   timed_out |-> s1, not_timed_out |-> s2]
SpawnJoin(names)  == SpawnWaitElse(names, NoNode, NoNode, NoNode)
=============================================================================
