------------------------------- MODULE Parse --------------------------------
(***************************************************************************)
(* The parser (parse.c).  Every parse_* function is an operator from a     *)
(* scanner state, whose unit is the one looked at, to the node it returns  *)
(* and the scanner after it.  error_exit leaves the program: the unit      *)
(* becomes "EXIT", which no rule accepts and lex_scan does not replace.    *)
(*                                                                         *)
(* The functions call each other, and lex_scan, by name through Call.      *)
(***************************************************************************)
EXTENDS Lex, ParseTree

RECURSIVE Call(_, _)

Advance(s) == Call("lex_scan", s)

Got(node, s) == [node |-> node, s |-> s]

error_exit(s) == IF Over(s) THEN s ELSE [s EXCEPT !.type = "EXIT"]

\* parse_expect(type, false) and parse_expect(type, true).
Expected(s, type)     == IF s.type = type THEN s ELSE error_exit(s)
parse_expect(s, type) == Advance(Expected(s, type))
parse_optional(s, type) == IF s.type = type THEN Advance(s) ELSE s

\* A variable is the first letter of its name: 0 is 'A'.
VarOf(name) == Place(CharAt(name, 1), Small) - 1

\* The operators between the operands of each level of left-associative rules.
Operators ==
  [term       |-> [LX_TIMES_SYM |-> "ND_MULTIPLY", LX_DIVIDE_SYM |-> "ND_DIVIDE",
                   LX_REMAINDER_SYM |-> "ND_REMAINDER"],
   expression |-> [LX_PLUS_SYM |-> "ND_ADD", LX_MINUS_SYM |-> "ND_SUBTRACT"],
   and        |-> [LX_AND_KW |-> "ND_AND"],
   or         |-> [LX_OR_KW |-> "ND_OR"]]

Comparisons ==
  [LX_EQ_SYM |-> "ND_EQ", LX_NE_SYM |-> "ND_NE", LX_GE_SYM |-> "ND_GE",
   LX_GT_SYM |-> "ND_GT", LX_LT_SYM |-> "ND_LT", LX_LE_SYM |-> "ND_LE"]

\* The units that are skipped in front of an operand, and whether each turns
\* the operand's sign or truth around.
Signs == [LX_MINUS_SYM |-> TRUE, LX_PLUS_SYM |-> FALSE]
Nots  == [LX_NOT_KW |-> TRUE]

RECURSIVE Turned(_, _, _), AfterPrefix(_, _)
Turned(s, prefixes, odd) ==
  IF s.type \in DOMAIN prefixes
    THEN Turned(Advance(s), prefixes, odd # prefixes[s.type]) ELSE odd
AfterPrefix(s, prefixes) ==
  IF s.type \in DOMAIN prefixes THEN AfterPrefix(Advance(s), prefixes) ELSE s

-----------------------------------------------------------------------------
RECURSIVE Chain(_, _)

parse_factor(s) ==
  LET inner == Call("parse_or_expression", Advance(s))
  IN  CASE s.type = "LX_IDENTIFIER" -> Got(Variable(VarOf(s.val)), Advance(s))
        [] s.type = "LX_NUMBER"     -> Got(Number(s.val), Advance(s))
        [] s.type = "LX_LPAREN_SYM" -> Got(inner.node, parse_expect(inner.s, "LX_RPAREN_SYM"))
        [] OTHER -> Got(NoNode, error_exit(s))

Operand ==
  [term |-> "parse_factor", expression |-> "parse_term",
   and |-> "parse_comparison_expression", or |-> "parse_and_expression"]

\* The loop of each level: what has been read becomes the left operand.
Chain(level, left) ==
  IF left.s.type \notin DOMAIN Operators[level] THEN left
  ELSE LET right == Call(Operand[level], Advance(left.s))
       IN  Chain(level, Got(Bin(Operators[level][left.s.type], left.node, right.node), right.s))

parse_term(s) == Chain("term", Call("parse_factor", s))

parse_expression_SignsAll(s) ==
  LET sum == Chain("expression", Call("parse_term", AfterPrefix(s, Signs)))
  IN  IF Turned(s, Signs, FALSE) THEN Got(Negate(sum.node), sum.s) ELSE sum

parse_expression(s) ==
  LET term == Call("parse_term", AfterPrefix(s, Signs))
  IN  Chain("expression",
            IF Turned(s, Signs, FALSE) THEN Got(Negate(term.node), term.s) ELSE term)

parse_comparison_expression(s) ==
  LET left  == Call("parse_expression", s)
      right == Call("parse_expression", Advance(left.s))
  IN  IF left.s.type \in DOMAIN Comparisons
        THEN Got(Bin(Comparisons[left.s.type], left.node, right.node), right.s)
        ELSE left

parse_and_expression(s) ==
  LET operand == Call("parse_comparison_expression", AfterPrefix(s, Nots))
  IN  Chain("and", IF Turned(s, Nots, FALSE) THEN Got(Not(operand.node), operand.s) ELSE operand)

parse_or_expression(s) == Chain("or", Call("parse_and_expression", s))

-----------------------------------------------------------------------------
RECURSIVE Statements(_, _)

\* A statement that none of the keywords starts is empty: NULL.
Statements(s, list) ==
  IF Over(s) \/ s.type \in {"LX_ELSE_KW", "LX_END_KW"} THEN Got(Do(list), s)
  ELSE LET one == Call("parse_statement", s)
       IN  Statements(parse_expect(one.s, "LX_SEMICOLON_SYM"), Append(list, one.node))

parse_statement_sequence(s) == Statements(s, <<>>)

\* ['else' statement-sequence] 'end'
ElsePart(s) ==
  LET else == IF s.type = "LX_ELSE_KW" THEN Call("parse_statement_sequence", Advance(s))
                                       ELSE Got(NoNode, s)
  IN  Got(else.node, parse_expect(else.s, "LX_END_KW"))

parse_assignment(s) ==
  LET e == Call("parse_or_expression", parse_expect(Advance(s), "LX_ASSIGN_SYM"))
  IN  Got(Assign(VarOf(s.val), e.node), e.s)

parse_if(s) ==
  LET test == Call("parse_or_expression", Advance(s))
      then == Call("parse_statement_sequence", parse_expect(test.s, "LX_THEN_KW"))
      else == ElsePart(then.s)
  IN  Got(IfElse(test.node, then.node, else.node), else.s)

parse_while(s) ==
  LET test == Call("parse_or_expression", Advance(s))
      body == Call("parse_statement_sequence", parse_expect(test.s, "LX_DO_KW"))
  IN  Got(While(test.node, body.node), parse_expect(body.s, "LX_END_KW"))

\* (name ';')+ up to 'join', which is skipped.  The list is returned as node.
RECURSIVE TaskNames(_, _)
TaskNames(s, names) ==
  LET next == parse_expect(Advance(Expected(s, "LX_IDENTIFIER")), "LX_SEMICOLON_SYM")
      list == Append(names, s.val)
  IN  IF Over(next) \/ next.type = "LX_JOIN_KW" THEN Got(list, Advance(next))
      ELSE TaskNames(next, list)

\* The members that are not set without 'wait' are NULL in the modelled
\* outcome: the code reads them before it sets them.
parse_spawn(s) ==
  LET names == TaskNames(Advance(s), <<>>)
      wait  == Call("parse_or_expression", Advance(names.s))
      late  == Call("parse_statement_sequence", parse_expect(wait.s, "LX_TIMEOUT_KW"))
      else  == ElsePart(late.s)
  IN  IF names.s.type # "LX_WAIT_KW" THEN Got(SpawnJoin(names.node), names.s)
      ELSE Got(SpawnWaitElse(names.node, wait.node, late.node, else.node), else.s)

parse_print_char(s) ==
  LET char == Expected(Advance(s), "LX_CHAR")
  IN  Got(PrintChar(char.val), Advance(char))

parse_print_int(s) ==
  LET e == Call("parse_or_expression", Advance(s)) IN Got(PrintExpr(e.node), e.s)

parse_sleep(s) ==
  LET e == Call("parse_or_expression", Advance(s)) IN Got(Sleep(e.node), e.s)

RECURSIVE PrintItems(_, _)
PrintItems(s, items) ==
  LET e    == Call("parse_or_expression", s)
      item == IF s.type = "LX_STRING" THEN Got(String(s.val), Advance(s))
                                      ELSE Got(PrintExpr(e.node), e.s)
      list == Append(items, item.node)
  IN  IF item.s.type = "LX_COMMA_SYM" THEN PrintItems(Advance(item.s), list)
      ELSE Got(AtomicPrint(list), item.s)

parse_print(s) == PrintItems(Advance(s), <<>>)

parse_statement(s) ==
  CASE s.type = "LX_PRINT_KW"      -> parse_print(s)
    [] s.type = "LX_IDENTIFIER"    -> parse_assignment(s)
    [] s.type = "LX_IF_KW"         -> parse_if(s)
    [] s.type = "LX_WHILE_KW"      -> parse_while(s)
    [] s.type = "LX_SPAWN_KW"      -> parse_spawn(s)
    [] s.type = "LX_STOP_KW"       -> Got(Stop, Advance(s))
    [] s.type = "LX_PRINT_INT_KW"  -> parse_print_int(s)
    [] s.type = "LX_SLEEP_KW"      -> parse_sleep(s)
    [] s.type = "LX_PRINT_CHAR_KW" -> parse_print_char(s)
    [] OTHER -> Got(NoNode, s)

parse_task_declaration(s) ==
  LET name == Expected(parse_optional(parse_expect(s, "LX_TASK_KW"), "LX_SEMICOLON_SYM"),
                       "LX_IDENTIFIER")
      body == Call("parse_statement_sequence", Advance(name))
  IN  Got(Task(name.val, body.node), parse_expect(body.s, "LX_END_KW"))

\* The declarations up to the 'end' of the module; the list is returned as node.
RECURSIVE TaskDeclarations(_, _)
TaskDeclarations(s, tasks) ==
  IF Over(s) \/ s.type = "LX_END_KW" THEN Got(tasks, s)
  ELSE LET task == Call("parse_task_declaration", s)
       IN  TaskDeclarations(parse_optional(task.s, "LX_SEMICOLON_SYM"), Append(tasks, task.node))

parse_module_declaration(s) ==
  LET name  == Expected(parse_expect(s, "LX_MODULE_KW"), "LX_IDENTIFIER")
      init  == Call("parse_statement_sequence",
                 parse_expect(parse_optional(Advance(name), "LX_SEMICOLON_SYM"), "LX_INIT_KW"))
      tasks == TaskDeclarations(
                 parse_optional(parse_expect(init.s, "LX_END_KW"), "LX_SEMICOLON_SYM"), <<>>)
  IN  Got(Module(name.val, init.node, tasks.node),
          parse_optional(Advance(tasks.s), "LX_SEMICOLON_SYM"))

Call(function, s) ==
  CASE function = "lex_scan"                    -> lex_scan(s)
    [] function = "parse_factor"                -> parse_factor(s)
    [] function = "parse_term"                  -> parse_term(s)
    [] function = "parse_expression"            -> parse_expression(s)
    [] function = "parse_comparison_expression" -> parse_comparison_expression(s)
    [] function = "parse_and_expression"        -> parse_and_expression(s)
    [] function = "parse_or_expression"         -> parse_or_expression(s)
    [] function = "parse_statement_sequence"    -> parse_statement_sequence(s)
    [] function = "parse_statement"             -> parse_statement(s)
    [] function = "parse_task_declaration"      -> parse_task_declaration(s)
    [] function = "parse_module_declaration"    -> parse_module_declaration(s)

Whole(module) == Got(module.node, Expected(module.s, "LX_EOF"))

parse(s) == Whole(Call("parse_module_declaration", Advance(s)))
=============================================================================
