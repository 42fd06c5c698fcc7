------------------------------ MODULE Language ------------------------------
(***************************************************************************)
(* The mini-pogo language, told without a scanner or a parser: which parts *)
(* of a text are lexical units, which sequences of units are sentences,    *)
(* and which trees a sentence has.  Module Parse is compared with it.      *)
(*                                                                         *)
(* There are three grammars.  Documented is that of the comments above the *)
(* functions of parse.c, HeadGrammar that of the comment at its head,      *)
(* which writes the periods of 'sleep' and 'wait' in another way.  Widened *)
(* allows, beyond Documented, what the code is lenient about, and gives it *)
(* a tree.                                                                 *)
(***************************************************************************)
EXTENDS Parse, FiniteSetsExt, TLC

(* Lexical units. *)

Symbols == {":=", "=", ">=", ">", "<=", "<", "(", ")", "+", "-", "*", "/", "%", ";", ","}

\* The k-th character of w follows an odd number of backslashes.
Escaped(w, k) ==
  \E j \in 1..k-1 :
    /\ (k - j) % 2 = 1
    /\ \A i \in j..k-1 : CharAt(w, i) = "\\"
    /\ j = 1 \/ CharAt(w, j - 1) # "\\"

Quoted(w, quote) ==
  /\ Len(w) >= 2 /\ CharAt(w, 1) = quote
  /\ \A k \in 2..Len(w) : CharAt(w, k) = quote /\ ~Escaped(w, k) <=> k = Len(w)

IsString(w) == Quoted(w, "\"")
IsChar(w)   == /\ CharAt(w, 1) = "'" /\ CharAt(w, Len(w)) = "'"
               /\ \/ Len(w) = 3 /\ CharAt(w, 2) \notin {"'", "\\"}
                  \/ Len(w) = 4 /\ CharAt(w, 2) = "\\"
IsNumber(w) == \A k \in 1..Len(w) : CharAt(w, k) \in Digits
IsName(w)   == CharAt(w, 1) \in Alpha /\ \A k \in 2..Len(w) : CharAt(w, k) \in Name
IsUnit(w, symbols) == IsString(w) \/ IsChar(w) \/ IsNumber(w) \/ IsName(w) \/ w \in symbols

\* What the characters 2 to k of a quoted constant stand for.
Contents(w, k) ==
  LET f[j \in 1..k] ==
        IF j = 1 THEN ""
        ELSE f[j - 1] \o
             CASE ~Escaped(w, j) /\ CharAt(w, j) = "\\" -> ""
               [] Escaped(w, j) /\ CharAt(w, j) = "n" -> "\n"
               [] Escaped(w, j) /\ CharAt(w, j) = "t" -> "\t"
               [] OTHER -> CharAt(w, j)
  IN  f[k]

NumberOf(w) ==
  Wrap(MapThenSumSet(LAMBDA k : (Place(CharAt(w, k), Digit) - 1) * 10^(Len(w) - k), 1..Len(w)))

UnitOf(w) ==
  LET name == Truncated(Lowered(w), MaxStr - 1)
  IN  CASE IsString(w) -> [type |-> "LX_STRING", val |-> Truncated(Contents(w, Len(w) - 1), MaxStr)]
        [] IsChar(w)   -> [type |-> "LX_CHAR", val |-> Ord(Contents(w, Len(w) - 1))]
        [] IsNumber(w) -> [type |-> "LX_NUMBER", val |-> NumberOf(w)]
        [] IsName(w) /\ name \in DOMAIN Keywords -> [type |-> Keywords[name], val |-> ""]
        [] IsName(w) /\ name \notin DOMAIN Keywords -> [type |-> "LX_IDENTIFIER", val |-> name]
        [] w = "!="    -> [type |-> "LX_NE_SYM", val |-> ""]
        [] OTHER       -> [type |-> SymbolType(w), val |-> ""]

\* The places of the units of text, from place p on: each as long as it can
\* be, with blanks and comments between them.  <<p, 0>> ends the list where
\* neither a unit nor a blank nor a finished comment begins.
RECURSIVE Cuts(_, _, _)
Cuts(text, p, symbols) ==
  LET units    == {q \in p..Len(text) : IsUnit(SubSeq(text, p, q), symbols)}
      newlines == {q \in p..Len(text) : CharAt(text, q) = "\n"}
  IN  CASE p > Len(text) -> <<>>
        [] CharAt(text, p) \in Blank -> Cuts(text, p + 1, symbols)
        [] CharAt(text, p) \notin Blank /\ units # {} ->
             <<<<p, Max(units)>>>> \o Cuts(text, Max(units) + 1, symbols)
        [] units = {} /\ CharAt(text, p) = "!" /\ newlines # {} ->
             Cuts(text, Min(newlines) + 1, symbols)
        [] OTHER -> <<<<p, 0>>>>

\* The whole text consists of units, blanks and comments.
WellSpelled(text, symbols) ==
  LET cuts == Cuts(text, 1, symbols) IN \A k \in DOMAIN cuts : cuts[k][2] # 0

UnitsOf(text, symbols) ==
  LET cuts == Cuts(text, 1, symbols)
  IN  [k \in DOMAIN cuts |-> UnitOf(SubSeq(text, cuts[k][1], cuts[k][2]))]

\* Where place p of text is: the newlines before it, and the characters after
\* the last of them.
LineAt(text, p)   == Cardinality({q \in 1..p-1 : CharAt(text, q) = "\n"})
ColumnAt(text, p) == p - 1 - Max({0} \union {q \in 1..p-1 : CharAt(text, q) = "\n"})

-----------------------------------------------------------------------------
(* Sentences: the productions of each phrase.  A part that is no phrase is  *)
(* a unit, or an identifier that is spelled like the part.                  *)

\* The comments above the functions of parse.c, with print-statement added to
\* the statements and or-expression for expression where a truth value may be.
Documented ==
  [module     |-> {<<"LX_MODULE_KW", "LX_IDENTIFIER", "semicolon", "LX_INIT_KW", "sequence",
                     "LX_END_KW", "LX_SEMICOLON_SYM", "tasks", "LX_END_KW">>},
   semicolon  |-> {<<>>, <<"LX_SEMICOLON_SYM">>},
   tasks      |-> {<<>>, <<"LX_TASK_KW", "LX_IDENTIFIER", "semicolon", "sequence",
                           "LX_END_KW", "LX_SEMICOLON_SYM", "tasks">>},
   sequence   |-> {<<"statements">>},
   statements |-> {<<>>, <<"statement", "LX_SEMICOLON_SYM", "statements">>},
   statement  |-> {<<"LX_STOP_KW">>, <<"LX_PRINT_CHAR_KW", "LX_CHAR">>, <<"LX_PRINT_INT_KW", "or">>,
                   <<"LX_SLEEP_KW", "period">>, <<"LX_PRINT_KW", "items">>,
                   <<"LX_IDENTIFIER", "LX_ASSIGN_SYM", "or">>,
                   <<"LX_IF_KW", "or", "LX_THEN_KW", "sequence", "LX_END_KW">>,
                   <<"LX_IF_KW", "or", "LX_THEN_KW", "sequence",
                     "LX_ELSE_KW", "sequence", "LX_END_KW">>,
                   <<"LX_WHILE_KW", "or", "LX_DO_KW", "sequence", "LX_END_KW">>,
                   <<"LX_SPAWN_KW", "names", "LX_JOIN_KW">>,
                   <<"LX_SPAWN_KW", "names", "LX_JOIN_KW",
                     "LX_WAIT_KW", "period", "LX_TIMEOUT_KW", "sequence", "LX_END_KW">>,
                   <<"LX_SPAWN_KW", "names", "LX_JOIN_KW", "LX_WAIT_KW", "period",
                     "LX_TIMEOUT_KW", "sequence", "LX_ELSE_KW", "sequence", "LX_END_KW">>},
   period     |-> {<<"or">>},
   names      |-> {<<"LX_IDENTIFIER", "LX_SEMICOLON_SYM">>,
                   <<"LX_IDENTIFIER", "LX_SEMICOLON_SYM", "names">>},
   items      |-> {<<"item">>, <<"item", "LX_COMMA_SYM", "items">>},
   item       |-> {<<"LX_STRING">>, <<"or">>},
   or         |-> {<<"and">>, <<"or", "LX_OR_KW", "and">>},
   and        |-> {<<"not">>, <<"and", "LX_AND_KW", "comparison">>},
   not        |-> {<<"comparison">>, <<"LX_NOT_KW", "comparison">>},
   comparison |-> {<<"sum">>} \union {<<"sum", op, "sum">> : op \in DOMAIN Comparisons},
   sum        |-> {<<"signed">>} \union {<<"sum", op, "term">> : op \in DOMAIN Operators.expression},
   signed     |-> {<<"term">>, <<"LX_MINUS_SYM", "term">>, <<"LX_PLUS_SYM", "term">>},
   term       |-> {<<"factor">>} \union {<<"term", op, "factor">> : op \in DOMAIN Operators.term},
   factor     |-> {<<"LX_IDENTIFIER">>, <<"LX_NUMBER">>, <<"LX_LPAREN_SYM", "or", "LX_RPAREN_SYM">>}]

\* The comment at the head of parse.c.
HeadGrammar ==
  [module    |-> {<<"LX_MODULE_KW", "LX_IDENTIFIER", "LX_INIT_KW", "sequence",
                    "LX_END_KW", "LX_SEMICOLON_SYM", "tasks", "LX_END_KW">>},
   tasks     |-> {<<>>, <<"LX_TASK_KW", "LX_IDENTIFIER", "sequence", "LX_END_KW", "tasks">>},
   period    |-> {<<"time_unit", "LX_LPAREN_SYM", "or", "LX_RPAREN_SYM">>},
   time_unit |-> {<<"hr">>, <<"min">>, <<"sec">>, <<"millisec">>}] @@ Documented

\* Any number of signs and 'not's, empty statements, fewer or more ';'.
Widened ==
  [module    |-> {<<"LX_MODULE_KW", "LX_IDENTIFIER", "semicolon", "LX_INIT_KW", "sequence",
                    "LX_END_KW", "semicolon", "tasks", "LX_END_KW", "semicolon">>},
   tasks     |-> {<<>>, <<"LX_TASK_KW", "semicolon", "LX_IDENTIFIER", "sequence",
                          "LX_END_KW", "semicolon", "tasks">>},
   statement |-> {<<>>} \union Documented.statement,
   not       |-> {<<"comparison">>, <<"LX_NOT_KW", "not">>},
   signed    |-> {<<"term">>, <<"LX_MINUS_SYM", "signed">>, <<"LX_PLUS_SYM", "signed">>}] @@ Documented

Phrases == DOMAIN HeadGrammar

Matches(unit, part) ==
  unit.type = part \/ (unit.type = "LX_IDENTIFIER" /\ unit.val = part)

\* The lengths that the phrase at the head of parts can have in the units u:
\* all of u if it is the last, up to the next part if that is a unit.
Lengths(parts, u) ==
  CASE Head(parts) = "semicolon" -> {0, 1} \intersect 0..Len(u)
    [] Head(parts) # "semicolon" /\ Len(parts) = 1 -> {Len(u)}
    [] Len(parts) > 1 /\ parts[2] \notin Phrases ->
         {k - 1 : k \in {j \in DOMAIN u : Matches(u[j], parts[2])}}
    [] OTHER -> 0..Len(u)

\* The grammar derives the units u from the phrase, and from such parts.
RECURSIVE Derives(_, _, _), DerivesAll(_, _, _)
Derives(grammar, phrase, u) ==
  \E parts \in grammar[phrase] : DerivesAll(grammar, parts, u)

DerivesAll(grammar, parts, u) ==
  CASE parts = <<>> -> u = <<>>
    [] parts # <<>> /\ Head(parts) \notin Phrases ->
         /\ u # <<>> /\ Matches(Head(u), Head(parts))
         /\ DerivesAll(grammar, Tail(parts), Tail(u))
    [] OTHER ->
         \E k \in Lengths(parts, u) :
           /\ Derives(grammar, Head(parts), SubSeq(u, 1, k))
           /\ DerivesAll(grammar, Tail(parts), SubSeq(u, k + 1, Len(u)))

-----------------------------------------------------------------------------
(* Trees: the tree that a phrase has whose parts have the trees kids.       *)

BinaryNode ==
  Comparisons @@ Operators.term @@ Operators.expression @@ Operators.and @@ Operators.or

\* A phrase 'not' or 'signed' is a pair: its operand, and whether it is turned.
Plain(pair, Node(_)) == IF pair[2] THEN Node(pair[1]) ELSE pair[1]

StatementTree(kids) ==
  IF kids = <<>> THEN NoNode
  ELSE LET type == kids[1].type
           Else(k) == IF Len(kids) > k THEN kids[k + 1] ELSE NoNode
       IN  CASE type = "LX_STOP_KW"       -> Stop
             [] type = "LX_PRINT_CHAR_KW" -> PrintChar(kids[2].val)
             [] type = "LX_PRINT_INT_KW"  -> PrintExpr(kids[2])
             [] type = "LX_SLEEP_KW"      -> Sleep(kids[2])
             [] type = "LX_PRINT_KW"      -> AtomicPrint(kids[2])
             [] type = "LX_IDENTIFIER"    -> Assign(VarOf(kids[1].val), kids[3])
             [] type = "LX_IF_KW"         -> IfElse(kids[2], kids[4], Else(5))
             [] type = "LX_WHILE_KW"      -> While(kids[2], kids[4])
             [] type = "LX_SPAWN_KW" /\ Len(kids) = 3 -> SpawnJoin(kids[2])
             [] OTHER -> SpawnWaitElse(kids[2], kids[5], kids[7], Else(8))

TreeOf(phrase, kids) ==
  LET n == Len(kids)
  IN  CASE phrase = "module"    -> Module(kids[2].val, kids[5], kids[8])
        [] phrase = "sequence"  -> Do(kids[1])
        [] phrase = "statement" -> StatementTree(kids)
        [] phrase = "semicolon" -> NoNode
        [] phrase = "tasks"     -> IF n = 0 THEN <<>> ELSE <<Task(kids[3].val, kids[4])>> \o kids[7]
        [] phrase = "names"     -> <<kids[1].val>> \o (IF n = 3 THEN kids[3] ELSE <<>>)
        [] phrase \in {"statements", "items"} /\ n = 0 -> <<>>
        [] phrase \in {"statements", "items"} /\ n = 1 -> kids
        [] phrase \in {"statements", "items"} /\ n = 3 -> <<kids[1]>> \o kids[3]
        [] phrase = "item"  -> IF "type" \in DOMAIN kids[1] THEN String(kids[1].val) ELSE PrintExpr(kids[1])
        [] phrase \in {"not", "signed"} /\ n = 1 -> <<kids[1], FALSE>>
        [] phrase \in {"not", "signed"} /\ n = 2 -> <<kids[2][1], kids[2][2] # (Signs @@ Nots)[kids[1].type]>>
        [] phrase = "and" /\ n = 1 -> Plain(kids[1], Not)
        [] phrase = "sum" /\ n = 1 -> Plain(kids[1], Negate)
        [] phrase = "factor" /\ n = 1 ->
             IF kids[1].type = "LX_NUMBER" THEN Number(kids[1].val) ELSE Variable(VarOf(kids[1].val))
        [] phrase = "factor" /\ n = 3 -> kids[2]
        [] phrase \in {"period", "or", "comparison", "term"} /\ n = 1 -> kids[1]
        [] OTHER -> Bin(BinaryNode[kids[2].type], kids[1], kids[3])

\* All trees of the units u as a phrase of Widened, and all lists of trees as such parts.
RECURSIVE Trees(_, _), Fits(_, _)
Trees(phrase, u) ==
  UNION {{TreeOf(phrase, kids) : kids \in Fits(parts, u)} : parts \in Widened[phrase]}

Fits(parts, u) ==
  CASE parts = <<>> -> IF u = <<>> THEN {<<>>} ELSE {}
    [] parts # <<>> /\ Head(parts) \notin Phrases ->
         IF u = <<>> \/ ~Matches(Head(u), Head(parts)) THEN {}
         ELSE {<<Head(u)>> \o kids : kids \in Fits(Tail(parts), Tail(u))}
    [] OTHER ->
         UNION {UNION {{<<tree>> \o kids : kids \in Fits(Tail(parts), SubSeq(u, k + 1, Len(u)))} :
                       tree \in Trees(Head(parts), SubSeq(u, 1, k))} :
                k \in Lengths(parts, u)}
=============================================================================
