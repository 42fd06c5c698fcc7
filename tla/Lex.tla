-------------------------------- MODULE Lex ---------------------------------
(***************************************************************************)
(* The lexical analyser (lex.c) on the text of one file.  Its file-level   *)
(* variables are the fields of one record, the scanner state s: the text   *)
(* and the place file_input has reached in it, g_input_line_n and          *)
(* g_input_column_n, and g_current_lex_unit, whose union (l_name,          *)
(* l_number, l_char, l_string) is the one field val.  Every lex_* function *)
(* that reads is an operator from a scanner state to the next.             *)
(*                                                                         *)
(* The types "HANG" and "EXIT" are not the code's: the program loops for   *)
(* ever in lex_skip_to, or the parser has left it through error_exit.      *)
(***************************************************************************)
EXTENDS Numbers, Sequences

CONSTANT MaxStr  \* MAX_STR

EOF            == "EOF"
CharAt(text, k)    == IF k \in 1..Len(text) THEN SubSeq(text, k, k) ELSE EOF
Chars(text)    == {CharAt(text, k) : k \in 1..Len(text)}
Place(ch, text) ==
  IF ch \in Chars(text) THEN CHOOSE k \in 1..Len(text) : CharAt(text, k) = ch ELSE 0

Small   == "abcdefghijklmnopqrstuvwxyz"
Capital == "ABCDEFGHIJKLMNOPQRSTUVWXYZ"
Digit   == "0123456789"
Digits  == Chars(Digit)
Upper   == Chars(Capital)
Alpha   == Chars(Small) \union Upper
Name    == Alpha \union Digits \union {"_"}
Blank   == Chars(" \t\n\f\r")
Punct   == Chars("!\"#$%&'()*+,-./:;<=>?@[\\]^_{|}~")  \* and the backquote

\* The code of a character that a constant can hold.
Ascii == [space |-> " !\"#$%&'()*+,-./0123456789:;<=>?@ABCDEFGHIJKLMNOPQRSTUVWXYZ[\\]^_",
          a     |-> "abcdefghijklmnopqrstuvwxyz{|}~"]
Ord(ch) ==
  CASE ch = "\n" -> 10
    [] ch = "\t" -> 9
    [] ch \in Chars(Ascii.space) -> 31 + Place(ch, Ascii.space)
    [] ch \in Chars(Ascii.a)     -> 96 + Place(ch, Ascii.a)
    [] OTHER -> 0

tolower(ch) == IF ch \in Upper THEN CharAt(Small, Place(ch, Capital)) ELSE ch

\* The variables before the first file.
LexBoot == [text |-> "", pos |-> 1, line |-> 1, col |-> 1,
            l_line |-> 0, l_col |-> 0, type |-> "LX_KEYWORD_BEGIN", val |-> ""]

\* file_input_init and lex_set_input_function; the line number goes on.
Open(s, text) == [s EXCEPT !.text = text, !.pos = 1]

Over(s) == s.type \in {"HANG", "EXIT"}

\* lex_get_char(true) and lex_get_char(false), with file_input.
PeekChar(s) == CharAt(s.text, s.pos)

GetChar_PastEnd(s) == [s EXCEPT !.pos = @ + 1, !.col = @ + 1]

GetChar_ColumnGoesOn(s) ==
  [s EXCEPT !.pos = IF PeekChar(s) = EOF THEN @ ELSE @ + 1,
            !.line = IF PeekChar(s) = "\n" THEN @ + 1 ELSE @,
            !.col  = @ + 1]

GetChar(s)  ==
  [s EXCEPT !.pos = IF PeekChar(s) = EOF THEN @ ELSE @ + 1,
            !.line = IF PeekChar(s) = "\n" THEN @ + 1 ELSE @,
            !.col  = IF PeekChar(s) = "\n" THEN 1 ELSE @ + 1]

\* The place of the first character from s on that is not in C, and the
\* scanner after the characters before it, none of which is a newline.
SpanEnd(s, C) ==
  CHOOSE k \in s.pos..Len(s.text)+1 :
    /\ CharAt(s.text, k) \notin C
    /\ \A j \in s.pos..k-1 : CharAt(s.text, j) \in C
Skip(s, k) == [s EXCEPT !.pos = k, !.col = @ + k - s.pos]

\* lex_skip_whitespace.  A '!' starts a comment, which lex_skip_to reads up to
\* its newline, without looking for the end of the file.
RECURSIVE lex_skip_whitespace(_)
lex_skip_whitespace(s) ==
  LET newlines == {k \in s.pos..Len(s.text) : CharAt(s.text, k) = "\n"}
      first    == CHOOSE k \in newlines : \A j \in newlines : k <= j
  IN  CASE PeekChar(s) \in Blank -> lex_skip_whitespace(GetChar(s))
        [] PeekChar(s) = "!" -> IF newlines = {} THEN [s EXCEPT !.type = "HANG"]
                            ELSE lex_skip_whitespace(GetChar(Skip(s, first)))
        [] OTHER -> s

\* keyword_to_type_table, which is sorted, so the search finds every entry.
Keywords ==
  [and |-> "LX_AND_KW", do |-> "LX_DO_KW", do_nothing |-> "LX_DO_NOTHING_KW",
   else |-> "LX_ELSE_KW", end |-> "LX_END_KW", if |-> "LX_IF_KW", init |-> "LX_INIT_KW",
   join |-> "LX_JOIN_KW", module |-> "LX_MODULE_KW", not |-> "LX_NOT_KW", or |-> "LX_OR_KW",
   print |-> "LX_PRINT_KW", print_char |-> "LX_PRINT_CHAR_KW",
   print_int |-> "LX_PRINT_INT_KW", sleep |-> "LX_SLEEP_KW", spawn |-> "LX_SPAWN_KW",
   stop |-> "LX_STOP_KW", task |-> "LX_TASK_KW", then |-> "LX_THEN_KW",
   timeout |-> "LX_TIMEOUT_KW", wait |-> "LX_WAIT_KW", while |-> "LX_WHILE_KW"]

RECURSIVE Lowered(_)
Lowered(w) == IF w = "" THEN "" ELSE tolower(CharAt(w, 1)) \o Lowered(SubSeq(w, 2, Len(w)))

Truncated(w, n) == SubSeq(w, 1, IF Len(w) < n THEN Len(w) ELSE n)

lex_scan_identifier_or_keyword(s) ==
  LET k    == SpanEnd(s, Name)
      name == Lowered(Truncated(SubSeq(s.text, s.pos, k - 1), MaxStr - 1))
  IN  [Skip(s, k) EXCEPT
         !.type = IF name \in DOMAIN Keywords THEN Keywords[name] ELSE "LX_IDENTIFIER",
         !.val  = name]

RECURSIVE lex_scan_number(_, _)
lex_scan_number(s, n) ==
  IF PeekChar(s) \in Digits
    THEN lex_scan_number(GetChar(s), Wrap(n * 10 + Place(PeekChar(s), Digit) - 1))
    ELSE [s EXCEPT !.type = "LX_NUMBER", !.val = n]

SymbolType(w) ==
  CASE w = ":=" -> "LX_ASSIGN_SYM"
    [] w = "="  -> "LX_EQ_SYM"
    [] w = ">=" -> "LX_GE_SYM"
    [] w = ">"  -> "LX_GT_SYM"
    [] w = "<=" -> "LX_LE_SYM"
    [] w = "<"  -> "LX_LT_SYM"
    [] w = "("  -> "LX_LPAREN_SYM"
    [] w = ")"  -> "LX_RPAREN_SYM"
    [] w = ";"  -> "LX_SEMICOLON_SYM"
    [] w = ","  -> "LX_COMMA_SYM"
    [] w = "*"  -> "LX_TIMES_SYM"
    [] w = "/"  -> "LX_DIVIDE_SYM"
    [] w = "+"  -> "LX_PLUS_SYM"
    [] w = "-"  -> "LX_MINUS_SYM"
    [] w = "%"  -> "LX_REMAINDER_SYM"
    [] OTHER    -> "LX_ERROR"

lex_scan_symbol_TwoOnly(s) ==
  LET two == PeekChar(s) \in {":", ">"} /\ PeekChar(GetChar(s)) = "="
  IN  [Skip(s, s.pos + (IF two THEN 2 ELSE 1)) EXCEPT
         !.type = SymbolType(SubSeq(s.text, s.pos, s.pos + (IF two THEN 1 ELSE 0)))]

\* Only these three look at the character after them.
lex_scan_symbol(s) ==
  LET two == PeekChar(s) \in {":", ">", "<"} /\ PeekChar(GetChar(s)) = "="
  IN  [Skip(s, s.pos + (IF two THEN 2 ELSE 1)) EXCEPT
         !.type = SymbolType(SubSeq(s.text, s.pos, s.pos + (IF two THEN 1 ELSE 0)))]

\* The character, EOF if the function fails, and the scanner after it.
lex_scan_quoted_char(s) ==
  LET s1     == GetChar(s)
      escape == PeekChar(s) = "\\"
  IN  [ch |-> CASE ~escape -> PeekChar(s)
                [] escape /\ PeekChar(s1) = "n" -> "\n"
                [] escape /\ PeekChar(s1) = "t" -> "\t"
                [] OTHER -> PeekChar(s1),
       s  |-> IF escape THEN GetChar(s1) ELSE s1]

\* The loop of lex_scan_string.  At the end of the file it leaves the type of
\* the unit before.
RECURSIVE StringChars(_)
StringChars_NoEofTest(s) ==
  LET q == lex_scan_quoted_char(s)
  IN  CASE PeekChar(s) = "\"" -> [GetChar(s) EXCEPT !.type = "LX_STRING"]
        [] PeekChar(s) = EOF  -> [s EXCEPT !.type = "HANG"]
        [] OTHER -> StringChars([q.s EXCEPT !.val = Truncated(@ \o q.ch, MaxStr)])

StringChars(s) ==
  LET q == lex_scan_quoted_char(s)
  IN  CASE PeekChar(s) = "\"" -> [GetChar(s) EXCEPT !.type = "LX_STRING"]
        [] PeekChar(s) # "\"" /\ q.ch = EOF -> q.s
        [] OTHER -> StringChars([q.s EXCEPT !.val = Truncated(@ \o q.ch, MaxStr)])

lex_scan_string(s) == StringChars([GetChar(s) EXCEPT !.val = ""])

lex_scan_char_NotSkipped(s) ==
  LET q == lex_scan_quoted_char(GetChar(s))
  IN  CASE PeekChar(GetChar(s)) = "'" -> [s EXCEPT !.type = "LX_CHAR"]
        [] PeekChar(GetChar(s)) # "'" /\ q.ch = EOF -> q.s
        [] OTHER -> [GetChar(q.s) EXCEPT !.type = "LX_CHAR", !.val = Ord(q.ch)]

\* Nothing checks that the character after the constant is a quote.
lex_scan_char(s) ==
  LET q == lex_scan_quoted_char(GetChar(s))
  IN  CASE PeekChar(GetChar(s)) = "'" -> GetChar(s)
        [] PeekChar(GetChar(s)) # "'" /\ q.ch = EOF -> q.s
        [] OTHER -> [GetChar(q.s) EXCEPT !.type = "LX_CHAR", !.val = Ord(q.ch)]

Unit(s) ==
  LET ch == PeekChar(s)
  IN  CASE ch = EOF      -> [s EXCEPT !.type = "LX_EOF"]
        [] ch \in Alpha  -> lex_scan_identifier_or_keyword(s)
        [] ch \in Digits -> lex_scan_number(s, 0)
        [] ch = "'"      -> lex_scan_char(s)
        [] ch = "\""     -> lex_scan_string(s)
        [] ch \in Punct \ {"'", "\""} -> lex_scan_symbol(s)
        [] OTHER         -> [s EXCEPT !.type = "LX_ERROR"]

UnitAt(s) == IF Over(s) THEN s ELSE Unit([s EXCEPT !.l_line = s.line, !.l_col = s.col - 1])

\* What the functions return, false after an error, is ignored by every caller.
lex_scan(s) == IF Over(s) THEN s ELSE UnitAt(lex_skip_whitespace(s))
=============================================================================
