------------------------------- MODULE Source -------------------------------
(***************************************************************************)
(* The test switches of mpc (mini-pogo.c) that read source files:          *)
(* --lex-print scans a file unit by unit, --parse-test parses it.  All     *)
(* files of a command line are read with the same file-level variables of  *)
(* lex.c.                                                                  *)
(***************************************************************************)
EXTENDS Language

CONSTANT Commands  \* command lines: sequences of <<switch, text of the file>>

VARIABLES
  argv,    \* the command line
  n,       \* the number of the switch being done
  lx,      \* the variables of lex.c
  before,  \* the text of the files read before this one
  units,   \* the units that --lex-print has printed of this file
  p_node,  \* what parse() has returned for this file
  at       \* where the program is

vars == <<argv, n, lx, before, units, p_node, at>>

Init ==
  /\ argv \in Commands /\ n = 0
  /\ lx = LexBoot /\ before = "" /\ units = <<>> /\ p_node = NoNode
  /\ at = "switch"

\* The next switch, whose file is not found.
NotFound ==
  /\ at = "switch" /\ n < Len(argv)
  /\ n' = n + 1
  /\ UNCHANGED <<argv, lx, before, units, p_node, at>>

\* The next switch opens its file and starts to read it.
OpenFile ==
  /\ at = "switch" /\ n < Len(argv)
  /\ n' = n + 1 /\ at' = argv[n + 1][1]
  /\ lx' = Open(lx, argv[n + 1][2]) /\ before' = before \o lx.text
  /\ units' = <<>> /\ p_node' = NoNode
  /\ UNCHANGED argv

\* What lex_print shows of the current unit, and where the unit is.
Printed(s) ==
  [type |-> s.type, line |-> s.l_line, col |-> s.l_col,
   val  |-> IF s.type \in {"LX_IDENTIFIER", "LX_NUMBER", "LX_CHAR", "LX_STRING"} THEN s.val ELSE ""]

\* One turn of the loop of scan_file_and_print.  units keeps each unit once:
\* after a first --lex-print, g_lex_debug_print makes lex_scan print it as well.
Scan ==
  /\ at = "lex-print"
  /\ lx' = lex_scan(lx)
  /\ units' = IF Over(lx') THEN units ELSE Append(units, Printed(lx'))
  /\ at' = CASE lx'.type = "HANG" -> "hung"
             [] lx'.type \in {"LX_EOF", "LX_ERROR"} -> "switch"
             [] OTHER -> at
  /\ UNCHANGED <<argv, n, before, p_node>>

\* test_parse.  The program ends where parse() finds an error.
Parse ==
  /\ at = "parse-test"
  /\ \E result \in {parse(lx)} :
         /\ lx' = result.s
         /\ p_node' = IF Over(result.s) THEN NoNode ELSE result.node
         /\ at' = CASE result.s.type = "HANG" -> "hung"
                    [] result.s.type = "EXIT" -> "exit"
                    [] OTHER -> "switch"
  /\ UNCHANGED <<argv, n, before, units>>

\* No switch is left.
Finish ==
  /\ at = "switch" /\ n = Len(argv)
  /\ at' = "exit"
  /\ UNCHANGED <<argv, n, lx, before, units, p_node>>

\* lex_skip_to goes on reading the end of the file.
Hang   == at = "hung" /\ UNCHANGED vars
Exited == at = "exit" /\ UNCHANGED vars

Next == NotFound \/ OpenFile \/ Scan \/ Parse \/ Finish \/ Hang \/ Exited

Spec == Init /\ [][Next]_vars

-----------------------------------------------------------------------------
(* Properties.                                                              *)

TypeOK ==
  /\ n \in 0..Len(argv)
  /\ lx.pos \in 1..Len(lx.text)+1 /\ lx.line \in Nat \ {0} /\ lx.col \in Nat \ {0}
  /\ at \in {"switch", "lex-print", "parse-test", "hung", "exit"}

\* --lex-print has shown a file to its end.
Shown == units # <<>> /\ units[Len(units)].type = "LX_EOF"

\* A text that consists of units, blanks and comments is shown as these units:
\* none is split, joined, lost or misread, whatever stands before or after it
\* without a blank between.
UnitsAsSpelled ==
  at = "switch" /\ units # <<>> /\ WellSpelled(lx.text, Symbols) =>
    /\ Shown
    /\ [k \in 1..Len(units)-1 |-> [type |-> units[k].type, val |-> units[k].val]]
         = UnitsOf(lx.text, Symbols)

\* The places in the text of the units that have been shown, the end included.
Places == Cuts(lx.text, 1, Symbols) \o <<<<Len(lx.text) + 1, 0>>>>

\* The positions of two units differ as the places of their first characters
\* do, whatever is between them, and whatever files were read before.  (The
\* first line goes on where the file before ended, so its columns cannot be
\* compared with those of the lines after it.)
PositionsFollowText ==
  Shown /\ WellSpelled(lx.text, Symbols) =>
    \A j, k \in DOMAIN units :
      LET Line(m)   == LineAt(lx.text, Places[m][1])
          Column(m) == ColumnAt(lx.text, Places[m][1])
      IN  /\ units[k].line - units[j].line = Line(k) - Line(j)
          /\ (before = "" \/ (Line(j) = 0 <=> Line(k) = 0)) =>
               units[k].col - units[j].col = Column(k) - Column(j)

\* test_parse has parsed the file, or found an error in it.
Tested ==
  /\ n > 0 /\ argv[n][1] = "parse-test" /\ at \in {"switch", "exit"}
  /\ lx.text = argv[n][2] /\ WellSpelled(lx.text, Symbols)

Accepted    == lx.type = "LX_EOF"
TestedUnits == UnitsOf(lx.text, Symbols)

\* The parser refuses no sentence that the comments above its functions derive,
\* and what it accepts, lenient as it is, has the one tree that it returns:
\* precedence, associativity, the scope of signs and 'not', the statement an
\* 'else' or 'end' belongs to.
ParsesSentences ==
  Tested =>
    IF Accepted THEN Trees("module", TestedUnits) = {p_node}
    ELSE ~Derives(Documented, "module", TestedUnits)

\* A sentence of the grammar of the functions' comments, or of the one at the
\* head of parse.c ("This C module creates a parse tree for the grammar below").
IsSentence(text) ==
  LET u == UnitsOf(text, Symbols)
  IN  Derives(Documented, "module", u) \/ Derives(HeadGrammar, "module", u)

\* Of two files that are tested one after the other: the first has been accepted,
\* since mpc goes on only then, so it is a sentence; and the second is accepted
\* exactly if it is one.
AcceptsAsDocumented ==
  Tested /\ n = 2 /\ argv[1] = <<"parse-test", before>> =>
    /\ IsSentence(before)
    /\ Accepted <=> IsSentence(lx.text)

\* Reading a file hangs only in a comment on its last line that no newline ends;
\* every other file is read to its end, to an error, or to an error's exit.
HangsOnlyInComment ==
  at = "hung" =>
    /\ ~WellSpelled(lx.text, Symbols)
    /\ \E k \in 1..Len(lx.text) :
         CharAt(lx.text, k) = "!" /\ "\n" \notin Chars(SubSeq(lx.text, k, Len(lx.text)))

\* Every turn of the loop takes the scanner further into the text or is the
\* last: no error, not even a constant that is cut off by the end of the file,
\* makes --lex-print go on for ever.
ScanProgress == [][at = "lex-print" => lx'.pos > lx.pos \/ at' # at]_vars

\* What --lex-print shows of a file behind another one is what lex.h and
\* lex-enums.txt say of its units: '!=' is one of them, lines are counted "in
\* input stream" and, like columns, from 1.
UnitsAsDocumented ==
  LET symbols   == Symbols \union {"!="}
      cuts      == Cuts(lx.text, 1, symbols)
      Shows(type, p) == <<type, 1 + LineAt(lx.text, p), 1 + ColumnAt(lx.text, p)>>
  IN  Shown /\ before # "" /\ WellSpelled(lx.text, symbols) =>
        [k \in DOMAIN units |-> <<units[k].type, units[k].line, units[k].col>>]
          = Append([k \in DOMAIN cuts |-> Shows(UnitsOf(lx.text, symbols)[k].type, cuts[k][1])],
                   Shows("LX_EOF", Len(lx.text) + 1))
=============================================================================
