------------------------------ MODULE MCSource ------------------------------
(* The scanner on all short texts, the parser on all short expressions and  *)
(* on all texts that differ in one word from a sentence.                    *)
EXTENDS Source

RECURSIVE Texts(_, _)
Texts(chars, k) ==
  IF k = 0 THEN {""} ELSE {""} \union {c \o t : c \in chars, t \in Texts(chars, k - 1)}

\* A line of words.
RECURSIVE Line(_)
Line(words) == IF words = <<>> THEN "\n" ELSE Head(words) \o " " \o Line(Tail(words))

\* Letters of both cases, a keyword, digits whose value wraps, blanks, a
\* comment, both quotes, the escape, and symbols that begin alike.
ScanChars   == {"i", "F", "_", "7", ":", "=", "<", "!", " ", "\n", "'", "\"", "\\"}
NameChars   == {"i", "F", "_", "7", "!", "\n"}
SymbolChars == {":", "=", "<", "!", " ", "\n", "7"}
QuoteChars  == {"'", "\"", "\\", "n"}

Long == {"do_nothingatall", "do_nothin", "\"abcdefghijklmno\"", "x:=y>=1%(2*3);,/-+z<=4"}

Scanned ==
  Texts(ScanChars, 3) \union Texts(NameChars, 4) \union Texts(SymbolChars, 4)
    \union Texts(QuoteChars, 5) \union Long

ExprWords == {"a", "1", "(", ")", "-", "+", "*", "<", "not", "and", "or"}
Sentence(e) == <<"module", "m", "init", "x", ":=">> \o e \o <<";", "end", "end">>

\* One word of the sentence is left out, replaced, or put in.
Near(s, words) ==
  {SubSeq(s, 1, k - 1) \o SubSeq(s, k + 1, Len(s)) : k \in DOMAIN s}
  \union {[s EXCEPT ![k] = w] : k \in DOMAIN s, w \in words}
  \union {SubSeq(s, 1, k) \o <<w>> \o SubSeq(s, k + 1, Len(s)) : k \in 0..Len(s), w \in words}

Words == {"init", "end", "task", "else", "then", "timeout", "join", "stop", "print_int",
          ";", ",", ":=", "a", "\"s\""}

Sentences ==
  {<<"module", "m", ";", "init", "if", "a", "then", "stop", ";", "else", "while", "a", "<", "1",
     "do", "a", ":=", "-", "a", ";", "end", ";", "end", ";", "end", ";", "end", ";">>,
   <<"module", "m", "init", "spawn", "a", ";", "b", ";", "join", "wait", "1", "timeout", "sleep",
     "1", ";", "else", "print_int", "a", ";", "end", ";", "end", "task", ";", "a", "end", "end">>,
   <<"module", "m", "init", "print", "\"s\"", ",", "a", "+", "1", ";", "print_char", "'c'", ";",
     "end", ";", "task", "a", "spawn", "b", ";", "join", ";", "end", ";", "task", "b", "end", "end">>}

\* Expressions in which each operator stands next to each of its neighbours.
Operations ==
  {<<"a", "-", "1", "-", "a", "*", "1", "/", "b">>,
   <<"-", "a", "+", "1", "<", "b", "or", "1", "or", "a">>,
   <<"not", "a", "=", "1", "and", "b", "and", "(", "not", "1", "or", "a", ")">>,
   <<"-", "(", "-", "a", "-", "-", "1", ")", "%", "a", ">=", "1">>}

Expressions ==
  UNION {[1..k -> ExprWords] : k \in 1..3} \union UNION {Near(e, ExprWords) : e \in Operations}

Parsed == {Line(Sentence(e)) : e \in Expressions}
            \union UNION {{Line(s) : s \in Near(sentence, Words)} : sentence \in Sentences}

\* The first of two files, and the second.
First  == {<<"lex-print", "a!b\n 7">>, <<"lex-print", "\n\n">>, <<"lex-print", "''">>,
           <<"parse-test", "module m init end\nend\n">>}
Second == {"lex-print"} \X Texts({"i", "\n", "!", ":"}, 3)

MCCommands ==
  {<<c>> : c \in ({"lex-print"} \X Scanned) \union ({"parse-test"} \X Parsed)}
  \union {<<a, b>> : a \in First, b \in Second}

\* A name, a relation and a number in a file behind another one.
SecondFileCommands == {<<<<"lex-print", "a\n">>, <<"lex-print", "a != 1\n">>>>}

\* A file with two signs, two 'not's and a ';' before a task's name, and one with
\* a time unit.
TwoFileCommands ==
  {<<<<"parse-test", "module m init x := - - a; y := not not a; end; task; t stop; end; end\n">>,
     <<"parse-test", "module m init sleep sec(2); end; end\n">>>>}
=============================================================================
