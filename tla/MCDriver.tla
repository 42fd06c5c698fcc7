------------------------------ MODULE MCDriver ------------------------------
(* The compiler on the sources of a bounded grammar. *)
EXTENDS Driver

P == INSTANCE Programs

\* The texts of the programs that the interpreter is run on.
ProgramTexts ==
  [fork |-> "module fork init spawn a; b; join; print \"s\", 1; end;"
     \o " task a print \"s\", a and 1; end; task b spawn c; join; end;"
     \o " task c a := 2; print a, a; end; end",
   loop |-> "module loop init"
     \o " while a < 1 or a = 1 do spawn w; w; join; a := a + 1; end;"
     \o " if not a >= 2 then stop; else print_int a; end; spawn w; join; end;"
     \o " task w sleep 1; b := -1; if a - b > 0 and b <= a then print \"w\", b;"
     \o " print_char '\\n'; end; end; end",
   wait |-> "module deadline init"
     \o " spawn a; b; join wait 1 timeout print \"t\", a; else spawn c; join; end;"
     \o " spawn b; join wait 1 timeout end; end;"
     \o " task a print \"a\", 1; end; task b stop; end; task c spawn b; join; spawn b; b; join; end; end",
   late |-> "module late init spawn a; join wait 0 timeout else end; spawn b; join; end;"
     \o " task a sleep 5; end; task b end; end"]

ProgramTrees == [fork |-> P!Fork, loop |-> P!Loop, wait |-> P!Wait, late |-> P!WaitJoin]

ASSUME ProgramsAreSentences ==
  \A k \in DOMAIN ProgramTexts :
    LET result == parse(Open(LexBoot, ProgramTexts[k]))
    IN  result.s.type = "LX_EOF" /\ result.node = ProgramTrees[k]

-----------------------------------------------------------------------------
\* Conditions and values: every operator, short circuits nested both ways.
Exprs ==
  {"(a or b) and not a", "a and b or b - a", "-a + b * 3"}
  \union {"a " \o op \o " 1" : op \in {"=", "<", "<=", ">", ">=", "/", "%"}}

\* Statements: each kind, with another inside it.
Count == "while a < 1 do a := a + 1; end"
Statement ==
  {"b := " \o e : e \in Exprs}
  \union
  {Count,
   "if a and b then print \"s\", a; end",
   "if a then stop; else " \o Count \o "; end",
   "print \"s\", a; print_char '\\\\'; print \"t\", a; sleep a",
   "",
   "spawn a; b; join",
   "while b < 1 do spawn b; join; b := b + 1; end",
   "spawn b; a; a; join wait a + 1 timeout print \"t\", a; else " \o Count \o "; end"}

Tasks == "task a spawn b; join; print \"s\", a; end; task b print \"u\", a; end;"

\* The task that init spawns first is spawned again after its declaration.
Again == "module again init spawn b; join; end;"
  \o " task b print \"b\", a; end; task a spawn b; b; join; end; end"

\* A task that is not declared here, but in the module fork.
Missing == "module missing init spawn a; c; join; end; " \o Tasks \o " end"

\* Nothing to compile; no strings, but a label.
Empty == "module empty init end end"
Silent == "module silent init while a < 1 do a := a + 1; end; end end"

\* A relation that the scanner takes for a comment, and a comment that the end
\* of the file cuts off.
Wrong == {"module m init if a != 1 then stop; end; end; end\n", "module m ! init"}

MCSources ==
  {"module m init " \o s \o "; if b then a := b; end; print \"u\", a; end; " \o Tasks \o " end"
     : s \in Statement}
  \union {Again, Missing, Empty, Silent, ProgramTexts.fork, ProgramTexts.loop} \union Wrong

\* A task that is declared before it is spawned, in a 'wait' without an 'else'.
LateSources ==
  {"module late init end; task b end; task a spawn b; join wait 1 timeout end; end; end"}

\* A module with a label and no string, as the sample fibonacci.pogo.
SilentSources == {Silent, ProgramTexts.loop}

MCMemory == {[name |-> "", type |-> 0, addr |-> 0], [name |-> "old", type |-> 1, addr |-> 7]}

MCEnvs == [{0, 1} -> {-8, -1, 0, 1, 2}]
=============================================================================
