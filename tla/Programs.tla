------------------------------ MODULE Programs ------------------------------
(***************************************************************************)
(* The mini-pogo programs that the model-checking runs execute, as parse   *)
(* trees, and the code that one mpc command makes of each.  Their source   *)
(* texts are in module MCDriver, where they are parsed.                    *)
(***************************************************************************)
EXTENDS Compile

CodeOf(tree) ==
  LET c == compile(compile_init(BootState), tree)
  IN  [a \in 0..c.g_ip-1 |-> c.g_code[a]]

A == Variable(0)
B == Variable(1)
One == Number(1)
Say(s, e) == AtomicPrint(<<String(s), PrintExpr(e)>>)

-----------------------------------------------------------------------------
\* Two children and a grandchild that all print; every spawn is joined.
Fork == Module("fork",
  Do(<<SpawnJoin(<<"a", "b">>), Say("s", One)>>),
  <<Task("a", Do(<<Say("s", Bin("ND_AND", A, One))>>)),
    Task("b", Do(<<SpawnJoin(<<"c">>)>>)),
    Task("c", Do(<<Assign(0, Number(2)), AtomicPrint(<<PrintExpr(A), PrintExpr(A)>>)>>))>>)
ForkCode   == CodeOf(Fork)
ForkRegion == RegionOf(ForkCode)
ForkDepth  == DepthsOf(ForkCode)

\* Spawn in a loop, so that freed blocks come back, and every other kind of
\* statement and nearly every expression of a program without 'wait'.
Loop == Module("loop",
  Do(<<While(Bin("ND_OR", Bin("ND_LT", A, One), Bin("ND_EQ", A, One)),
         Do(<<SpawnJoin(<<"w", "w">>), Assign(0, Bin("ND_ADD", A, One))>>)),
       IfElse(Not(Bin("ND_GE", A, Number(2))), Do(<<Stop>>), Do(<<PrintExpr(A)>>)),
       SpawnJoin(<<"w">>)>>),
  <<Task("w", Do(<<
      Sleep(One),
      Assign(1, Negate(One)),
      If(Bin("ND_AND", Bin("ND_GT", Bin("ND_SUBTRACT", A, B), Number(0)), Bin("ND_LE", B, A)),
         Do(<<Say("w", B), PrintChar(10)>>))>>))>>)
LoopCode   == CodeOf(Loop)
LoopRegion == RegionOf(LoopCode)
LoopDepth  == DepthsOf(LoopCode)

\* 'wait' with and without an else branch.  A task that misses the deadline
\* outlives its spawn statement and perhaps the program.  The second 'wait' has
\* no address to jump to, so its success starts the init block again.  Where both
\* tasks of the first are in time, c is joined, and finds no memory for its last.
Wait == Module("deadline",
  Do(<<SpawnWaitElse(<<"a", "b">>, One, Do(<<Say("t", A)>>), Do(<<SpawnJoin(<<"c">>)>>)),
       SpawnWaitElse(<<"b">>, One, Do(<<>>), NoNode)>>),
  <<Task("a", Do(<<Say("a", One)>>)),
    Task("b", Do(<<Stop>>)),
    Task("c", Do(<<SpawnJoin(<<"b">>), SpawnJoin(<<"b", "b">>)>>))>>)
WaitCode   == CodeOf(Wait)
WaitRegion == RegionOf(WaitCode)
WaitDepth  == DepthsOf(WaitCode)

\* A spawn that times out, then one that is joined.
WaitJoin == Module("late",
  Do(<<SpawnWaitElse(<<"a">>, Number(0), Do(<<>>), Do(<<>>)), SpawnJoin(<<"b">>)>>),
  <<Task("a", Do(<<Sleep(Number(5))>>)), Task("b", Do(<<>>))>>)
WaitJoinCode   == CodeOf(WaitJoin)
WaitJoinRegion == RegionOf(WaitJoinCode)
WaitJoinDepth  == DepthsOf(WaitJoinCode)
=============================================================================
