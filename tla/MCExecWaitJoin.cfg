\* WaitJoin: the assertion of OP_JOIN.
SPECIFICATION Spec
CONSTANTS
  Code <- WaitJoinCode
  PrintRegion <- WaitJoinRegion
  Depth <- WaitJoinDepth
  Tasks = {root, t1, t2, t3, t4}
  RootTask = root
  NoTask = null
  StackSize = 6
  VarBase = 4
  NVars = 2
  MaxInt = 7
  CounterMod = 8
INVARIANT JoinAssertion
