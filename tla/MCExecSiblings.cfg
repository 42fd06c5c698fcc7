\* Fork: the assertion of OP_END_TASK.
SPECIFICATION Spec
CONSTANTS
  Code <- ForkCode
  PrintRegion <- ForkRegion
  Depth <- ForkDepth
  Tasks = {root, t1, t2, t3}
  RootTask = root
  NoTask = null
  StackSize = 10
  VarBase = 6
  NVars = 2
  MaxInt = 7
  CounterMod = 8
INVARIANT SiblingsAssertion
