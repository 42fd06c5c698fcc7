\* Wait: what the waits of the init task leave behind.
SPECIFICATION Spec
CONSTANTS
  Code <- WaitCode
  PrintRegion <- WaitRegion
  Depth <- WaitDepth
  Tasks = {root, t1, t2, t3, t4}
  RootTask = root
  NoTask = null
  StackSize = 6
  VarBase = 4
  NVars = 2
  MaxInt = 7
  CounterMod = 8
PROPERTY LostTasksLeaveNothing
