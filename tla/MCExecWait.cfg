\* Wait: spawn with a deadline, the success branch compiled and left out.
SPECIFICATION FairSpec
CONSTANTS
  Code <- WaitCode
  PrintRegion <- WaitRegion
  Depth <- WaitDepth
  Held <- WaitHeld
  JoinedCode <- WaitJoined
  Tasks = {root, t1, t2, t3, t4}
  RootTask = root
  NoTask = null
  StackSize = 6
  VarBase = 4
  NVars = 2
  MaxInt = 7
  CounterMod = 8
INVARIANTS
  TypeOK PrintMtxHeldInPrint StdoutAtomic RunningCountsLive
  ChildrenFound NothingFreedInUse
PROPERTIES
  WaitSuccessMeansStopped StackOnlyOverflows FreedAfterExit Terminates
