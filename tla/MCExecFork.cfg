\* Fork: init spawns a and b, b spawns c, everything is joined.
SPECIFICATION FairSpec
CONSTANTS
  Code <- ForkCode
  PrintRegion <- ForkRegion
  Depth <- ForkDepth
  Tasks = {root, t1, t2, t3}
  RootTask = root
  NoTask = null
  StackSize = 10
  VarBase = 6
  NVars = 2
  MaxInt = 7
  CounterMod = 8
INVARIANTS
  TypeOK PrintMtxHeldInPrint StdoutAtomic RunningCountsLive
  ParentsOutliveChildren EndsByItself StackDiscipline
PROPERTIES
  JoinIsBarrier FreedAfterExit ImplementsForkJoin Terminates
