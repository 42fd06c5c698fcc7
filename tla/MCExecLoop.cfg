\* Loop: spawn and join in a while loop, freed blocks reused.
SPECIFICATION FairSpec
CONSTANTS
  Code <- LoopCode
  PrintRegion <- LoopRegion
  Depth <- LoopDepth
  Tasks = {root, t1, t2}
  RootTask = root
  NoTask = null
  StackSize = 10
  VarBase = 6
  NVars = 2
  MaxInt = 7
  CounterMod = 8
INVARIANTS
  TypeOK RunningCountsLive
  EndsByItself StackDiscipline
PROPERTIES
  VariablesChangeByAssignment ImplementsForkJoin Terminates
