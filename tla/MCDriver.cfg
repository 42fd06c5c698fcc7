\* All sources of the grammar, two switches on one command line.
SPECIFICATION Spec
CONSTANTS
  MaxCodeSize = 80
  MaxInt = 7
  MaxStr = 11
  Sources <- MCSources
  Outputs = {f}
  MaxSwitches = 2
  Memory <- MCMemory
  Envs <- MCEnvs
  Fuel = 200
INVARIANTS TypeOK WellFormed CompiledMeansSource LoadedFilesExecutable
PROPERTIES ReadsBack UndeclaredIsReported
