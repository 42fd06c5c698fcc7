\* A task that is declared before it is spawned, in a 'wait' without an 'else'.
SPECIFICATION Spec
CONSTANTS
  MaxCodeSize = 80
  MaxInt = 7
  MaxStr = 11
  Sources <- LateSources
  Outputs = {f}
  MaxSwitches = 2
  Memory <- MCMemory
  Envs <- MCEnvs
  Fuel = 200
PROPERTY SpawnsAsCommented
