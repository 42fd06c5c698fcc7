\* A module without strings.
SPECIFICATION Spec
CONSTANTS
  MaxCodeSize = 80
  MaxInt = 7
  MaxStr = 11
  Sources <- SilentSources
  Outputs = {f}
  MaxSwitches = 2
  Memory <- MCMemory
  Envs <- MCEnvs
  Fuel = 200
PROPERTY WrittenFilesLoad
