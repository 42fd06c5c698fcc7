\* The units of a second file.
SPECIFICATION Spec
CONSTANTS
  MaxInt = 127
  MaxStr = 11
  Commands <- SecondFileCommands
INVARIANT UnitsAsDocumented
