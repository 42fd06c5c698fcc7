\* All short texts, all short expressions, and sentences with an error.
SPECIFICATION Spec
CONSTANTS
  MaxInt = 127
  MaxStr = 11
  Commands <- MCCommands
INVARIANTS
  TypeOK UnitsAsSpelled PositionsFollowText ParsesSentences HangsOnlyInComment
PROPERTY ScanProgress
