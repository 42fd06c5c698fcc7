\* What the parser accepts beyond the grammar, and what it refuses.
SPECIFICATION Spec
CONSTANTS
  MaxInt = 127
  MaxStr = 11
  Commands <- TwoFileCommands
INVARIANT AcceptsAsDocumented
