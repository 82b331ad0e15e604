SPECIFICATION Spec
CONSTANTS
  Captured <- BothStreams
  Platforms = {FALSE}
  PipeCap = 1
  MaxLines = 1
INVARIANTS
  ExitIsTruthful
