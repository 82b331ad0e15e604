SPECIFICATION FairSpec
CONSTANTS
  Captured <- BothStreams
  Platforms = {FALSE, TRUE}
  PipeCap = 1
  MaxLines = 2
INVARIANTS
  NothingLeaks
  TailIsCaptured
  LinesAddUp
  RecordsInOrder
  ExitIsReported
PROPERTIES
  WaitReturns
  PipesDrain
