SPECIFICATION Spec
CONSTANTS
  Segments <- MCSegments
  Headers <- MCHeaders
  Messages <- MCMessages
  Word <- MCWord
  Paths = {1, 2}
  CommandLines <- MCCommandLines
  Starts <- MCStarts
  DefaultLimit = 10
  Signals = {2}
  Skew = 1
  MaxMoves = 2
INVARIANTS PrintsOnce NothingMissed ScansAreInOrder ExitTells
PROPERTIES Received FiniteRunsEnd
