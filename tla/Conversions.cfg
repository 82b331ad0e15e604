SPECIFICATION ConversionSpec
CONSTANTS
  LineCap = 2
  MaxBytes = 6
  MaxCharacters = 7
  Base = 2
  InlineCap = 3
  MaxContinuations = 2
  MessagePrefix = 24
  SlicePrefix = 16
  HeadBytes = 8
  LengthBytes = 2
  MaxPayload = 38
  FixedTypes <- MCFixedTypes
  Values <- MCValues
  Lengths = {0, 1, 3, 4, 6, 9, 10, 11}
  MaxArgs = 2
  Rooms <- MCRooms
INVARIANTS
  SplitsExactly
  ArgvRoundTrips
  ArgumentsRoundTrip
  WritesWhatItReserved
CHECK_DEADLOCK FALSE
