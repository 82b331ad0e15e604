SPECIFICATION Spec
CONSTANTS
  Shared = {A}
  Own = C
  NoLogger = NoLogger
  ChunkCount = 1
  ChunkSlots = 3
  RootId = 1
  ScopeIds = {2}
  MaxCalls = 3
  MaxBinds = 1
  MaxScopes = 1
INVARIANT HandlerRecordSurvives
CHECK_DEADLOCK FALSE
