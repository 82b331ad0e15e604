SPECIFICATION Spec
CONSTANTS
  Shared = {A}
  Own = C
  NoLogger = NoLogger
  ChunkCount = 2
  ChunkSlots = 2
  RootId = 1
  ScopeIds = {2}
  MaxCalls = 4
  MaxBinds = 2
  MaxScopes = 1
INVARIANTS RecordsStay ForkStaysOut ActivityIsKept
CHECK_DEADLOCK FALSE
