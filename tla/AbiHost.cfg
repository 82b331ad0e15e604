SPECIFICATION Spec
CONSTANTS
  Threads = {t1, t2}
  Loggers = {log1, log2}
  Sites = {s1, s2, s3}
  NoLogger = NoLogger
  NoSite = NoSite
  SlotCount = 3
  ProbeLimit = 2
  ProbeStart <- CollidingStarts
  UnboundCap = 1
  MaxCalls = 3
INVARIANTS
  MessageIsDecodable
  OneSlotPerSite
  OwnDefinitionAccepted
  CallsAddUp
