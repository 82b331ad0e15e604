SPECIFICATION FairSpec
CONSTANTS
  Threads = {t1, t2}
  Loggers = {log1, log2}
  Sites = {s1}
  NoThread = NoThread
  NoLogger = NoLogger
  NoSite = NoSite
  ChunkCount = 2
  ChunkUnits = 3
  MaxRecordUnits = 3
  SliceUnits = 1
  DefUnits <- LongDefinitions
  DefMinUnits <- BareFields
  Shapes <- OneShape
  NameShapes <- NoNames
  SplitAtomics = TRUE
  MaxEmits = 2
INVARIANT DefinitionPrecedesMessage
PROPERTIES
  KeepsLedger
  EveryCallSettles
