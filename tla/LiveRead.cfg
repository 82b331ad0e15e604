SPECIFICATION LiveSpec
CONSTANTS
  Threads = {t1, t2}
  Loggers = {log1}
  Watched = log1
  Sites = {s1}
  NoThread = NoThread
  NoLogger = NoLogger
  NoSite = NoSite
  ChunkCount = 2
  ChunkUnits = 3
  MaxRecordUnits = 3
  SliceUnits = 1
  DefUnits <- SmallDefinitions
  DefMinUnits <- SmallDefinitions
  Shapes <- ShortAndChained
  NameShapes <- NoNames
  SplitAtomics = TRUE
  MaxEmits = 2
INVARIANTS
  LiveNeverPartial
  LiveSeesWhatWasThere
