SPECIFICATION KillSpec
CONSTANTS
  Threads = {t1, t2}
  Loggers = {log1}
  Sites = {s1}
  NoThread = NoThread
  NoLogger = NoLogger
  NoSite = NoSite
  ChunkCount = 2
  ChunkUnits = 4
  MaxRecordUnits = 4
  SliceUnits = 1
  DefUnits <- SmallDefinitions
  DefMinUnits <- SmallDefinitions
  Shapes <- AllShapes
  NameShapes <- Names
  SplitAtomics = FALSE
  MaxEmits = 3
INVARIANTS
  NothingHidden
  ChainsAreWhole
  KilledImageDecodes
  CutIsFlagged
PROPERTY CommittedIsFinal
