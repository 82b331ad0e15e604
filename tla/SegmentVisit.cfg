SPECIFICATION FairSpec
CONSTANTS
  ImageSizes = {60, 64, 90, 165, 176, 200, 330}
  HeaderSizes = {40, 64, 72}
  ChunkSizes = {0, 48, 64}
  SegmentSizes = {50, 64, 160, 176, 200, 1000}
  ClassSizes = {128, 256}
  Lengths = {0, 1, 8, 16, 90, 65535}
INVARIANTS
  ReadsInsideImage
  BytesAddUp
  IntactHasNoDamage
PROPERTY VisitEnds
