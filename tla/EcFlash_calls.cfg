\* Sequences of calls of every kind, each command of which may fail.
SPECIFICATION FairSpec
CONSTANTS
  FlashSize = 3
  Offsets <- MCOffsets
  Sizes <- MCSizes
  ec_max_insize = 2
  PdataMax = 3
  VER0_SIZE = 2
  WriteSizes <- MCWriteSizes
  EcHasV1 = TRUE
  MaxPolls = 2
INVARIANTS
  ReadTruthful
  WriteTruthful
  EraseTruthful
  WritesAligned
PROPERTIES
  OnlyTarget
  CallEnds
