SPECIFICATION FairSpec
CONSTANTS
  MaxBuilds = 2
  MaxDocs = 3
  DocSizes = {1, 3}
  ShardMax = 2
  Parallelisms = {1, 2}
  NoShard = NoShard
INVARIANTS
  TypeOK
  IndexIsLastGoodBuild
  EveryDocumentOnce
  TempsRemoved
PROPERTIES
  FinishReturns
CHECK_DEADLOCK FALSE
