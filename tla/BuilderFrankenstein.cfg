SPECIFICATION Spec
CONSTANTS
  MaxBuilds = 2
  MaxDocs = 2
  DocSizes = {1, 3}
  ShardMax = 2
  Parallelisms = {1, 2}
  NoShard = NoShard
INVARIANTS
  NoFrankensteinCorpus
CHECK_DEADLOCK FALSE
