SPECIFICATION Spec
CONSTANTS
  ld1 = ld1
  ld2 = ld2
  Readers = {s1}
  Writers = {ld1, ld2, d1}
  Capacity = 2
  Searches = {s1}
  Loads = {ld1, ld2}
  Drops = {d1}
  Keys = {k1, k2}
  NoShard = NoShard
  Rank <- MCRank
  NumCPU = 2
  ShardOutcomes = {"ok", "err", "crash"}
  MaxMatches = 1
  TotalMax = 0
INVARIANTS
  NoSearchOnClosedShard
CHECK_DEADLOCK FALSE
