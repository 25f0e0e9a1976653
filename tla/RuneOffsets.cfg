CONSTANTS
  byteBase = 16
  ngramSize = 3
  runeOffsetFrequency = 5
  maxTrigramCount = 12
  maxLanguages = 3
  maxBranches = 3
  pageSize = 8
  SizeMax = 20
  Blob <- MCBlob
  Inputs <- Quads
SPECIFICATION Spec
CHECK_DEADLOCK FALSE
INVARIANTS
  OffsetsExact
