CONSTANTS
  byteBase = 16
  ngramSize = 3
  runeOffsetFrequency = 5
  maxTrigramCount = 12
  maxLanguages = 3
  maxBranches = 3
  pageSize = 8
  SizeMax = 16
  Blob <- MCBlob
  Inputs <- MCSearchInputs
SPECIFICATION SearchSpec
CHECK_DEADLOCK FALSE
INVARIANTS
  BranchViews
  PostingsExact
  OffsetsExact
  DocumentsAccepted
  FilesFound
  MatchesExact
  StopsAtLimit
  ParseKeepsMeaning
