SPECIFICATION FairSpec
CONSTANTS
  Repos = {a, b}
  MaxCommit = 1
  SemSize = 1
  MaxFaults = 1
  MaxChanges = 2
  NoIndex = NoIndex
  Nobody = Nobody
INVARIANTS
  TypeOK
  NoForgottenRepo
PROPERTIES
  IndexesConverge
