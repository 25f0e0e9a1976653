SPECIFICATION Spec
CONSTANTS
  Repos = {a, b, c, d}
  MaxCommit = 1
  MaxSeq = 5
INVARIANTS
  PlacesKnown
PROPERTIES
  ImplementsQueue
SYMMETRY MCSymmetry
