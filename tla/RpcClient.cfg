CONSTANTS
  Callers = {c1, c2}
  MaxFaults = 3
SPECIFICATION Spec
INVARIANTS
  RetryHeals
PROPERTIES
  RedialsOnlyDead
  CallsReturn
