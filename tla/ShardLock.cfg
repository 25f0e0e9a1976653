SPECIFICATION LockSpec
CONSTANTS
  Readers = {r1, r2, r3}
  Writers = {w1, w2}
  Capacity = 2
INVARIANTS
  LockTypeOK
  TokensAccounted
  WriterExclusive
  NoLostWakeup
PROPERTIES
  NoOvertaking
  WriterServed
