CONSTANTS
  Readers = {r1, r2, r3}
  Writers = {w1, w2}
  r1 = r1
  r2 = r2
  r3 = r3
  w1 = w1
  w2 = w2
  MayCancel = TRUE
SPECIFICATION FairLockSpec
INVARIANTS
  MutualExclusion
  CountsExact
  NoLostWakeup
PROPERTIES
  WritersNotStarved
