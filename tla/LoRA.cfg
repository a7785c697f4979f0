CONSTANTS
  a = a
  b = b
  c = c
  q1 = q1
  q2 = q2
  q3 = q3
  q4 = q4
  u1 = u1
  Names = {a, b, c}
  Pinned = {b}
  Loaded0 <- MCLoaded0
  MaxLoaded = 2
  MaxId = 6
  Unloads = {u1}
  Target <- MCTarget
  Workloads <- MCWorkloads
SPECIFICATION FairSpec
INVARIANTS
  UsedIsLoaded
  CountersExact
  RegistryIsLoaded
  
  NeverRefused
PROPERTIES
  AllEnd
  WaitsForUsesOnly
CHECK_DEADLOCK FALSE
