CONSTANTS
  q1 = q1
  q2 = q2
  Requests = {q1, q2}
  Instances <- MCInstances
  Faults = {"load", "control"}
  MaxErrors = 2
SPECIFICATION FairSpec
INVARIANTS
  
  SameRequest
  
PROPERTIES
  ForwardCompletes
CHECK_DEADLOCK FALSE
