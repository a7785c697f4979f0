CONSTANTS
  NumInstances = 4
  Capacity = 3
SPECIFICATION Spec
INVARIANTS
  LoopsAgree
  BoundedOvertaking
PROPERTY
  DispatchesToMostFree
