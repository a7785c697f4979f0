CONSTANTS
  r1 = r1
  r2 = r2
  Requests = {r1, r2}
  NumEncoders = 2
  NumDenoisers = 2
  NumDecoders = 1
  Sizes = {1}
  NumPrealloc = 1
  PreallocSize = 1
  EncoderCapacity = 1
  DenoiserCapacity = 1
  DecoderCapacity = 1
  Policy = "max_free_slots"
  QueueSize = 1
  Faults = {"compute", "alloc", "exception"}
  Timeouts = TRUE
SPECIFICATION TimeoutSpec
INVARIANTS
  RequestsAccounted
  SlotsBounded
  WorkConserving
PROPERTIES
  
  ImplementsStages
  ImplementsFairService
