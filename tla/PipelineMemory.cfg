CONSTANTS
  r1 = r1
  r2 = r2
  Requests = {r1, r2}
  NumEncoders = 1
  NumDenoisers = 1
  NumDecoders = 1
  Sizes = {1, 2}
  NumPrealloc = 1
  PreallocSize = 1
  EncoderCapacity = 2
  DenoiserCapacity = 2
  DecoderCapacity = 1
  Policy = "round_robin"
  QueueSize = 1
  Faults = {"compute", "alloc", "exception"}
  Timeouts = TRUE
SPECIFICATION Spec
INVARIANTS
  TypeOK
  DataIntegrity
  FreeSlotsIdle
SYMMETRY Symmetry
