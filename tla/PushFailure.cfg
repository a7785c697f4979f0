CONSTANTS
  r1 = r1
  Requests = {r1}
  NumEncoders = 1
  NumDenoisers = 1
  NumDecoders = 1
  Sizes = {1}
  NumPrealloc = 1
  PreallocSize = 1
  EncoderCapacity = 1
  DenoiserCapacity = 1
  DecoderCapacity = 1
  Policy = "round_robin"
  QueueSize = 1
  Faults = {"push"}
  Timeouts = FALSE
SPECIFICATION Spec
INVARIANTS
  DataIntegrity
