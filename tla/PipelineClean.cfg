CONSTANTS
  r1 = r1
  r2 = r2
  Requests = {r1, r2}
  NumEncoders = 1
  NumDenoisers = 2
  NumDecoders = 1
  Sizes = {1, 2}
  NumPrealloc = 1
  PreallocSize = 1
  EncoderCapacity = 2
  DenoiserCapacity = 1
  DecoderCapacity = 1
  Policy = "round_robin"
  QueueSize = 1
  Faults = {}
  Timeouts = FALSE
SPECIFICATION FairSpec
INVARIANTS
  CapacityRespected
  PushesFromHolder
  
PROPERTIES
  Answered
