CONSTANTS
  r1 = r1
  r2 = r2
  Requests = {r1, r2}
  NumEncoders = 1
  NumDenoisers = 2
  NumDecoders = 1
  Sizes = {1}
  NumPrealloc = 0
  PreallocSize = 1
  EncoderCapacity = 1
  DenoiserCapacity = 1
  DecoderCapacity = 1
  Policy = "round_robin"
  QueueSize = 1
  Faults = {}
  Timeouts = TRUE
SPECIFICATION FairSpec
PROPERTIES
  Answered
CHECK_DEADLOCK FALSE
