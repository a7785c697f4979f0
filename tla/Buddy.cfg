CONSTANTS
  MaxOrder = 3
  BlockSize <- TwoByteBlocks
  AskedSizes = {0, 1, 3, 4, 5, 16, 17}
  Sizes <- TestSizes
  MinBlocks = {1, 8, 1048576}
  PoolBytes = 268435456
SPECIFICATION FairSpec
INVARIANTS
  NoOverlap
  FreeListsExact
  CountFreeSlotsExact
  BytesAccounted
  OrderIsSmallestFit
PROPERTY CallsReturn
