SPECIFICATION FairLifeSpec
CONSTANTS
  Encoder = encoder
  Consumers = {encoder}
  Publisher = source
  None = none
  PoolCount = 2
  MaxSequence = 2
  Buffers = {b1, b2}
  MaxRequeueFailures = 1
INVARIANTS NothingDangling CleanExit BuffersKept
PROPERTIES ShutdownEnds
