SPECIFICATION FairSpec
CONSTANTS
  Consumers = {encoder}
  Publisher = source
  None = none
  PoolCount = 2
  MaxSequence = 6
INVARIANTS Control Ownership DropsOnlyWhenHeld Freshest
PROPERTIES KeepsNewest PublishReturns
