SPECIFICATION FairSpec
CONSTANTS
  Budget = 4
  CacheSize = 2
  Numbers = 10
  MaskBits = 1
  MaxNack = 3
  Units <- MCUnits
  First = 7
  MaxLag = 2
  Nothing = nothing
  MaxPackets = 5
  MaxFailures = 1
INVARIANTS UnitsRestored
PROPERTIES LossRepaired
