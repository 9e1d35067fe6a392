SPECIFICATION Spec
CONSTANTS
  Consumers = {c1, c2}
  Publisher = source
  None = none
  PoolCount = 5
  MaxSequence = 3
SYMMETRY Symmetry
INVARIANTS FreeExactly
