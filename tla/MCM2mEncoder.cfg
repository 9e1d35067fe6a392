SPECIFICATION FairSpec
CONSTANTS
  Buffers = {b1, b2, b3}
  None = none
  CaptureBuffers = 2
  MaxErrors = 3
INVARIANTS OnePlace ErrorsCost KeyReported
PROPERTIES CallReturns
