SPECIFICATION FairSpec
CONSTANTS
  Slots = 1
  Backends = {"x264", "m2m"}
  Depth = 1
  StallFrames = 2
  MaxFrames = 4
INVARIANTS RequestKept Accounting StallReported
PROPERTIES NoFalseAlarm KeepsContract StopJoins
