SPECIFICATION FairSpec
CONSTANTS
  MaxSockets = 2
  MaxPending = 2
INVARIANTS StopIsFinal RetryArmed
PROPERTIES SilenceNoticed
