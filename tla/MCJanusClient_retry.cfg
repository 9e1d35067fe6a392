SPECIFICATION FairSpec
CONSTANTS
  MaxSockets = 2
  MaxPending = 2
INVARIANTS RetryHonoured
