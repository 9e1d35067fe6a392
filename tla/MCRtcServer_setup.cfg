SPECIFICATION FairSpec
CONSTANTS
  Addresses = {a}
  Messages <- MCMessages
  None = None
  IdleTimeout = 1
  Watchdog = 1
  IdrInterval = 1
  SrInterval = 1
  MaxLag = 0
  MaxSessions = 1
  RingSlots = 1
  Capturing = FALSE
PROPERTIES SetupEnds
