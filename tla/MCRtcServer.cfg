SPECIFICATION FairSpec
CONSTANTS
  Addresses = {a}
  Messages <- MCMessages
  None = None
  IdleTimeout = 1
  Watchdog = 2
  IdrInterval = 1
  SrInterval = 1
  MaxLag = 1
  MaxSessions = 1
  RingSlots = 1
  Capturing = TRUE
INVARIANTS TypeOK StatesAgree MediaSecured ClosedOnce ActiveWhileWatched KeyframeOwed
PROPERTIES NotReapedEarly SilenceEnds IceEnds FreshViewerServed
