SPECIFICATION FairSpec
CONSTANTS
  LastRtp = 3
  MaxTrack = 1
  Leads = {1}
  InFlight = 1
  Room = 2
  Target = 2
  Threshold = 0
  GateWindow = 1
  SeekThreshold = 1
  MaxEarly = 1
  MaxRequests = 2
  MaxAge = 4
  NONE = NONE

INVARIANT OrdersKept
PROPERTY FirstFitsWindow
PROPERTY ImplementsPlayout
PROPERTY PlaysOn
CHECK_DEADLOCK FALSE
