CONSTANTS
  Clocks = {a, b}
  Sender = a
  NoClock = none
  MinSamples = 2
  MaxSteps = 1
SPECIFICATION Spec

INVARIANT LockIsOnMaster
PROPERTY LocksInTheEnd
