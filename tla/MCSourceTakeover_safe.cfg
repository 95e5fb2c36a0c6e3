CONSTANTS
  Callers = {"player", "monitor", "test"}
  WaitExpires = TRUE
  CallsFail = TRUE
  LeavesLate = TRUE
  MemoryShort = TRUE
  MaxIntrusions = 3
SPECIFICATION MCSpec

INVARIANT OneWriter
INVARIANT TakeoverHolds
INVARIANT OutputComesBack
PROPERTY StopEndsPlayer
