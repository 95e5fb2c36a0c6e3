SPECIFICATION FairSpec
CONSTANTS
  SeqModulus = 12
  WindowBits = 3
  Lifetime = 2
  History = 4
  FirstSent = 9
  MaxSent = 15
  NONE = NONE

INVARIANT WindowIsRight
PROPERTY AsksForHoles
PROPERTY ImplementsMissing
PROPERTY OldestHoleFilled
