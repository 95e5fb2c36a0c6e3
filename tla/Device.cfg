CONSTANTS
  CrashLimit = 2
  MaxCrashes = 3
  Slots = {ota0, ota1}
  Writers = {upload, github}
  MaxResets = 4
  MaxInstalls = 2
SPECIFICATION Spec

INVARIANT SafeWhenDue
INVARIANT AlwaysBootable
PROPERTY SafeOnlyWhenDue
PROPERTY TrialIsResolved
CHECK_DEADLOCK FALSE
