CONSTANTS
  Networks = {home, other}
  None = None
  Reenable = 3
  MaxRequests = 2
  MaxCuts = 2
  MaxChanges = 2
SPECIFICATION Spec

INVARIANT StaysReachable
INVARIANT CredentialsSafe
PROPERTY TrialEnds
PROPERTY ComesBack
CHECK_DEADLOCK FALSE
