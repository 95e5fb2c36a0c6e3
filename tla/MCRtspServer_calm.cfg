SPECIFICATION Spec
CONSTANTS
  Clients = {c1, c2}
  None = None
  JoinsExpire = FALSE
  CallsFail = FALSE
  MaxStops = 0
INVARIANT QuietIsClean
PROPERTY StopHonoured
PROPERTY Answered
