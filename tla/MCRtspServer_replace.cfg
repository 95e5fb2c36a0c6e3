SPECIFICATION Spec
CONSTANTS
  Clients = {c1, c2}
  None = None
  JoinsExpire = TRUE
  CallsFail = TRUE
  MaxStops = 1
INVARIANT OneSessionAtATime
INVARIANT NothingOutlivesItsTask
PROPERTY NoForeignTeardown
SYMMETRY Symmetry
