CONSTANTS
  Capacity = 5
  RtpModulus = 6
  Senders = {a, b}
  Tokens = {t, u}
  NoSender = none
  QueueLength = 4

SPECIFICATION SmallSpec

INVARIANT EndsInGap
INVARIANT TokenStaysHome
INVARIANT OwnPort
PROPERTY ButtonsWork
CHECK_DEADLOCK FALSE
