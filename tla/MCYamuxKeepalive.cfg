SPECIFICATION FairSpec
CONSTANTS
  KeepaliveInterval = 1
  Timeout = 3
  MaxPing = 6
  MaxLate = 1
  RoundTrip = 2
CHECK_DEADLOCK FALSE
INVARIANTS NoFalseTimeout
PROPERTIES HangIsNoticed
