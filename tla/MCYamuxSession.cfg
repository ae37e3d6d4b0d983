SPECIFICATION Spec
CONSTANTS
  ChanCap = 1
  WireCap = 1
  MaxStreamCount = 2
  AcceptBacklog = 1
  MaxId = 2
  Setups <- OrderSetups
CHECK_DEADLOCK FALSE
INVARIANTS NoProtocolErrorSent
PROPERTIES ImplementsOrderedStreams
