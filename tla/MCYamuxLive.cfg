SPECIFICATION FairSpec
CONSTANTS
  ChanCap = 1
  WireCap = 1
  MaxStreamCount = 2
  AcceptBacklog = 1
  MaxId = 3
  Setups <- LiveSetups
CHECK_DEADLOCK FALSE
PROPERTIES NoHeadOfLineBlocking OpenAnswered BothEnd
