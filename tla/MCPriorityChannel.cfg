SPECIFICATION FairSpec
CONSTANTS
  Senders <- TwoSenders
  First = "s1"
  Kinds <- KindSet
  Buffer = 0
  MaxMsg <- Max1
  Uses <- Uses1
  MayClose <- Closers
CHECK_DEADLOCK FALSE
INVARIANTS CountIsExact NoLostWakeUp InOrderNothingLost
PROPERTIES SendEnds
