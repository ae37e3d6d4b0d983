SPECIFICATION FairSpec
CONSTANTS
  InitialWindow = 2
  MaxWindow <- SmallWindows
  MaxU32 = 8
  ChanCap = 2
  WriteSizes = {3}
  ReadSizes = {2}
  MaxWritten = 4
  MaxPath = 2
  Readers <- BothEnds
  Peekers <- Nobody
  Writers <- BothEnds
  Closers <- Nobody
  Droppers <- Server
  MayRefuse = FALSE
  MayGoDown <- Nobody
CHECK_DEADLOCK FALSE
INVARIANTS WindowConservation
PROPERTIES DataArrives
