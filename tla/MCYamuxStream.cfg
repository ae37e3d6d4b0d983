SPECIFICATION Spec
CONSTANTS
  InitialWindow = 2
  MaxWindow <- SmallWindows
  MaxU32 = 8
  ChanCap = 2
  WriteSizes = {3}
  ReadSizes = {1}
  MaxWritten = 4
  MaxPath = 2
  Readers <- BothEnds
  Peekers <- Server
  Writers <- Client
  Closers <- BothEnds
  Droppers <- BothEnds
  MayRefuse = TRUE
  MayGoDown <- BothEnds
CHECK_DEADLOCK FALSE
INVARIANTS NoProtocolError ReaderNeverLost
PROPERTIES EofAfterAllData
