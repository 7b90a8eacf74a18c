\* Four data frames against a ceiling of two; targets that read.
SPECIFICATION DrainingSpec
CONSTANTS
  a = a
  Handlers <- MCHandlers
  Tunnels <- MCHandlers
  Ids <- MCIds
  Frames <- MCFrames
  NoHandler = 0
  MaxStreams = 1
  CtrlCap = 0
  StreamCap = 2
  SessionCap = 2
  HighWater = 0
  MaxFrames = 4
  MaxQueue = 1
INVARIANTS TypeOK WithinCeilings ReleasedIsClean ChargedExactly NoGap PauseHolds
CHECK_DEADLOCK FALSE
PROPERTIES ImplementsTable CloseEndsTunnel SessionEnds
