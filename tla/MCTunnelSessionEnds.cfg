\* The same instance with a target that may stop reading.
SPECIFICATION Spec
CONSTANTS
  a = a
  Handlers <- MCHandlers
  Tunnels <- MCHandlers
  Ids <- MCIds
  Frames <- MCFrames
  NoHandler = 0
  MaxStreams = 1
  CtrlCap = 0
  StreamCap = 2
  SessionCap = 2
  HighWater = 0
  MaxFrames = 3
  MaxQueue = 1
PROPERTY SessionEnds
CHECK_DEADLOCK FALSE
