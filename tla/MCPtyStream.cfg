\* One id; queues of one item, a byte ceiling of one, one PTY worker, one chunk of
\* output per terminal.
SPECIFICATION Spec
CONSTANTS
  Handlers <- MCHandlers
  HostShells <- MCHostShells
  Frames <- MCFrames
  NoHandler = 0
  MalformedId = bad
  Ids = {a}
  Tunnels = {}
  MaxStreams = 1
  CtrlCap = 1
  StreamCap = 1
  SessionCap = 1
  ThreadCap = 1
  PtyWorkers = 1
  MaxChunks = 1
INVARIANTS TypeOK BuffersCharged NoOrphanWorker WireOrder
CHECK_DEADLOCK FALSE
PROPERTIES ImplementsTable
