\* Two ids, queues of one item, one PTY worker; resizes and closes only, no bytes:
\* who waits for whom does not depend on them.
SPECIFICATION Spec
CONSTANTS
  Handlers <- MCHandlers
  HostShells <- MCHostShells
  Frames <- MCSignals
  NoHandler = 0
  MalformedId = bad
  Ids = {a, b}
  Tunnels = {}
  MaxStreams = 2
  CtrlCap = 1
  StreamCap = 1
  SessionCap = 1
  ThreadCap = 1
  PtyWorkers = 1
  MaxChunks = 0
CHECK_DEADLOCK FALSE
PROPERTIES CloseEndsStream StoppedWorkerExits OpenAnswered
