\* Three commands, two of them at a time, one failing call, one death of the agent.
SPECIFICATION Spec
CONSTANTS
  Ops = {o1, o2, o3}
  Containers <- MCContainers
  NoContainer = 0
  NoOp = none
  MaxActive = 2
  MaxFaults = 1
SYMMETRY Symmetry
INVARIANTS TypeOK OneServer
PROPERTIES FailedRecreateServes RetrySucceeds RemovedIsGone FailedInstanceIsDown
CHECK_DEADLOCK FALSE
