\* A container that Docker is restarting is not stopped.
SPECIFICATION Spec
CONSTANTS
  o1 = o1
  o2 = o2
  k1 = k1
  k2 = k2
  k3 = k3
  Ops <- MCOps
  Containers <- MCContainers
  NoOp = NoOp
  NoContainer = NoContainer
  MaxFaults = 1
INVARIANT SingleWriter
SYMMETRY Symmetry
CHECK_DEADLOCK FALSE
