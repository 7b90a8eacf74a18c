\* As MCTenant.cfg, for an instance provisioned again while the first attempt goes on.
SPECIFICATION Spec
CONSTANTS
  Ops = {o1, o2, o3}
  Containers <- MCContainers
  NoContainer = 0
  NoOp = none
  MaxActive = 2
  MaxFaults = 1
SYMMETRY Symmetry
INVARIANTS LatestProvisionStands
CHECK_DEADLOCK FALSE
