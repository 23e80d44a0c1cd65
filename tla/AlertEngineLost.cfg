SPECIFICATION Spec
CONSTANTS
  d1 = d1
  n1 = n1
  Drones = {d1}
  Nodes = {n1}
  Rules <- MCOneRule
  Window = 2
  CleanupEvery = 2
INVARIANT SuppressionImpliesAlert
CHECK_DEADLOCK FALSE
