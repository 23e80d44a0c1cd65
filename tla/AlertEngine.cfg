SPECIFICATION Spec
CONSTANTS
  d1 = d1
  n1 = n1
  Drones = {d1}
  Nodes = {n1}
  Rules <- MCRules
  Window = 2
  CleanupEvery = 2
INVARIANTS
  TypeOK
  NewDroneOnce
  NewDroneAccounted
PROPERTIES
  AlertsApart
