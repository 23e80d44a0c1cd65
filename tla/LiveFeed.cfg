SPECIFICATION FairSpec
CONSTANTS
  MaxAlerts = 3
  SnapshotLimit = 2
  MaxShown = 3
  MaxInFlight = 2
INVARIANTS
  TypeOK
  NewestFirst
  LapsesOnce
PROPERTIES
  StoreCatchesUp
