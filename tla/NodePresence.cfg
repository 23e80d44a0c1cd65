SPECIFICATION FairSpec
CONSTANT MaxInFlight = 3
INVARIANTS
  TypeOK
  RetainedTellsTruth
  RowFollowsRetained
PROPERTIES
  GoneNodeNotOnline
  PresentNodeOnline
