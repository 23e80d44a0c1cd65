SPECIFICATION FairSpec
CONSTANTS
  t1 = t1
  t2 = t2
  i1 = i1
  i2 = i2
  Transmitters = {t1, t2}
  IDs = {i1, i2}
  Ranks = {3, 4}
  Sends <- MCSends
  MaxPack = 2
  Interval = 2
  Grace = 2
  TTL = 2
  ExpireEvery = 2
INVARIANTS
  TypeOK
  BestIdPublished
  OneTrack
PROPERTIES
  SnapshotsApart
  SilenceForgets
  KeepsPublishing
