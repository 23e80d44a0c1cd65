SPECIFICATION FairSpec
CONSTANT MaxInFlight = 3
PROPERTY OfflineDetected
