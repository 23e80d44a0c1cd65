SPECIFICATION ComponentsSpec
CONSTANTS
  Backend = "auto"
  Attempts = 2
  WantCoded = TRUE
  MaxAdverts = 1
  Places = {"here", "there"}
  Receivers = {"ublox", "nmea"}
  Drones = {"d", ""}
  Window = 2
  MaxSlip = 1
  Channels <- HopOrder
  Nodes = {"n1", "n2", "n3"}
  MinNodes = 2
  ObsWindow = 1
  Ahead = 1
  CalNodes = {"n1", "n2"}
  Times = {0, 1, 3}
  MaxTrack = 3
  MaxDetections = 3
  MinSamples = 2
  Gap = 1
  MaxRuns = 2
  Advertisers = {"a1", "a2"}
  MaxAge = 1
  MaxParts = 2
  MaxLinks = 2
  MaxVersion = 1
INVARIANTS
  ComponentsTypeOK
  ScanAsReported
  SurveyHonest
  HighExplained
  CalibrationSound
  JoinedAsSent
PROPERTIES
  ScanResumes
  DashboardRecovers
  OncePerWindow
  FixFromRecent
CHECK_DEADLOCK FALSE
