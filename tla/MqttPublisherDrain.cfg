SPECIFICATION FairSpec
CONSTANTS
  bluetooth = bluetooth
  wifi = wifi
  Main = Main
  Scanners <- MCOneScanner
  Guarded = {}
  Durable <- MCOneScanner
  MaxQueue = 1
  MaxMsgs <- MCTwoEach
PROPERTIES
  ImplementsOutbox
  DrainsUnlessBlocked
\* The agent ends: after disconnect() nothing is left to do.
CHECK_DEADLOCK FALSE
