SPECIFICATION FairSpec
CONSTANTS
  bluetooth = bluetooth
  wifi = wifi
  Main = Main
  Scanners <- MCScanners
  Guarded <- MCGuarded
  Durable <- MCDurable
  MaxQueue = 2
  MaxMsgs <- MCMaxMsgs
INVARIANTS
  TypeOK
  NoLossNoDuplicate
  ReorderOnlyByRequeue
  SlotBelongsToProducer
  AtMostOneAfterOffline
\* The agent ends: after disconnect() nothing is left to do.
CHECK_DEADLOCK FALSE
