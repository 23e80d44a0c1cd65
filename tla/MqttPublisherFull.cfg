SPECIFICATION Spec
CONSTANTS
  bluetooth = bluetooth
  wifi = wifi
  Main = Main
  Scanners <- MCScanners
  Guarded <- MCGuarded
  Durable <- MCDurable
  MaxQueue = 2
  MaxMsgs <- MCMaxMsgs
INVARIANT EnqueueNeverFails
CHECK_DEADLOCK FALSE
