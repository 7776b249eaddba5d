SPECIFICATION LiveSpec
CONSTANTS
  A = A
  B = B
  Modulus = 4
  MaxOut = 2
  RepMax = 1
  UserLines = {B}
  MaxMsgs <- TwoOneWay
  MaxLine = 0
  Patient = TRUE
  MaxFaults = 1
  MaxStops = 1
CHECK_DEADLOCK FALSE
INVARIANTS
  TypeOK
  WindowOK
  TimerRuns
  ServerKnows
PROPERTIES
  LinkServiceSpec
  ComesUp
