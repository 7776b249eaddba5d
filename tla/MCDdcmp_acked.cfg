SPECIFICATION Spec
CONSTANTS
  A = A
  B = B
  Modulus = 3
  MaxOut = 2
  RepMax = 1
  UserLines = {B}
  MaxMsgs <- ThreeOneWay
  MaxLine = 0
  Patient = TRUE
  MaxFaults = 1
  MaxStops = 1
CHECK_DEADLOCK FALSE
PROPERTIES
  AckedDelivered
