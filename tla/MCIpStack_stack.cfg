SPECIFICATION Spec
CONSTANTS
  d1 = d1
  d2 = d2
  h1 = h1
  e1 = e1
  e2 = e2
  None = None
  Hosts = {h1}
  Eths = {e1, e2}
  ArTtl = 2
  ArItl = 1
  MaxBlocks = 2
  Devs = {d1, d2}
  Ports = {1, 2}
  Echo = 7
  Discard = 9
  InLimit = 1
  OutLimit = 2
  MaxTx = 2
  MaxInputs <- Few
  MaxAll = 6
CHECK_DEADLOCK FALSE
INVARIANTS
  IpTypeOK
  FreshAnswer
  InputCounted
  OutputCounted
  OwnInput
PROPERTIES
  SlotsReturn
