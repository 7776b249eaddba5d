SPECIFICATION SysSpec
CONSTANTS
  MaxPkts = 2
  MaxArrive = 2
  Answered <- FirstArrival
  Holds = TRUE
  Frames <- AllFrames
  Runt = Runt
  Mbz = Mbz
  Nxm = Nxm
  BadTx = {}
  t1 = t1
  r1 = r1
  TxRings = {t1}
  RxRings = {r1}
  Hole = Hole
  None = None
  TxLen = 1
  RxLen = 2
  Formats <- OneFormat
  HostCmds = {}
  HostAux = {"plain", "wr_ring"}
  HostInte = {}
  HostDma = {TRUE}
  Impatient = FALSE
  MaxWire = 2
CHECK_DEADLOCK FALSE
INVARIANTS
  SysTypeOK
  RxNoticed
  TxNoticed
  StallsExplained
PROPERTIES
  ServiceSpec
  PortComesUp
  PacketsLeave
