SPECIFICATION Spec
CONSTANTS
  Frames = {f1}
  Runt = Runt
  Mbz = Mbz
  Nxm = Nxm
  BadTx = {}
  t1 = t1
  r1 = r1
  r2 = r2
  TxRings = {t1}
  RxRings = {r1}
  Hole = Hole
  None = None
  TxLen = 2
  RxLen = 2
  Formats <- OrUnmapped
  HostCmds = {"GETPCB", "GETCMD", "START", "PDMD", "STOP"}
  HostAux = {"wr_ring"}
  HostInte = {FALSE}
  HostDma = {TRUE}
  Impatient = FALSE
  MaxWire = 2
VIEW RingView
INVARIANTS
  TxHeld
  RxHeld
PROPERTIES
  OwnershipAlternates
