SPECIFICATION Spec
CONSTANTS
  Frames = {f1}
  Runt = Runt
  Mbz = Mbz
  Nxm = Nxm
  BadTx = {Runt}
  t1 = t1
  r1 = r1
  r2 = r2
  TxRings = {t1}
  RxRings = {r1}
  Hole = Hole
  None = None
  TxLen = 1
  RxLen = 2
  Formats <- OneFormat
  HostCmds = {"NOOP", "GETPCB", "GETCMD", "SELFTEST", "START", "PDMD", "STOP"}
  HostAux = {"illegal", "wr_ring"}
  HostInte = {TRUE, FALSE}
  HostDma = {}
  Impatient = TRUE
  MaxWire = 0
VIEW ControlView
INVARIANTS
  TypeOK
  InterruptKept
  UnitQueued
