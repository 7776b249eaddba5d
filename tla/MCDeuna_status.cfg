SPECIFICATION Spec
CONSTANTS
  Frames = {f1}
  Runt = Runt
  Mbz = Mbz
  Nxm = Nxm
  BadTx = {}
  t1 = t1
  r1 = r1
  r2 = r2
  TxRings = {t1}
  RxRings = {r1}
  Hole = Hole
  None = None
  TxLen = 2
  RxLen = 2
  Formats <- OneFormat
  HostCmds = {"GETPCB", "GETCMD", "START", "PDMD"}
  HostAux = {"rd_stat"}
  HostInte = {FALSE}
  HostDma = {TRUE}
  Impatient = FALSE
  MaxWire = 0

PROPERTY
  ReadStatusKeeps
