\* A processor that executes 20 million instructions a second, and messages
\* of two segments of 1000 bytes: the product of the delay calculation needs
\* 32 bits.
SPECIFICATION Spec

CONSTANTS
  Lines <- OneLine
  Peer <- Loop1
  MaxQueue = 3
  MaxMsg = 2000
  TxLists = {x1}
  RxLists = {r1}
  Msgs = {1}
  Segs <- TwoSegs
  SegBytes = 1000
  TmxrPoll = 400000
  HostSel0 <- Sel0Values
  None = None

INVARIANT
  TransmissionTimed
