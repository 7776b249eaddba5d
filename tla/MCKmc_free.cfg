\* One line that sends to itself, a host that writes anything at any time,
\* and a queue with room for three descriptors.
SPECIFICATION Spec

CONSTANTS
  Lines <- OneLine
  Peer <- Loop1
  MaxQueue = 3
  MaxMsg = 2000
  TxLists = {x1}
  RxLists = {r1}
  Msgs = {1}
  Segs <- TwoSegs
  SegBytes = 100
  TmxrPoll = 10000
  HostSel0 <- Sel0Values
  None = None

INVARIANTS
  TypeOK
  QueueBounds
  TransmissionTimed
  CompletionFlagged
