\* The driver with two transmit lists for a line, as in KDPSRV, and queues that
\* they fill; the KMC is loaded twice.  The first message takes two
\* descriptors, the second one.
SPECIFICATION SysSpec

CONSTANTS
  Lines <- TwoLines
  Peer <- Crossed
  MaxQueue = 3
  MaxMsg = 2000
  TxLists = {x1, x2}
  RxLists = {r1}
  Msgs = {1, 2}
  Segs <- MixedSegs
  SegBytes = 100
  TmxrPoll = 10000
  HostSel0 = {}
  None = None
  MaxLoads = 2

INVARIANTS
  InputExpected
  RegistersHeld
  RequestPending
  WholeFrames
  FreeListsBack

PROPERTIES
  BufferServiceSpec
  NoOverwrite
  ListsReturn

