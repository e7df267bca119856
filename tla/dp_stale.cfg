\* A buffer is returned to the pool and not taken before qnicll_txrx_en(0).
SPECIFICATION Spec
CONSTANTS
  TxSizes <- MCTxSizes
  RxSizes <- MCRxSizes
  BufCounts <- MCBufCounts
  DfltBufs = {2}
  Faults = {}
  Usage <- MCNotDrained
  MaxBlocks = 2
  MaxSes = 2
  MaxInits = 2
INVARIANTS
  GotIsNext
CHECK_DEADLOCK FALSE
