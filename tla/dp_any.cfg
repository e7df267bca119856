\* Any calls in any order, and every libiio call may fail.
SPECIFICATION Spec
CONSTANTS
  TxSizes <- MCTxSizes
  RxSizes <- MCRxSizes
  BufCounts <- MCBufCounts
  DfltBufs = {2}
  Faults <- MCAllFaults
  Usage = {}
  MaxBlocks = 2
  MaxSes = 2
  MaxInits = 2
PROPERTIES
  NeverOlder
CHECK_DEADLOCK FALSE
