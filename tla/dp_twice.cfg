\* The application enables twice in a row.
SPECIFICATION Spec
CONSTANTS
  TxSizes <- MCTxSizes
  RxSizes <- MCRxSizes
  BufCounts <- MCBufCounts
  DfltBufs = {2}
  Faults = {}
  Usage <- MCNotPairs
  MaxBlocks = 2
  MaxSes = 2
  MaxInits = 2
INVARIANTS
  DisabledIsOff
CHECK_DEADLOCK FALSE
