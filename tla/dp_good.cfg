\* An application that keeps to the rules; libiio may fail where the failure is looked for.
SPECIFICATION Spec
CONSTANTS
  TxSizes <- MCTxSizes
  RxSizes <- MCRxSizes
  BufCounts <- MCBufCounts
  DfltBufs = {2}
  Faults <- MCReportedFaults
  Usage <- MCRules
  MaxBlocks = 3
  MaxSes = 3
  MaxInits = 2
INVARIANTS
  TypeOK
  GotIsNext
  BuffersOwned
  BuffersKnown
  BlocksInPlace
  DisabledIsOff
  EnabledIsReceiving
  EnabledHasTxData
  NoNullBuffer
PROPERTIES
  ReceiveReturns
  ImplementsStream
CHECK_DEADLOCK FALSE
