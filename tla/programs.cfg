\* The three programs, with every failure that libiio reports, with one kernel
\* buffer or with a second one for the ADC to fill while tst.c writes the first.
SPECIFICATION ProgSpec
CONSTANTS
  Progs = {"tst", "n", "c"}
  Pds = {2, 4, 6}
  Qtys = {1, 2, 3}
  Pieces = 3
  TxSizes <- MCTxSizes
  RxSizes <- MCRxSizes
  BufCounts = {1}
  DfltBufs = {1, 2}
  Faults <- MCReportedFaults
  Usage = {}
  MaxBlocks = 4
  MaxSes = 1
  MaxInits = 1
INVARIANTS
  ProgTypeOK
  FileIsCapture
  ExitIsComplete
  LastReturnWaits
PROPERTIES
  KeepsRules
  CaptureIsWritten
CHECK_DEADLOCK FALSE
