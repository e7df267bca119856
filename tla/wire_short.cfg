\* Reads stop anywhere; a raw command may be answered with more than rxbuf takes, and
\* lengths whose top bit is set come into the stream.
SPECIFICATION Spec
CONSTANTS
  Regs = {"probe_qty", "voa"}
  CheckedRegs = {"probe_qty"}
  DoubleRegs = {"voa"}
  Vals <- MCVals
  CmdTexts <- MCLongTexts
  RxCap = 6
  ShortReads = TRUE
  MaxCalls = 4
INVARIANTS
  TypeOK
  TrustedIsActual
  KeepsPlace
  ReadFailureIsSeen
PROPERTIES
  EveryCallReturns
CHECK_DEADLOCK FALSE
