\* Reads stop anywhere, every reply fits in rxbuf.
SPECIFICATION Spec
CONSTANTS
  Regs = {"probe_qty", "voa"}
  CheckedRegs = {"probe_qty"}
  DoubleRegs = {"voa"}
  Vals <- MCVals
  CmdTexts <- MCShortTexts
  RxCap = 5
  ShortReads = TRUE
  MaxCalls = 4
INVARIANTS
  ReturnedIsActual
CHECK_DEADLOCK FALSE
