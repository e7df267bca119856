\* Every read gets all it asks for, and every reply fits in rxbuf.
SPECIFICATION Spec
CONSTANTS
  Regs = {"probe_qty", "voa"}
  CheckedRegs = {"probe_qty"}
  DoubleRegs = {"voa"}
  Vals <- MCVals
  CmdTexts <- MCShortTexts
  RxCap = 5
  ShortReads = FALSE
  MaxCalls = 6
INVARIANTS
  ReturnedIsActual
PROPERTIES
  ImplementsApi
CHECK_DEADLOCK FALSE
