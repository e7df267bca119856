\* Every read gets all it asks for; lengths whose top bit is set come into the stream.
SPECIFICATION Spec
CONSTANTS
  Regs = {"probe_qty"}
  CheckedRegs = {"probe_qty"}
  DoubleRegs = {}
  Vals <- MCVals
  CmdTexts <- MCHugeTexts
  RxCap = 6
  ShortReads = FALSE
  MaxCalls = 4
INVARIANTS
  NoSuccessOnReadFailure
CHECK_DEADLOCK FALSE
