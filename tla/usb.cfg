\* Commands over the serial line, with every failure, reconnecting after some.
SPECIFICATION Spec
CONSTANTS
  Replies <- MCReplies
  RspLen = 4
  Faults <- MCFaults
  MaxCalls = 4
INVARIANTS
  TypeOK
  AnswersLagByConnect
  StaysInRsp
PROPERTIES
  CallEnds
CHECK_DEADLOCK FALSE
