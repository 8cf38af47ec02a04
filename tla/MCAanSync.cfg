SPECIFICATION Spec
CONSTANTS
  Nbuf = 2
  MaxSend <- Requests
  MaxBreaks = 2
  Answering = {"server"}
  Closing = {"client"}
INVARIANT AcksInOrder
CHECK_DEADLOCK FALSE
