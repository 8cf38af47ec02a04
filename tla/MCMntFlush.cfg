SPECIFICATION FairSpec
CONSTANTS
  Proc = {p1, p2}
  NRpc = 4
  MaxCalls = 1
  MaxIntr = 2
  Hangs = TRUE
  Nil = Nil
INVARIANT NoRpcLost
PROPERTIES ImplementsRemote CallsEnd
CHECK_DEADLOCK FALSE
