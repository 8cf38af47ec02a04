SPECIFICATION Spec
CONSTANTS
  Proc = {p1, p2, p3}
  NRpc = 4
  MaxCalls = 1
  MaxIntr = 1
  Hangs = FALSE
  Nil = Nil
INVARIANTS ListedOnce RepliesExpected GateHeld
SYMMETRY Symmetry
CHECK_DEADLOCK FALSE
