SPECIFICATION ServedSpec
CONSTANTS
  r1 = r1
  r2 = r2
  w1 = w1
  w2 = w2
  Reader = {r1, r2}
  Writer = {w1, w2}
  Dev = {}
  Uses <- Served
  Maxatomic = 2
  Intr = FALSE
  Nil = Nil
INVARIANT LimitKept
PROPERTIES ReaderLeaves WritesFinish
CHECK_DEADLOCK FALSE
