SPECIFICATION Spec
CONSTANTS
  a = a
  b = b
  c = c
  Proc = {p1, p2, p3}
  Dir = {a, b, c}
  Mhead = {h1, h2, h3}
  Call <- AllCalls
  Table <- Tables
  Files <- Found
  MaxCalls = 3
  Nil = Nil
INVARIANT StartsAtC
CHECK_DEADLOCK FALSE
