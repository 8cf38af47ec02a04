SPECIFICATION Spec
CONSTANTS
  r1 = r1
  r2 = r2
  w1 = w1
  w2 = w2
  Reader = {r1, r2}
  Writer = {w1, w2}
  Dev = {d1}
  Uses <- AllUses
  Maxatomic = 2
  Intr = TRUE
  Nil = Nil
INVARIANTS Accounts NoStrandedReader NoStrandedWriter StreamInOrder NoLeak
SYMMETRY Symmetry
CHECK_DEADLOCK FALSE
