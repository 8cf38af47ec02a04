SPECIFICATION Spec
CONSTANTS
  Proc = {p1, p2, p3}
  Chan = {c1, c2, c3}
  Ops = {"open", "close", "use", "dup", "pipe", "kproc", "exit", "closefiles"}
  PipeAlone = TRUE
  Deltafd = 1
  Maxnfd = 3
  Nil = Nil
INVARIANTS  NoHiddenFd
PROPERTY MinfdKept
SYMMETRY Symmetry
CHECK_DEADLOCK FALSE
