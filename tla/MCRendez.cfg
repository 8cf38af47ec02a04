SPECIFICATION FairSpec
CONSTANTS
  Proc = {p1, p2}
  Rend = {r1}
  Waker = {w1}
  Killer = {k1, k2}
  MaxIntr = 2
  Nil = Nil
INVARIANTS EndedOnce NoteStaysInCall
PROPERTIES InterruptDelivered SleepEnds HostCallEnds
