SPECIFICATION FairSpec
CONSTANTS
  Proc = {p1, p2, p3, p4, p5}
  NoProc = NoProc
  Readers = Readers
INVARIANTS WriterAlone GateShut CountedReaders
  
