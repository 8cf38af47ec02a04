\* Three processes, all of which may also call canqlock.
SPECIFICATION FairSpec
CONSTANTS
  Proc = {p1, p2, p3}
  Trier = {p1, p2, p3}
  NoProc = NoProc
INVARIANTS MutualExclusion NobodyStranded OneToken
PROPERTIES ImplementsMutex WaitersServed
