SPECIFICATION FairSpec
CONSTANTS
  p1 = p1
  p2 = p2
  p3 = p3
  Proc <- MCProc
  NoProc = NoProc
INVARIANTS
  Exclusion
  ReadiedOnce
PROPERTIES
  QueuedEventuallyIn
  ImplementsFifo
