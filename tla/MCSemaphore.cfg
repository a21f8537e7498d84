SPECIFICATION FairSpec
CONSTANTS
  p1 = p1
  p2 = p2
  p3 = p3
  Proc <- MCProc
  NoProc = NoProc
  Asks = {"poll", "block", "timed"}
  MaxValue = 1
INVARIANTS
  WakeupsArrive
PROPERTY
  ImplementsSemaphore
  PermitIsUsed
