SPECIFICATION Spec
CONSTANTS
  p1 = p1
  p2 = p2
  p3 = p3
  r1 = r1
  t1 = t1
  Proc <- MCProc
  Target <- MCTarget
  Rendez <- MCRendez
  Tag <- MCTag
  NNOTE = 2
  None = None
SYMMETRY Symmetry
INVARIANTS
  NoPanic
  NoLostWakeup
  NoLostNote
  OneWaiterPerTag
