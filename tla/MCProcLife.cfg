SPECIFICATION Spec
CONSTANTS
  p1 = p1
  p2 = p2
  p3 = p3
  Proc <- MCProc3
  Nil = Nil
  Boot = p1
  Limit = 1
  NBROKEN = 1
  Reader = {p1}
  MaxPid = 4
SYMMETRY Symmetry3
INVARIANTS
  
  
  WaitsEnd
CHECK_DEADLOCK FALSE
