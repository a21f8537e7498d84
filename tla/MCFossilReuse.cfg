SPECIFICATION Spec
CONSTANTS
  a1 = a1
  a2 = a2
  a3 = a3
  a4 = a4
  a5 = a5
  a6 = a6
  Nil = Nil
  FirstRoot <- MCRoot
  Addr <- MCAddr6
  Slot <- MCSlot1
  FileSlot <- MCSlot1
  MaxDepth = 0
  MaxOps = 5
  MaxEpoch = 3
  MaxCrash = 1
SYMMETRY Symmetry
CHECK_DEADLOCK FALSE
INVARIANT
  NotReused
