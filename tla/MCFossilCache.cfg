SPECIFICATION Spec
CONSTANTS
  a1 = a1
  a2 = a2
  a3 = a3
  a4 = a4
  a5 = a5
  a6 = a6
  Nil = Nil
  FirstRoot <- MCRoot
  Addr <- MCAddr4
  Slot <- MCSlot2
  FileSlot <- MCSlot1
  MaxDepth = 1
  MaxOps = 5
  MaxEpoch = 4
  MaxCrash = 1
SYMMETRY Symmetry
CHECK_DEADLOCK FALSE
INVARIANTS
  NoLeak
  NotesHold
  InUseIsKept
  SnapshotKept
  CleanIsOnDisk
  UnderItsLabel
  NoCircle
