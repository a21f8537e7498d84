SPECIFICATION FairSpec
CONSTANTS
  t1 = t1
  t2 = t2
  t3 = t3
  c1 = c1
  c2 = c2
  Thread <- MCThread
  Chan <- MCChan
  Nil = Nil
  Size <- MCSize
  Arrays <- MCArrays
  Caller <- MCCaller
  MaxCalls = 3
  MaxInts = 1
INVARIANTS
  FreedInTime
PROPERTIES
  ImplementsChan
  CommittedReturn
CHECK_DEADLOCK FALSE
