SPECIFICATION TFairSpec
CONSTANTS
  p1 = p1
  p2 = p2
  r1 = r1
  r2 = r2
  c1 = c1
  c2 = c2
  Proc <- MCProc1
  Rendez <- MCRendez
  Cpu <- MCCpu
  None = None
PROPERTY
  TimesOut
