SPECIFICATION FairSpec
CONSTANTS
  p1 = p1
  p2 = p2
  p3 = p3
  r1 = r1
  r2 = r2
  r3 = r3
  r4 = r4
  r5 = r5
  Proc <- MCProc
  Rpc <- MCRpc
  Nil = Nil
  KeepFree = 2
  Caller <- MCCaller
  MaxTag = 8
  MaxCalls = 3
  Noted = {p2}
  MaxNotes = 2
  MaxHangup = 1
INVARIANTS
  OneReader
  OwnReply
  HonorsReply
  TagsOwned
  QueueIsLive
PROPERTY
  CallsReturn
CHECK_DEADLOCK FALSE
