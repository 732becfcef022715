\* Two requests written within one second of os.time().
CONSTANTS
  i1 = i1
  m1 = m1
  NoFile = NoFile
  Images <- OneImage
  Messages <- OneMessage
  MaxTime = 1
  MaxWrites = 2
SPECIFICATION Spec
INVARIANT QueuedRequestKept
